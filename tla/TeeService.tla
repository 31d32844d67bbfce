------------------------------ MODULE TeeService ------------------------------
(***************************************************************************)
(* The gRPC service (src/src/service.rs) over the in-memory store          *)
(* (src/src/store/memory.rs): concurrent handler calls that share one      *)
(* tokio RwLock.                                                           *)
(*                                                                         *)
(* A task runs one handler call at a time.  It validates the request,      *)
(* queues for the lock, works through the request one loop iteration (for  *)
(* a read: one collection) per step while it holds the lock, and ends with *)
(* a status.  The lock is FIFO: permits go to the head of the queue and a  *)
(* newcomer never overtakes.  The only await of a handler is the one for   *)
(* the lock, so a call can be cancelled only while it is queued.           *)
(***************************************************************************)
EXTENDS TeeStore

CONSTANTS
  Task,      \* the handler calls that may be in flight at the same time
  Requests   \* the requests that clients send

ASSUME RequestsAssumption == Requests \subseteq Message

VARIABLES
  state,  \* InnerState, behind the lock
  queue,  \* the tasks waiting for the lock, in order of arrival
  task    \* what each task is doing

vars == <<state, queue, task>>

Status == {"Ok", "InvalidArgument", "NotFound", "Internal"}

\* A task's call: its program counter, or its status once it has ended; the
\* request; the position in the handler's loops; the entries of the result
\* lists so far (created_ids, applied_ids, ...) and the collections read.
Call(pc, r) ==
  [pc |-> pc, req |-> r, at |-> 1, report |-> <<>>, view |-> NoView]

Idle == Call("idle", None)

ItemId == Text \cup AnyEdgeKey

Entry ==
  [ id : ItemId,
    outcome : {"created", "merged", "existed", "applied",
               "already_tombstoned", "unmatched"} ]
  \cup
  [ id : Text, outcome : {"conflict"}, field : {"type", "label"},
    existing_value : NodeTypes \cup Text \cup {Top} ]

\* What is collected into the view is the subject of SnapshotReads.
IsCall(c) ==
  /\ c \in [ pc : {"idle", "queued", "running"} \cup Status,
             req : Requests \cup {None}, at : Nat \ {0}, report : Seq(Entry),
             view : {c.view} ]
  /\ c.pc # "idle" => c.req \in Requests

TypeOK ==
  /\ IsState(state)
  /\ queue \in Seq(Task)
  /\ task = [t \in Task |-> task[t]]
  /\ \A t \in Task : IsCall(task[t])

Init ==
  /\ state = NewState
  /\ queue = <<>>
  /\ task = [t \in Task |-> Idle]

-----------------------------------------------------------------------------
(* Before the lock.                                                        *)

Receive(t, r) ==
  /\ task[t].pc = "idle"
  /\ Valid(r)
  /\ task' = [task EXCEPT ![t] = Call("queued", r)]
  /\ queue' = Append(queue, t)
  /\ UNCHANGED state

Reject(t, r) ==
  /\ task[t].pc = "idle"
  /\ ~ Valid(r)
  /\ task' = [task EXCEPT ![t] = Call("InvalidArgument", r)]
  /\ UNCHANGED <<state, queue>>

\* The client goes away or its deadline passes: the future is dropped at its
\* only await, and the queue forgets the task.
Cancel(t) ==
  /\ task[t].pc = "queued"
  /\ task' = [task EXCEPT ![t] = Idle]
  /\ \E i \in DOMAIN queue :
       /\ queue[i] = t
       /\ queue' = SubSeq(queue, 1, i - 1) \o SubSeq(queue, i + 1, Len(queue))
  /\ UNCHANGED state

Holders == {t \in Task : task[t].pc = "running"}

Writing(t) == task[t].req.rpc \in WriteRpcs

\* Mutation: a write takes the lock as a read does.
AcquireShared(t) ==
  /\ task[t].pc = "queued"
  /\ queue # <<>> /\ Head(queue) = t
  /\ \A h \in Holders : ~ Writing(h)
  /\ task' = [task EXCEPT ![t].pc = "running"]
  /\ queue' = Tail(queue)
  /\ UNCHANGED state

\* Mutation: a read overtakes the queue while no write holds the lock.
AcquireBarging(t) ==
  /\ task[t].pc = "queued"
  /\ \A h \in Holders : ~ Writing(h) /\ ~ Writing(t)
  /\ task' = [task EXCEPT ![t].pc = "running"]
  /\ \E i \in DOMAIN queue :
       /\ queue[i] = t /\ (Writing(t) => i = 1)
       /\ queue' = SubSeq(queue, 1, i - 1) \o SubSeq(queue, i + 1, Len(queue))
  /\ UNCHANGED state

\* state.write() needs the lock free, state.read() only free of a writer.
Acquire(t) ==
  /\ task[t].pc = "queued"
  /\ queue # <<>> /\ Head(queue) = t
  /\ \A h \in Holders : ~ Writing(h) /\ ~ Writing(t)
  /\ task' = [task EXCEPT ![t].pc = "running"]
  /\ queue' = Tail(queue)
  /\ UNCHANGED state

-----------------------------------------------------------------------------
(* Under the lock.                                                         *)

Running(t, rpcs) ==
  task[t].pc = "running" /\ task[t].req.rpc \in rpcs /\ Registered(state, task[t].req)

Record(t, entry) ==
  /\ task' = [task EXCEPT ![t].at = @ + 1, ![t].report = Append(@, entry)]
  /\ UNCHANGED queue

\* An error drops the handler's result lists, not what it has stored so far.
Fail(t, status) ==
  /\ task' = [task EXCEPT ![t] = Call(status, task[t].req)]
  /\ UNCHANGED <<state, queue>>

IncidentMissing(t) ==
  /\ task[t].pc = "running"
  /\ ~ Registered(state, task[t].req)
  /\ Fail(t, "NotFound")

\* merge_hypothesis takes the nodes first and then the edges.
AtNode(t) ==
  Running(t, {"MergeHypothesis"}) /\ task[t].at \in DOMAIN task[t].req.nodes

NodeAt(t) == task[t].req.nodes[task[t].at]

EdgeIndex(t) == task[t].at - Len(task[t].req.nodes)

AtEdge(t) ==
  Running(t, {"MergeHypothesis"}) /\ EdgeIndex(t) \in DOMAIN task[t].req.edges

EdgeAt(t) == task[t].req.edges[EdgeIndex(t)]

CreateNode(t) ==
  /\ AtNode(t)
  /\ NodeAt(t).type \in DOMAIN NodeType
  /\ NodeAt(t).id \notin DOMAIN state.nodes
  /\ state' = [state EXCEPT !.nodes =
                 Put(@, NodeAt(t).id, ProtoNodeToDomain(NodeAt(t)))]
  /\ Record(t, [id |-> NodeAt(t).id, outcome |-> "created"])

\* The stored node with the proposed one merged into it.
Candidate(t) ==
  NodeMerge(state.nodes[NodeAt(t).id], ProtoNodeToDomain(NodeAt(t)))

\* Mutation: the stored node is merged in place, conflict or not.
MergeNodeInPlace(t) ==
  /\ AtNode(t)
  /\ NodeAt(t).type \in DOMAIN NodeType
  /\ NodeAt(t).id \in DOMAIN state.nodes
  /\ state' = [state EXCEPT !.nodes = Put(@, NodeAt(t).id, Candidate(t))]
  /\ Record(t, [id |-> NodeAt(t).id, outcome |-> "merged"])

MergeNode(t) ==
  /\ AtNode(t)
  /\ NodeAt(t).type \in DOMAIN NodeType
  /\ NodeAt(t).id \in DOMAIN state.nodes
  /\ ~ HasConflict(Candidate(t))
  /\ state' = [state EXCEPT !.nodes = Put(@, NodeAt(t).id, Candidate(t))]
  /\ Record(t, [id |-> NodeAt(t).id, outcome |-> "merged"])

FieldValue(l, field) == IF field = "type" THEN l.node_type ELSE l.label

\* The merge is tried on a clone, which a conflict throws away.
ConflictNode(t) ==
  /\ AtNode(t)
  /\ NodeAt(t).type \in DOMAIN NodeType
  /\ NodeAt(t).id \in DOMAIN state.nodes
  /\ HasConflict(Candidate(t))
  /\ LET field == ConflictField(Candidate(t))
     IN  Record(t, [ id |-> NodeAt(t).id, outcome |-> "conflict", field |-> field,
                     existing_value |-> FieldValue(state.nodes[NodeAt(t).id], field) ])
  /\ UNCHANGED state

CreateEdge(t) ==
  /\ AtEdge(t)
  /\ EdgeAt(t).type \in DOMAIN EdgeType
  /\ ProtoEdgeKey(EdgeAt(t)) \notin DOMAIN state.edges
  /\ state' = [state EXCEPT !.edges =
                 Put(@, ProtoEdgeKey(EdgeAt(t)), CollectProvenance(EdgeAt(t).provenance))]
  /\ Record(t, [id |-> ProtoEdgeKey(EdgeAt(t)), outcome |-> "created"])

MergeEdge(t) ==
  /\ AtEdge(t)
  /\ EdgeAt(t).type \in DOMAIN EdgeType
  /\ ProtoEdgeKey(EdgeAt(t)) \in DOMAIN state.edges
  /\ LET k == ProtoEdgeKey(EdgeAt(t))
     IN  state' = [state EXCEPT !.edges =
                     Put(@, k, EdgeMerge(@[k], CollectProvenance(EdgeAt(t).provenance)))]
  /\ Record(t, [id |-> ProtoEdgeKey(EdgeAt(t)), outcome |-> "merged"])

TombstoneNode(t) ==
  /\ Running(t, {"MergeNodeTombstones"})
  /\ task[t].at \in DOMAIN task[t].req.node_ids
  /\ LET i  == task[t].req.incident_id
         id == task[t].req.node_ids[task[t].at]
         marked == state.incidents[i].node_tombstones
     IN  /\ state' = [state EXCEPT !.incidents[i].node_tombstones = @ \cup {id}]
         /\ Record(t, [ id |-> id,
                        outcome |-> Marking(id, marked, DOMAIN state.nodes) ])

AtEntry(t) ==
  Running(t, {"MergeEdgeTombstones"}) /\ task[t].at \in DOMAIN task[t].req.entries

EntryAt(t) == task[t].req.entries[task[t].at]

TombstoneEdge(t) ==
  /\ AtEntry(t)
  /\ EntryAt(t).type \in DOMAIN EdgeType
  /\ LET i == task[t].req.incident_id
         k == ProtoEdgeKey(EntryAt(t))
         marked == state.incidents[i].edge_tombstones
     IN  /\ state' = [state EXCEPT !.incidents[i].edge_tombstones = @ \cup {k}]
         /\ Record(t, [ id |-> k,
                        outcome |-> Marking(k, marked, DOMAIN state.edges) ])

\* Mutation: an item that cannot be converted is skipped.
UnconvertibleSkipped(t) ==
  /\ \/ AtNode(t) /\ NodeAt(t).type \notin DOMAIN NodeType
     \/ AtEdge(t) /\ EdgeAt(t).type \notin DOMAIN EdgeType
     \/ AtEntry(t) /\ EntryAt(t).type \notin DOMAIN EdgeType
  /\ task' = [task EXCEPT ![t].at = @ + 1]
  /\ UNCHANGED <<state, queue>>

\* An enum number that is not in the schema gets past validation (which only
\* refuses 0) and stops the loop here, as StoreError::Backend.
Unconvertible(t) ==
  /\ \/ AtNode(t) /\ NodeAt(t).type \notin DOMAIN NodeType
     \/ AtEdge(t) /\ EdgeAt(t).type \notin DOMAIN EdgeType
     \/ AtEntry(t) /\ EntryAt(t).type \notin DOMAIN EdgeType
  /\ Fail(t, "Internal")

\* Mutation: an incident that is registered starts over.
CreateIncidentAnew(t) ==
  /\ Running(t, {"CreateIncident"}) /\ task[t].at = 1
  /\ \E now \in Time :
       state' = [state EXCEPT !.incidents =
                   Put(@, task[t].req.incident_id, NewIncident(now))]
  /\ Record(t, [id |-> task[t].req.incident_id, outcome |-> "created"])

CreateIncident(t) ==
  /\ Running(t, {"CreateIncident"}) /\ task[t].at = 1
  /\ LET i == task[t].req.incident_id
     IN  \/ /\ i \in DOMAIN state.incidents
            /\ Record(t, [id |-> i, outcome |-> "existed"])
            /\ UNCHANGED state
         \/ /\ i \notin DOMAIN state.incidents
            /\ \E now \in Time :
                 state' = [state EXCEPT !.incidents = Put(@, i, NewIncident(now))]
            /\ Record(t, [id |-> i, outcome |-> "created"])

ReadRpcs == {"GetIncidentContext", "GetLiveView", "GetTombstones", "GetMainGraph"}

\* The call c with its position moved to at and the collections of view read.
Collected(c, at, view) == [c EXCEPT !.at = at, !.view = view]

ReadNodes(t) ==
  /\ Running(t, ReadRpcs) /\ task[t].at = 1
  /\ task' = [task EXCEPT ![t] =
       Collected(@, 2, [NoView EXCEPT !.nodes = NodesRead(state, task[t].req)])]
  /\ UNCHANGED <<state, queue>>

ReadEdges(t) ==
  /\ Running(t, ReadRpcs) /\ task[t].at = 2
  /\ task' = [task EXCEPT ![t] =
       Collected(@, 3, [@.view EXCEPT !.edges = EdgesRead(state, task[t].req),
                                      !.created_at = CreatedAtRead(state, task[t].req)])]
  /\ UNCHANGED <<state, queue>>

\* The number of steps the handler of r takes under the lock.
Steps(r) ==
  CASE r.rpc = "MergeHypothesis"     -> Len(r.nodes) + Len(r.edges)
    [] r.rpc = "MergeNodeTombstones" -> Len(r.node_ids)
    [] r.rpc = "MergeEdgeTombstones" -> Len(r.entries)
    [] r.rpc = "CreateIncident"      -> 1
    [] OTHER                         -> 2

\* The guard goes out of scope, which releases the lock.
Return(t) ==
  /\ task[t].pc = "running" /\ Registered(state, task[t].req)
  /\ task[t].at > Steps(task[t].req)
  /\ task' = [task EXCEPT ![t].pc = "Ok"]
  /\ UNCHANGED <<state, queue>>

\* The response reaches the client, or is lost.
Reply(t) ==
  /\ task[t].pc \in Status
  /\ task' = [task EXCEPT ![t] = Idle]
  /\ UNCHANGED <<state, queue>>

-----------------------------------------------------------------------------
Write(t) ==
  \/ CreateNode(t) \/ MergeNode(t) \/ ConflictNode(t)
  \/ CreateEdge(t) \/ MergeEdge(t)
  \/ TombstoneNode(t) \/ TombstoneEdge(t)
  \/ CreateIncident(t)

Handler(t) ==
  \/ Write(t) \/ Unconvertible(t) \/ IncidentMissing(t)
  \/ ReadNodes(t) \/ ReadEdges(t) \/ Return(t)

Next ==
  \E t \in Task :
    \/ \E r \in Requests : Receive(t, r) \/ Reject(t, r)
    \/ Cancel(t) \/ Acquire(t) \/ Handler(t) \/ Reply(t)

Spec == Init /\ [][Next]_vars

\* The runtime polls a task that is woken, and a handler that holds the lock
\* runs to its end without awaiting.  Clients owe nothing.
FairSpec ==
  Spec /\ \A t \in Task : WF_vars(Acquire(t)) /\ WF_vars(Handler(t))

-----------------------------------------------------------------------------
(* Properties.                                                             *)

\* A write (state.write() in merge_hypothesis, create_incident and the two
\* tombstone merges) never runs beside any other call that holds the lock.
WritersExclude ==
  \A t, u \in Holders : Writing(t) => t = u

\* A read collects nodes and edges in separate passes (get_live_view,
\* get_tombstones, get_incident_context, get_main_graph).  What it has
\* collected is what the store holds now, so that the graph it answers with
\* is one state of the store and not a mixture of two.
SnapshotReads ==
  \A t \in Holders :
    task[t].req.rpc \in ReadRpcs =>
      /\ task[t].at > 1 => task[t].view.nodes = NodesRead(state, task[t].req)
      /\ task[t].at > 2 => task[t].view = View(state, task[t].req)

\* Validation before the lock and conflict detection under it keep every
\* stored node and edge well formed: no empty id, no self-loop, no type outside
\* the schema (proto_convert.rs:53), no conflict persisted (memory.rs:75), every
\* hypothesis attributed.
SchemaConformance ==
  /\ \A id \in DOMAIN state.nodes : id # "" /\ WellFormedNode(state.nodes[id])
  /\ \A k \in DOMAIN state.edges : WellFormedEdge(k, state.edges[k])
  /\ "" \notin DOMAIN state.incidents

\* What the store s has of the kind that r writes.
Written(s, r) ==
  CASE r.rpc = "MergeHypothesis"     -> DOMAIN s.nodes \cup DOMAIN s.edges
    [] r.rpc = "CreateIncident"      -> DOMAIN s.incidents
    [] r.rpc = "MergeNodeTombstones" -> s.incidents[r.incident_id].node_tombstones
    [] r.rpc = "MergeEdgeTombstones" -> s.incidents[r.incident_id].edge_tombstones

\* What an entry of a result list says of the store s.
Holds(s, r, e) ==
  IF e.outcome = "conflict"
  THEN /\ e.id \in DOMAIN s.nodes
       /\ e.existing_value = FieldValue(s.nodes[e.id], e.field)
  ELSE e.id \in Written(s, r)

\* A merge result stays true: however late the caller reads it, and whatever
\* other calls have done since, what it lists as created, merged or tombstoned
\* is there and the value a conflict names is still the stored one (README
\* "Why typed merge results matter").
ReportsStayTrue ==
  \A t \in Task : \A i \in DOMAIN task[t].report :
    Holds(state, task[t].req, task[t].report[i])

\* The positions of the entries that credit this very call with a change of the
\* store.
CreditedAt(t) ==
  {i \in DOMAIN task[t].report :
     task[t].report[i].outcome \in {"created", "applied", "unmatched"}}

SameTarget(r, q) ==
  /\ r.rpc = q.rpc
  /\ r.rpc \in TombstoneRpcs => r.incident_id = q.incident_id

\* Of all the items that write the same node, edge, incident or tombstone, in
\* one call or in several, at most one is reported as the first (applied_ids
\* against already_tombstoned_ids, created_ids against merged_ids).
CreditedOnce ==
  \A t, u \in Task : \A i \in CreditedAt(t), j \in CreditedAt(u) :
    (/\ SameTarget(task[t].req, task[u].req)
     /\ task[t].report[i].id = task[u].report[j].id)
      => t = u /\ i = j

\* A write that has been answered can be repeated, because the answer was
\* lost or late: from then on, whatever other calls did in between, a call
\* with the same request leaves the store as it is (README "Idempotent
\* writes").  A write that failed half way is no exception.
RetriesAreAbsorbed ==
  [][\A t, u \in Task :
       (/\ task[u].pc \in {"Ok", "Internal"} /\ Writing(u)
        /\ task[t].pc = "running" /\ task[t].req = task[u].req)
         => state' = state]_vars

CRDT == INSTANCE TeeCRDT

\* The service implements the grow-only state that Tee promises.
GrowOnly == CRDT!Spec

\* The lock is handed over in order of arrival and every handler runs to its
\* end, so no stream of reads keeps a write waiting: a queued call is answered
\* or cancelled.
NoStarvation ==
  \A t \in Task :
    task[t].pc = "queued" ~> task[t].pc \in Status \cup {"idle"}

-----------------------------------------------------------------------------
(* What the documentation says and the code does not do.                   *)

\* README:110, "Invalid mutations are rejected at the API boundary": a request
\* that names a type outside the schema does not get to the store.
OnlyPermittedTypesPass ==
  \A t \in Task : task[t].pc \in {"queued", "running"} =>
    LET r == task[t].req
    IN  /\ r.rpc = "MergeHypothesis" =>
             /\ \A i \in DOMAIN r.nodes : r.nodes[i].type \in DOMAIN NodeType
             /\ \A i \in DOMAIN r.edges : r.edges[i].type \in DOMAIN EdgeType
        /\ r.rpc = "MergeEdgeTombstones" =>
             \A i \in DOMAIN r.entries : r.entries[i].type \in DOMAIN EdgeType

\* README:111, a tombstone for a node that is not in the main graph is "a no-op
\* on the live view".
UnmatchedIsNoOp ==
  [][\A i \in DOMAIN state.incidents :
       LET new == state'.incidents[i].node_tombstones
                    \ state.incidents[i].node_tombstones
       IN  (new # {} /\ new \cap DOMAIN state.nodes = {}) =>
             /\ LiveNodes(state', i) = LiveNodes(state, i)
             /\ LiveEdges(state', i) = LiveEdges(state, i)]_vars

\* CRDT_Safe.md, creating an incident "records a universe anchor", so that
\* recovery "avoids ambiguity about ... newly added hypotheses"
\* (docs/cmbs-incident-identity.md): what an incident's live view shows changes
\* by the incident's own eliminations only.
UniverseIsAnchored ==
  [][\A i \in DOMAIN state.incidents :
       state'.incidents[i] = state.incidents[i]
         => LiveNodes(state', i) = LiveNodes(state, i)]_vars
=============================================================================
