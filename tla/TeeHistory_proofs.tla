--------------------------- MODULE TeeHistory_proofs ---------------------------
(***************************************************************************)
(* Every behaviour of TeeHistory is one of TeeAtomic.                      *)
(***************************************************************************)
EXTENDS TeeHistory, TeeGrowth_proofs, TeeBatch_proofs, SequenceTheorems

LEMMA SameDomain ==
  /\ Atomic!EmptyMap = EmptyMap
  /\ \A m, k, v : Atomic!Put(m, k, v) = Put(m, k, v)
  /\ \A ps : Atomic!Identities(ps) = Identities(ps)
  /\ \A ps : Atomic!CollectProvenance(ps) = CollectProvenance(ps)
  /\ \A n : Atomic!ProtoNodeToDomain(n) = ProtoNodeToDomain(n)
  /\ \A e : Atomic!ProtoEdgeKey(e) = ProtoEdgeKey(e)
BY DEF Atomic!EmptyMap, EmptyMap, Atomic!Put, Put,
  Atomic!Identity, Identity, Atomic!Identities, Identities,
  Atomic!LastOf, LastOf,
  Atomic!CollectProvenance, CollectProvenance, Atomic!ProtoNodeToDomain, ProtoNodeToDomain,
  Atomic!ProtoEdgeKey, ProtoEdgeKey, Atomic!EdgeKey, EdgeKey, Atomic!NodeType, NodeType,
  Atomic!EdgeType, EdgeType

LEMMA SameItems ==
  /\ \A S : Atomic!Least(S) = Least(S)
  /\ \A items : Atomic!Prefix(items, Atomic!NodeType) = Prefix(items, NodeType)
  /\ \A items : Atomic!Prefix(items, Atomic!EdgeType) = Prefix(items, EdgeType)
  /\ \A r : Atomic!NodeItems(r) = NodeItems(r) /\ Atomic!EdgeItems(r) = EdgeItems(r)
  /\ \A r : Atomic!EntryItems(r) = EntryItems(r)
  /\ \A r : Atomic!Named(r) = Named(r)
  /\ \A r : Atomic!Complete(r) <=> Complete(r)
  /\ \A r : Atomic!Valid(r) <=> Valid(r)
  /\ \A s, r : Atomic!Registered(s, r) <=> Registered(s, r)
  /\ \A s, r : Atomic!StatusOf(s, r) = StatusOf(s, r)
BY SameDomain DEF Atomic!Least, Least, Atomic!Prefix, Prefix, Atomic!NodeType, NodeType,
  Atomic!EdgeType, EdgeType, Atomic!NodeItems, NodeItems, Atomic!EdgeItems, EdgeItems,
  Atomic!EntryItems, EntryItems, Atomic!Named, Named, Atomic!Complete, Complete,
  Atomic!Valid, Valid, Atomic!ValidNode, ValidNode, Atomic!ValidEdge, ValidEdge,
  Atomic!ValidTombstones, ValidTombstones, Atomic!ValidProvenances, ValidProvenances,
  Atomic!ValidProvenance, ValidProvenance, Atomic!IncidentRpcs, IncidentRpcs,
  Atomic!TombstoneRpcs, TombstoneRpcs, Atomic!Registered, Registered,
  Atomic!StatusOf, StatusOf

LEMMA SameMerge ==
  /\ \A s, r : Atomic!Merged(s, r) = Merged(s, r)
  /\ \A s, r, i : Atomic!NodeEntry(s, r, i) = NodeEntry(s, r, i)
  /\ \A s, r, i : Atomic!EdgeEntry(s, r, i) = EdgeEntry(s, r, i)
<1>1. \A lists, I, k : Atomic!FirstTimestamp(lists, I, k) = FirstTimestamp(lists, I, k)
  BY SameDomain, SameItems DEF Atomic!FirstTimestamp, FirstTimestamp
<1>2. \A old, lists, I : Atomic!Accumulate(old, lists, I) = Accumulate(old, lists, I)
  BY <1>1, SameDomain, SameItems DEF Atomic!Accumulate, Accumulate
<1>3. \A r, id : Atomic!NodeItemsFor(r, id) = NodeItemsFor(r, id)
  BY SameItems DEF Atomic!NodeItemsFor, NodeItemsFor
<1>4. \A s, r, id : Atomic!Anchor(s, r, id) = Anchor(s, r, id)
  BY <1>3, SameDomain, SameItems DEF Atomic!Anchor, Anchor
<1>5. \A s, r, i : Atomic!Agrees(s, r, i) <=> Agrees(s, r, i)
  BY <1>4, SameDomain DEF Atomic!Agrees, Agrees
<1>6. \A s, r, id : Atomic!NodeAfter(s, r, id) = NodeAfter(s, r, id)
  BY <1>2, <1>3, <1>4, <1>5, SameDomain DEF Atomic!NodeAfter, NodeAfter
<1>7. \A r, k : Atomic!EdgeItemsFor(r, k) = EdgeItemsFor(r, k)
  BY SameDomain, SameItems DEF Atomic!EdgeItemsFor, EdgeItemsFor
<1>8. \A s, r, k : Atomic!EdgeAfter(s, r, k) = EdgeAfter(s, r, k)
  BY <1>2, <1>7, SameDomain DEF Atomic!EdgeAfter, EdgeAfter
<1>9. \A s, r, i : Atomic!NodeEntry(s, r, i) = NodeEntry(s, r, i)
  BY <1>3, <1>4, <1>5, SameItems DEF Atomic!NodeEntry, NodeEntry, Atomic!NodeType, NodeType
<1>10. \A s, r, i : Atomic!EdgeEntry(s, r, i) = EdgeEntry(s, r, i)
  BY <1>7, SameDomain, SameItems DEF Atomic!EdgeEntry, EdgeEntry
<1>11. \A s, r : Atomic!Merged(s, r) = Merged(s, r)
  BY <1>6, <1>8, SameDomain, SameItems DEF Atomic!Merged, Merged
<1> QED
  BY <1>9, <1>10, <1>11

LEMMA SameTombstones ==
  /\ \A s, r : Atomic!Tombstoned(s, r) = Tombstoned(s, r)
  /\ \A s, r, i : Atomic!TombstoneEntry(s, r, i) = TombstoneEntry(s, r, i)
<1>1. \A id, marked, known : Atomic!Marking(id, marked, known) = Marking(id, marked, known)
  BY DEF Atomic!Marking, Marking
<1>2. ASSUME NEW s, NEW r
      PROVE  Atomic!Tombstoned(s, r) = Tombstoned(s, r)
  <2> DEFINE new == {Named(r)[i] : i \in DOMAIN Named(r)}
  <2>1. {Atomic!Named(r)[i] : i \in DOMAIN Atomic!Named(r)} = new
    BY SameItems
  <2> HIDE DEF new
  <2>2. Atomic!Tombstoned(s, r)
          = IF r.rpc = "MergeNodeTombstones"
            THEN [s EXCEPT !.incidents[r.incident_id].node_tombstones = @ \cup new]
            ELSE [s EXCEPT !.incidents[r.incident_id].edge_tombstones = @ \cup new]
    BY <2>1 DEF Atomic!Tombstoned
  <2> QED
    BY <2>2 DEF Tombstoned, new
<1>3. ASSUME NEW s, NEW r, NEW i
      PROVE  Atomic!TombstoneEntry(s, r, i) = TombstoneEntry(s, r, i)
  <2>1. Atomic!Named(r) = Named(r)
    BY SameItems
  <2> QED
    BY <1>1, <2>1 DEF Atomic!TombstoneEntry, TombstoneEntry
<1> QED
  BY <1>2, <1>3

LEMMA SameView ==
  /\ Atomic!NoView = NoView
  /\ \A s, r : Atomic!View(s, r) = View(s, r)
<1>1. \A s, i : /\ Atomic!LiveNodes(s, i) = LiveNodes(s, i)
                /\ Atomic!LiveEdges(s, i) = LiveEdges(s, i)
  BY DEF Atomic!LiveNodes, LiveNodes, Atomic!LiveEdges, LiveEdges
<1>2. \A enum, v : Atomic!NumberOf(enum, v) = NumberOf(enum, v)
  BY DEF Atomic!NumberOf, NumberOf
<1>3. /\ \A id, l : Atomic!DomainNodeToProto(id, l) = DomainNodeToProto(id, l)
      /\ \A k, l : Atomic!DomainEdgeToProto(k, l) = DomainEdgeToProto(k, l)
      /\ \A k : Atomic!EdgeTombstoneEntryOf(k) = EdgeTombstoneEntryOf(k)
  BY <1>2 DEF Atomic!DomainNodeToProto, DomainNodeToProto, Atomic!DomainEdgeToProto,
     DomainEdgeToProto, Atomic!EdgeTombstoneEntryOf, EdgeTombstoneEntryOf,
     Atomic!NodeType, NodeType, Atomic!EdgeType, EdgeType
<1>4. /\ \A s, r : Atomic!NodesRead(s, r) = NodesRead(s, r)
      /\ \A s, r : Atomic!EdgesRead(s, r) = EdgesRead(s, r)
      /\ \A s, r : Atomic!CreatedAtRead(s, r) = CreatedAtRead(s, r)
  BY <1>1, <1>3 DEF Atomic!NodesRead, NodesRead, Atomic!EdgesRead, EdgesRead,
     Atomic!CreatedAtRead, CreatedAtRead
<1>5. Atomic!NoView = NoView
  BY DEF Atomic!NoView, NoView
<1> QED
  BY <1>4, <1>5 DEF Atomic!View, View

LEMMA SameRequests ==
  /\ Atomic!NewState = NewState
  /\ \A s, r, now : Atomic!After(s, r, now) = After(s, r, now)
  /\ \A s, r : Atomic!ReportOf(s, r) = ReportOf(s, r)
  /\ \A s, r : Atomic!ViewOf(s, r) = ViewOf(s, r)
<1>1. Atomic!NewState = NewState /\ \A now : Atomic!NewIncident(now) = NewIncident(now)
  BY SameDomain DEF Atomic!NewState, NewState, Atomic!NewIncident, NewIncident
<1>2. Atomic!TombstoneRpcs = TombstoneRpcs /\ Atomic!WriteRpcs = WriteRpcs
  BY DEF Atomic!TombstoneRpcs, TombstoneRpcs, Atomic!WriteRpcs, WriteRpcs
<1>3. \A s, r, now : Atomic!After(s, r, now) = After(s, r, now)
  BY <1>1, <1>2, SameDomain, SameItems, SameMerge, SameTombstones DEF Atomic!After, After
<1>4. \A s, r : Atomic!ReportOf(s, r) = ReportOf(s, r)
  BY <1>2, SameItems, SameMerge, SameTombstones DEF Atomic!ReportOf, ReportOf
<1>5. \A s, r : Atomic!ViewOf(s, r) = ViewOf(s, r)
  BY <1>2, SameItems, SameView DEF Atomic!ViewOf, ViewOf
<1> QED
  BY <1>1, <1>3, <1>4, <1>5

-----------------------------------------------------------------------------
(* The inductive invariant: while a write runs, the store and its report   *)
(* are what the reference definition makes of the items it has passed, on  *)
(* the store as it was before the write; otherwise nothing is pending.     *)

\* The store, and the report, after a nodes and then b edges of the proposal r on s.
StoreUpTo(s, r, a, b) ==
  [nodes |-> NodesUpTo(s, r, a), edges |-> EdgesUpTo(s, r, b), incidents |-> s.incidents]

EntriesUpTo(s, r, a, m) ==
  [i \in 1..m |-> IF i <= a THEN NodeEntry(s, r, i) ELSE EdgeEntry(s, r, i - a)]

\* q and p are the store and the report after m steps of the proposal r on s.
MergedSoFar(s, r, m, q, p) ==
  \E a, b \in 0..m :
    /\ m = a + b
    /\ NodesKnown(r, a)
    /\ b # 0 => EdgesKnown(r, b) /\ a = Len(r.nodes)
    /\ q = StoreUpTo(s, r, a, b)
    /\ p = EntriesUpTo(s, r, a, m)

\* s with the tombstones N and E merged into the incident i.
WithTombstones(s, i, N, E) ==
  [ nodes |-> s.nodes, edges |-> s.edges,
    incidents |->
      [j \in DOMAIN s.incidents |->
         IF j = i
         THEN [ created_at |-> s.incidents[i].created_at,
                node_tombstones |-> s.incidents[i].node_tombstones \cup N,
                edge_tombstones |-> s.incidents[i].edge_tombstones \cup E ]
         ELSE s.incidents[j]] ]

NamedUpTo(r, m) == {Named(r)[j] : j \in 1..m}

TombstonedSoFar(s, r, m, q, p) ==
  /\ m \in Nat /\ 1..m \subseteq DOMAIN Named(r)
  /\ q = IF r.rpc = "MergeNodeTombstones"
         THEN WithTombstones(s, r.incident_id, NamedUpTo(r, m), {})
         ELSE WithTombstones(s, r.incident_id, {}, NamedUpTo(r, m))
  /\ p = [i \in 1..m |-> TombstoneEntry(s, r, i)]

CreatedSoFar(s, r, m, q, p) ==
  \/ m = 0 /\ q = s /\ p = <<>>
  \/ m = 1 /\ (\E now \in Time : q = After(s, r, now)) /\ p = ReportOf(s, r)

\* The write t, which holds the lock.
Midway(t) ==
  LET r == task[t].req
      m == task[t].at - 1
      p == task[t].report
  IN  /\ task[t].view = NoView
      /\ Registered(state, r) <=> Registered(committed, r)
      /\ ~ Registered(committed, r) => state = committed
      /\ Registered(committed, r) =>
           /\ r.rpc = "MergeHypothesis" => MergedSoFar(committed, r, m, state, p)
           /\ r.rpc \in TombstoneRpcs => TombstonedSoFar(committed, r, m, state, p)
           /\ r.rpc = "CreateIncident" => CreatedSoFar(committed, r, m, state, p)

InOrder(t) ==
  /\ task[t].pc = "queued" => task[t] = Call("queued", task[t].req)
  /\ task[t].pc = "running" /\ Writing(t) => Midway(t)
  /\ task[t].pc = "running" /\ ~ Writing(t) => task[t].report = <<>>

OneAtATime ==
  /\ Unconflicted(committed)
  /\ ~ WriteUnderWay => committed = state
  /\ \A t \in Task : InOrder(t)

-----------------------------------------------------------------------------
(* Steps of a call.                                                        *)

LEMMA AppendNext ==
  ASSUME NEW S, NEW p \in Seq(S), NEW m \in Nat, NEW f,
         f = [i \in 1..(m + 1) |-> f[i]], p = [i \in 1..m |-> f[i]]
  PROVE  Append(p, f[m + 1]) = f
<1>1. Len(p) = m
  OBVIOUS
<1>2. Append(p, f[m + 1]) = [i \in 1..(m + 1) |-> IF i = m + 1 THEN f[m + 1] ELSE p[i]]
  BY <1>1
<1>3. \A i \in 1..(m + 1) : i # m + 1 => i \in 1..m
  OBVIOUS
<1> QED
  BY <1>2, <1>3

LEMMA RecordedCall ==
  ASSUME TypeOK, NEW t \in Task, NEW e, Record(t, e)
  PROVE  /\ task'[t].pc = task[t].pc /\ task'[t].req = task[t].req
         /\ task'[t].at = task[t].at + 1 /\ task[t].at \in Nat \ {0}
         /\ task[t].report \in Seq(Entry)
         /\ task'[t].report = Append(task[t].report, e)
         /\ task'[t].view = task[t].view
         /\ \A u \in Task \ {t} : task'[u] = task[u]
<1> DEFINE old == task[t]
           c == [old EXCEPT !.at = @ + 1, !.report = Append(@, e)]
<1>1. /\ old = [ pc |-> old.pc, req |-> old.req, at |-> old.at,
                 report |-> old.report, view |-> old.view ]
      /\ old.at \in Nat \ {0} /\ old.report \in Seq(Entry)
  BY DEF TypeOK, IsCall
<1>2. task' = [task EXCEPT ![t] = c]
  BY DEF Record
<1>3. /\ c.pc = old.pc /\ c.req = old.req /\ c.at = old.at + 1 /\ c.view = old.view
      /\ c.report = Append(old.report, e)
  BY <1>1
<1> HIDE DEF c
<1>4. task'[t] = c /\ \A u \in Task \ {t} : task'[u] = task[u]
  BY <1>2 DEF TypeOK
<1> QED
  BY <1>1, <1>3, <1>4

-----------------------------------------------------------------------------
(* A proposal.                                                             *)

\* As long as a proposal is among its nodes, no edge was taken ...
LEMMA AmongNodes ==
  ASSUME NEW s, NEW r, NEW q, NEW p, NEW m, MergedSoFar(s, r, m, q, p),
         m \in Nat, Len(r.nodes) \in Nat, m < Len(r.nodes)
  PROVE  NodesKnown(r, m) /\ q = StoreUpTo(s, r, m, 0) /\ p = EntriesUpTo(s, r, m, m)
<1>1. PICK a \in 0..m, b \in 0..m :
        /\ m = a + b
        /\ NodesKnown(r, a)
        /\ b # 0 => EdgesKnown(r, b) /\ a = Len(r.nodes)
        /\ q = StoreUpTo(s, r, a, b)
        /\ p = EntriesUpTo(s, r, a, m)
  BY DEF MergedSoFar
<1>2. b = 0 /\ a = m
  <2>1. a \in Nat /\ b \in Nat /\ m = a + b /\ (b # 0 => a = Len(r.nodes))
    BY <1>1
  <2> QED
    BY <2>1
<1> QED
  BY <1>1, <1>2

\* ... and among its edges, every node was.
LEMMA AmongEdges ==
  ASSUME NEW s, NEW r, NEW q, NEW p, NEW m, MergedSoFar(s, r, m, q, p),
         Len(r.nodes) \in Nat, m \in Nat, m >= Len(r.nodes)
  PROVE  LET a == Len(r.nodes)
             b == m - a
         IN  /\ NodesKnown(r, a)
             /\ b # 0 => EdgesKnown(r, b)
             /\ q = StoreUpTo(s, r, a, b)
             /\ p = EntriesUpTo(s, r, a, m)
<1> DEFINE a == Len(r.nodes)
           b == m - a
<1>1. PICK x \in 0..m, y \in 0..m :
        /\ m = x + y
        /\ NodesKnown(r, x)
        /\ y # 0 => EdgesKnown(r, y) /\ x = a
        /\ q = StoreUpTo(s, r, x, y)
        /\ p = EntriesUpTo(s, r, x, m)
  BY DEF MergedSoFar
<1>2. x <= a
  BY <1>1 DEF NodesKnown
<1>3. x = a /\ y = b
  <2>1. x \in Nat /\ y \in Nat /\ m = x + y /\ (y # 0 => x = a)
    BY <1>1
  <2> QED
    BY <1>2, <2>1
<1> QED
  BY <1>1, <1>3

\* All the edges before a position have known types.
LEMMA EdgesBefore ==
  ASSUME NEW r, NodesKnown(r, Len(r.nodes)), r.edges \in Seq(ProtoEdge),
         NEW b \in Nat, b <= Len(r.edges), b # 0 => EdgesKnown(r, b)
  PROVE  EdgesKnown(r, b)
<1>1. CASE b = 0
  <2>1. \A j \in 1..b : r.edges[j].type \in DOMAIN EdgeType
    BY <1>1
  <2> QED
    BY <2>1 DEF EdgesKnown
<1> QED
  BY <1>1

LEMMA NodeMidway ==
  ASSUME TypeOK, NEW s, Unconflicted(s), NEW t \in Task,
         CreateNode(t) \/ MergeNode(t) \/ ConflictNode(t),
         MergedSoFar(s, task[t].req, task[t].at - 1, state, task[t].report)
  PROVE  /\ MergedSoFar(s, task[t].req, task[t].at, state', task'[t].report)
         /\ state'.incidents = state.incidents
<1> DEFINE r == task[t].req
           j == task[t].at
           p == task[t].report
           f == [i \in 1..j |-> IF i <= j THEN NodeEntry(s, r, i) ELSE EdgeEntry(s, r, i - j)]
<1>1. /\ AtNode(t) /\ NodeAt(t) = r.nodes[j] /\ NodeAt(t).type \in DOMAIN NodeType
      /\ j \in DOMAIN r.nodes
      /\ r \in Message /\ r.rpc = "MergeHypothesis"
      /\ r.nodes \in Seq(ProtoNode)
  <2>1. AtNode(t) /\ NodeAt(t).type \in DOMAIN NodeType
    BY DEF CreateNode, MergeNode, ConflictNode
  <2>2. r \in Requests /\ r.rpc = "MergeHypothesis"
    BY <2>1, NodeAtType DEF AtNode, Running
  <2> QED
    BY <2>1, <2>2, RequestForms, RequestsAssumption DEF AtNode, NodeAt
<1>2. j \in Nat \ {0} /\ j <= Len(r.nodes) /\ p \in Seq(Entry) /\ Len(r.nodes) \in Nat
  BY <1>1 DEF TypeOK, IsCall
<1>3. /\ NodesKnown(r, j - 1)
      /\ state = [ nodes |-> NodesUpTo(s, r, j - 1), edges |-> EdgesUpTo(s, r, 0),
                   incidents |-> s.incidents ]
      /\ p = [i \in 1..(j - 1) |-> IF i <= j - 1 THEN NodeEntry(s, r, i)
                                   ELSE EdgeEntry(s, r, i - (j - 1))]
  <2>1. MergedSoFar(s, r, j - 1, state, p)
    OBVIOUS
  <2>2. j - 1 \in Nat /\ j - 1 < Len(r.nodes)
    BY <1>2
  <2>3. NodesKnown(r, j - 1)
    BY <1>2, <2>1, <2>2, AmongNodes
  <2>4. state = StoreUpTo(s, r, j - 1, 0) /\ p = EntriesUpTo(s, r, j - 1, j - 1)
    BY <1>2, <2>1, <2>2, AmongNodes
  <2> QED
    BY <2>3, <2>4 DEF StoreUpTo, EntriesUpTo
<1>4. NodesKnown(r, j)
  <2>1. 1..j = (1..(j - 1)) \cup {j}
    BY <1>2
  <2> QED
    BY <1>1, <1>2, <1>3, <2>1 DEF NodesKnown
<1> DEFINE n == r.nodes[j]
           id == n.id
           N == NodesUpTo(s, r, j - 1)
<1>5. state.nodes = N /\ state.incidents = s.incidents /\ state.edges = EdgesUpTo(s, r, 0)
  BY <1>3
<1>6. /\ state' = [ nodes |-> NodesUpTo(s, r, j), edges |-> EdgesUpTo(s, r, 0),
                    incidents |-> s.incidents ]
      /\ Record(t, NodeEntry(s, r, j))
  <2>1. CASE CreateNode(t)
    <3>1. id \notin DOMAIN N
      BY <1>1, <1>5, <2>1 DEF CreateNode
    <3>2. /\ NodesUpTo(s, r, j) = Put(N, id, ProtoNodeToDomain(n))
          /\ NodeEntry(s, r, j) = [id |-> id, outcome |-> "created"]
      BY <1>2, <1>4, <3>1, FirstNode
    <3> HIDE DEF N
    <3>3. state' = [state EXCEPT !.nodes = Put(N, id, ProtoNodeToDomain(n))]
      BY <1>1, <1>5, <2>1 DEF CreateNode
    <3>4. Record(t, [id |-> id, outcome |-> "created"])
      BY <1>1, <2>1 DEF CreateNode
    <3> QED
      BY <1>3, <3>2, <3>3, <3>4
  <2>2. CASE MergeNode(t)
    <3>1. id \in DOMAIN N /\ ~ HasConflict(NodeMerge(N[id], ProtoNodeToDomain(n)))
      BY <1>1, <1>5, <2>2 DEF MergeNode, Candidate
    <3>2. Agrees(s, r, j)
      BY <1>2, <1>4, <3>1, NodeAgain
    <3>3. /\ NodesUpTo(s, r, j) = Put(N, id, NodeMerge(N[id], ProtoNodeToDomain(n)))
          /\ NodeEntry(s, r, j) = [id |-> id, outcome |-> "merged"]
      BY <1>2, <1>4, <3>1, <3>2, ConfirmedNode
    <3> HIDE DEF N
    <3>4. state' = [state EXCEPT !.nodes =
                      Put(N, id, NodeMerge(N[id], ProtoNodeToDomain(n)))]
      BY <1>1, <1>5, <2>2 DEF MergeNode, Candidate
    <3>5. Record(t, [id |-> id, outcome |-> "merged"])
      BY <1>1, <2>2 DEF MergeNode
    <3> QED
      BY <1>3, <3>3, <3>4, <3>5
  <2>3. CASE ConflictNode(t)
    <3> DEFINE old == N[id]
               field == ConflictField(NodeMerge(old, ProtoNodeToDomain(n)))
    <3>1. id \in DOMAIN N /\ HasConflict(NodeMerge(old, ProtoNodeToDomain(n)))
      BY <1>1, <1>5, <2>3 DEF ConflictNode, Candidate
    <3>2. ~ Agrees(s, r, j)
      BY <1>2, <1>4, <3>1, NodeAgain
    <3>3. /\ NodesUpTo(s, r, j) = N
          /\ NodeEntry(s, r, j)
               = [ id |-> id, outcome |-> "conflict", field |-> field,
                   existing_value |-> IF field = "type" THEN old.node_type ELSE old.label ]
      BY <1>2, <1>4, <3>1, <3>2, RefusedNode
    <3>4. state' = state
      BY <2>3 DEF ConflictNode
    <3>5. Record(t, [ id |-> id, outcome |-> "conflict", field |-> field,
                      existing_value |-> FieldValue(old, field) ])
      BY <1>1, <1>5, <2>3 DEF ConflictNode, Candidate
    <3> QED
      BY <1>3, <3>3, <3>4, <3>5 DEF FieldValue
  <2> QED
    BY <2>1, <2>2, <2>3
<1>7. task'[t].report = Append(p, NodeEntry(s, r, j))
  BY <1>6, RecordedCall
<1>8. Append(p, NodeEntry(s, r, j)) = f
  <2> DEFINE m == j - 1
             g == f
  <2>1. m \in Nat /\ m + 1 = j
    BY <1>2
  <2>2. f[j] = NodeEntry(s, r, j)
    BY <1>2
  <2>3. f = [i \in 1..(m + 1) |-> f[i]]
    BY <2>1
  <2>4. p = [i \in 1..m |-> f[i]]
    BY <1>2, <1>3
  <2> HIDE DEF f, p, m
  <2> QED
    BY <1>2, <2>1, <2>2, <2>3, <2>4, AppendNext
<1>9. MergedSoFar(s, r, j, state', task'[t].report)
  <2>1. j = j + 0 /\ j \in 0..j /\ 0 \in 0..j
    BY <1>2
  <2> QED
    BY <1>4, <1>6, <1>7, <1>8, <2>1 DEF MergedSoFar, StoreUpTo, EntriesUpTo
<1> QED
  BY <1>5, <1>6, <1>9

LEMMA EdgeMidway ==
  ASSUME TypeOK, NEW s, NEW t \in Task, CreateEdge(t) \/ MergeEdge(t),
         MergedSoFar(s, task[t].req, task[t].at - 1, state, task[t].report)
  PROVE  /\ MergedSoFar(s, task[t].req, task[t].at, state', task'[t].report)
         /\ state'.incidents = state.incidents
<1> DEFINE r == task[t].req
           j == task[t].at
           p == task[t].report
           a == Len(r.nodes)
           b == j - a
           f == [i \in 1..j |-> IF i <= a THEN NodeEntry(s, r, i) ELSE EdgeEntry(s, r, i - a)]
<1>1. /\ AtEdge(t) /\ EdgeAt(t) = r.edges[b] /\ EdgeAt(t).type \in DOMAIN EdgeType
      /\ b \in DOMAIN r.edges
      /\ r \in Message /\ r.rpc = "MergeHypothesis"
      /\ r.nodes \in Seq(ProtoNode) /\ r.edges \in Seq(ProtoEdge)
  <2>1. AtEdge(t) /\ EdgeAt(t).type \in DOMAIN EdgeType
    BY DEF CreateEdge, MergeEdge
  <2>2. r \in Requests /\ r.rpc = "MergeHypothesis"
    BY <2>1, EdgeAtType DEF AtEdge, Running
  <2> QED
    BY <2>1, <2>2, RequestForms, RequestsAssumption DEF AtEdge, EdgeAt, EdgeIndex
<1>2. j \in Nat \ {0} /\ p \in Seq(Entry)
  BY DEF TypeOK, IsCall
<1>3. /\ a \in Nat /\ b \in Nat \ {0} /\ b <= Len(r.edges) /\ Len(r.edges) \in Nat
      /\ j = a + b /\ j - 1 = a + (b - 1)
  <2>1. a \in Nat /\ Len(r.edges) \in Nat /\ DOMAIN r.edges = 1..Len(r.edges)
    BY <1>1
  <2> HIDE DEF a, j
  <2> QED
    BY <1>1, <1>2, <2>1
<1>4. /\ NodesKnown(r, a)
      /\ b - 1 # 0 => EdgesKnown(r, b - 1)
      /\ state = [ nodes |-> NodesUpTo(s, r, a), edges |-> EdgesUpTo(s, r, b - 1),
                   incidents |-> s.incidents ]
      /\ p = [i \in 1..(j - 1) |-> IF i <= a THEN NodeEntry(s, r, i)
                                   ELSE EdgeEntry(s, r, i - a)]
  <2>1. j - 1 \in Nat /\ j - 1 >= a /\ b - 1 = (j - 1) - a
    <3> HIDE DEF a, j
    <3> QED
      BY <1>2, <1>3
  <2>2. MergedSoFar(s, r, j - 1, state, p)
    OBVIOUS
  <2>3. /\ NodesKnown(r, a)
        /\ (j - 1) - a # 0 => EdgesKnown(r, (j - 1) - a)
        /\ state = StoreUpTo(s, r, a, (j - 1) - a) /\ p = EntriesUpTo(s, r, a, j - 1)
    BY <1>3, <2>1, <2>2, AmongEdges
  <2> HIDE DEF a, b, j
  <2> QED
    BY <2>1, <2>3 DEF StoreUpTo, EntriesUpTo
<1>5. EdgesKnown(r, b)
  <2>1. 1..b = (1..(b - 1)) \cup {b}
    BY <1>3
  <2>2. \A i \in 1..(b - 1) : r.edges[i].type \in DOMAIN EdgeType
    <3> HIDE DEF b
    <3>1. CASE b - 1 = 0
      BY <3>1
    <3>2. CASE b - 1 # 0
      BY <1>4, <3>2 DEF EdgesKnown
    <3> QED
      BY <3>1, <3>2
  <2> HIDE DEF b
  <2> QED
    BY <1>1, <1>3, <1>4, <2>1, <2>2 DEF EdgesKnown
<1> DEFINE e == r.edges[b]
           k == ProtoEdgeKey(e)
           E == EdgesUpTo(s, r, b - 1)
<1>6. /\ state.edges = E /\ state.incidents = s.incidents
      /\ state.nodes = NodesUpTo(s, r, a)
  BY <1>4
<1>7. /\ state' = [ nodes |-> NodesUpTo(s, r, a), edges |-> EdgesUpTo(s, r, b),
                    incidents |-> s.incidents ]
      /\ Record(t, EdgeEntry(s, r, b))
  <2>1. CASE CreateEdge(t)
    <3>1. k \notin DOMAIN E
      BY <1>1, <1>6, <2>1 DEF CreateEdge
    <3> HIDE DEF b
    <3>2. /\ EdgesUpTo(s, r, b) = Put(E, k, CollectProvenance(e.provenance))
          /\ EdgeEntry(s, r, b) = [id |-> k, outcome |-> "created"]
      BY <1>3, <1>5, <3>1, FirstEdge
    <3> HIDE DEF E
    <3>3. state' = [state EXCEPT !.edges = Put(E, k, CollectProvenance(e.provenance))]
      BY <1>1, <1>6, <2>1 DEF CreateEdge
    <3>4. Record(t, [id |-> k, outcome |-> "created"])
      BY <1>1, <2>1 DEF CreateEdge
    <3> QED
      BY <1>4, <3>2, <3>3, <3>4
  <2>2. CASE MergeEdge(t)
    <3>1. k \in DOMAIN E
      BY <1>1, <1>6, <2>2 DEF MergeEdge
    <3> HIDE DEF b
    <3>2. /\ EdgesUpTo(s, r, b) = Put(E, k, EdgeMerge(E[k], CollectProvenance(e.provenance)))
          /\ EdgeEntry(s, r, b) = [id |-> k, outcome |-> "merged"]
      BY <1>3, <1>5, <3>1, EdgeAgain
    <3> HIDE DEF E
    <3>3. state' = [state EXCEPT !.edges =
                      Put(E, k, EdgeMerge(E[k], CollectProvenance(e.provenance)))]
      BY <1>1, <1>6, <2>2 DEF MergeEdge
    <3>4. Record(t, [id |-> k, outcome |-> "merged"])
      BY <1>1, <2>2 DEF MergeEdge
    <3> QED
      BY <1>4, <3>2, <3>3, <3>4
  <2> QED
    BY <2>1, <2>2
<1>8. task'[t].report = Append(p, EdgeEntry(s, r, b))
  BY <1>7, RecordedCall
<1>9. Append(p, EdgeEntry(s, r, b)) = f
  <2> DEFINE m == j - 1
  <2>1. m \in Nat /\ m + 1 = j
    BY <1>2
  <2>2. f[j] = EdgeEntry(s, r, b)
    <3> HIDE DEF j, a
    <3>1. j \in 1..j /\ ~ (j <= a)
      BY <1>2, <1>3
    <3> QED
      BY <3>1
  <2>3. f = [i \in 1..(m + 1) |-> f[i]]
    BY <2>1
  <2>4. p = [i \in 1..m |-> f[i]]
    BY <1>2, <1>4
  <2> HIDE DEF f, p, m, j, b
  <2>5. Append(p, f[m + 1]) = f
    BY <1>2, <2>1, <2>3, <2>4, AppendNext
  <2> QED
    BY <2>1, <2>2, <2>5
<1>10. MergedSoFar(s, r, j, state', task'[t].report)
  <2> HIDE DEF a, b, j
  <2>1. a \in 0..j /\ b \in 0..j
    BY <1>2, <1>3
  <2> QED
    BY <1>3, <1>4, <1>5, <1>7, <1>8, <1>9, <2>1 DEF MergedSoFar, StoreUpTo, EntriesUpTo, a
<1> QED
  BY <1>6, <1>7, <1>10

-----------------------------------------------------------------------------
(* The tombstone merges.                                                   *)

LEMMA IncidentShape ==
  ASSUME NEW s, IsState(s), NEW i \in DOMAIN s.incidents
  PROVE  s.incidents[i] = [ created_at |-> s.incidents[i].created_at,
                            node_tombstones |-> s.incidents[i].node_tombstones,
                            edge_tombstones |-> s.incidents[i].edge_tombstones ]
BY DEF IsState, IsMap, IncidentState

LEMMA NoTombstones ==
  ASSUME NEW s, IsState(s), NEW i
  PROVE  WithTombstones(s, i, {}, {}) = s
<1> DEFINE x == s.incidents[i]
<1>1. \A j \in DOMAIN s.incidents :
        s.incidents[j] = IF j = i
                         THEN [ created_at |-> x.created_at,
                                node_tombstones |-> x.node_tombstones \cup {},
                                edge_tombstones |-> x.edge_tombstones \cup {} ]
                         ELSE s.incidents[j]
  BY IncidentShape
<1>2. /\ s = [nodes |-> s.nodes, edges |-> s.edges, incidents |-> s.incidents]
      /\ s.incidents = [j \in DOMAIN s.incidents |-> s.incidents[j]]
  BY DEF IsState, IsMap
<1> QED
  BY <1>1, <1>2 DEF WithTombstones

LEMMA TombstonesMerged ==
  ASSUME NEW s, IsState(s), NEW i \in DOMAIN s.incidents, NEW M
  PROVE  /\ [s EXCEPT !.incidents[i].node_tombstones = @ \cup M] = WithTombstones(s, i, M, {})
         /\ [s EXCEPT !.incidents[i].edge_tombstones = @ \cup M] = WithTombstones(s, i, {}, M)
<1> DEFINE x == s.incidents[i]
           n == [x EXCEPT !.node_tombstones = @ \cup M]
           e == [x EXCEPT !.edge_tombstones = @ \cup M]
<1>0. x = [ created_at |-> x.created_at, node_tombstones |-> x.node_tombstones,
            edge_tombstones |-> x.edge_tombstones ]
  BY IncidentShape
<1>1. n = [ created_at |-> x.created_at, node_tombstones |-> x.node_tombstones \cup M,
            edge_tombstones |-> x.edge_tombstones \cup {} ]
  <2>1. x.edge_tombstones \cup {} = x.edge_tombstones
    OBVIOUS
  <2> HIDE DEF x
  <2> QED
    BY <1>0, <2>1
<1>2. e = [ created_at |-> x.created_at, node_tombstones |-> x.node_tombstones \cup {},
            edge_tombstones |-> x.edge_tombstones \cup M ]
  <2>1. x.node_tombstones \cup {} = x.node_tombstones
    OBVIOUS
  <2> HIDE DEF x
  <2> QED
    BY <1>0, <2>1
<1>3. s = [nodes |-> s.nodes, edges |-> s.edges, incidents |-> s.incidents]
  BY DEF IsState
<1>4. \A y : [s.incidents EXCEPT ![i] = y]
               = [j \in DOMAIN s.incidents |-> IF j = i THEN y ELSE s.incidents[j]]
  BY DEF IsState, IsMap
<1>5. /\ [s EXCEPT !.incidents[i].node_tombstones = @ \cup M]
           = [ nodes |-> s.nodes, edges |-> s.edges,
               incidents |-> [s.incidents EXCEPT ![i] = n] ]
      /\ [s EXCEPT !.incidents[i].edge_tombstones = @ \cup M]
           = [ nodes |-> s.nodes, edges |-> s.edges,
               incidents |-> [s.incidents EXCEPT ![i] = e] ]
  BY <1>3
<1> HIDE DEF n, e
<1> QED
  BY <1>1, <1>2, <1>4, <1>5 DEF WithTombstones

LEMMA TombstonesTwice ==
  ASSUME NEW s, NEW i \in DOMAIN s.incidents, NEW N, NEW E, NEW M, NEW F
  PROVE  WithTombstones(WithTombstones(s, i, N, E), i, M, F)
           = WithTombstones(s, i, N \cup M, E \cup F)
<1> DEFINE q == WithTombstones(s, i, N, E)
           x == s.incidents[i]
<1>1. /\ q.nodes = s.nodes /\ q.edges = s.edges
      /\ DOMAIN q.incidents = DOMAIN s.incidents
      /\ \A j \in DOMAIN s.incidents : j # i => q.incidents[j] = s.incidents[j]
      /\ q.incidents[i].created_at = x.created_at
      /\ q.incidents[i].node_tombstones = x.node_tombstones \cup N
      /\ q.incidents[i].edge_tombstones = x.edge_tombstones \cup E
  BY DEF WithTombstones
<1>2. /\ (x.node_tombstones \cup N) \cup M = x.node_tombstones \cup (N \cup M)
      /\ (x.edge_tombstones \cup E) \cup F = x.edge_tombstones \cup (E \cup F)
  OBVIOUS
<1> HIDE DEF q
<1> QED
  BY <1>1, <1>2 DEF WithTombstones, q

LEMMA NamedMore ==
  ASSUME NEW r, NEW j \in Nat \ {0}
  PROVE  NamedUpTo(r, j) = NamedUpTo(r, j - 1) \cup {Named(r)[j]}
<1>1. 1..j = (1..(j - 1)) \cup {j}
  OBVIOUS
<1> QED
  BY <1>1 DEF NamedUpTo

\* The item at which a tombstone merge is.
LEMMA NamedAt ==
  ASSUME TypeOK, NEW t \in Task, TombstoneNode(t) \/ TombstoneEdge(t),
         1..(task[t].at - 1) \subseteq DOMAIN Named(task[t].req)
  PROVE  LET r == task[t].req
             j == task[t].at
             x == Named(r)[j]
             i == r.incident_id
         IN  /\ j \in Nat \ {0} /\ i \in DOMAIN state.incidents
             /\ 1..j \subseteq DOMAIN Named(r)
             /\ r.rpc \in TombstoneRpcs
             /\ r.rpc = "MergeNodeTombstones" =>
                  /\ state' = [state EXCEPT !.incidents[i].node_tombstones = @ \cup {x}]
                  /\ Record(t, [ id |-> x,
                                 outcome |-> Marking(x, state.incidents[i].node_tombstones,
                                                     DOMAIN state.nodes) ])
             /\ r.rpc # "MergeNodeTombstones" =>
                  /\ state' = [state EXCEPT !.incidents[i].edge_tombstones = @ \cup {x}]
                  /\ Record(t, [ id |-> x,
                                 outcome |-> Marking(x, state.incidents[i].edge_tombstones,
                                                     DOMAIN state.edges) ])
<1> DEFINE r == task[t].req
           j == task[t].at
<1>1. j \in Nat \ {0}
  BY DEF TypeOK, IsCall
<1>2. 1..j = (1..(j - 1)) \cup {j}
  BY <1>1
<1>3. CASE TombstoneNode(t)
  <2>1. /\ r.rpc = "MergeNodeTombstones" /\ j \in DOMAIN r.node_ids
        /\ r.incident_id \in DOMAIN state.incidents
    BY <1>3 DEF TombstoneNode, Running, Registered, IncidentRpcs, TombstoneRpcs
  <2>2. Named(r) = r.node_ids
    BY <2>1 DEF Named
  <2>3. 1..j \subseteq DOMAIN Named(r)
    BY <1>2, <2>1, <2>2
  <2> QED
    BY <1>1, <1>3, <2>1, <2>2, <2>3 DEF TombstoneNode, TombstoneRpcs
<1>4. CASE TombstoneEdge(t)
  <2>1. /\ r.rpc = "MergeEdgeTombstones" /\ j \in DOMAIN r.entries
        /\ r.incident_id \in DOMAIN state.incidents
        /\ r.entries[j].type \in DOMAIN EdgeType
    BY <1>4 DEF TombstoneEdge, AtEntry, EntryAt, Running, Registered, IncidentRpcs,
       TombstoneRpcs
  <2>2. Named(r) = [l \in EntryItems(r) |-> ProtoEdgeKey(r.entries[l])]
    BY <2>1 DEF Named
  <2>3. \A l \in 1..(j - 1) : l \in EntryItems(r) /\ l \in 1..l
    BY <1>1, <2>2
  <2>4. \A l \in 1..(j - 1) : r.entries[l].type \in DOMAIN EdgeType
    BY <2>3 DEF EntryItems, Prefix
  <2>5. j \in EntryItems(r)
    BY <1>2, <2>1, <2>4 DEF EntryItems, Prefix
  <2>6. 1..j \subseteq DOMAIN Named(r) /\ Named(r)[j] = ProtoEdgeKey(r.entries[j])
    BY <1>2, <2>2, <2>3, <2>5
  <2> QED
    BY <1>1, <1>4, <2>1, <2>6 DEF TombstoneEdge, EntryAt, TombstoneRpcs
<1> QED
  BY <1>3, <1>4

LEMMA TombstoneMidway ==
  ASSUME TypeOK, NEW s, IsState(s), NEW t \in Task, TombstoneNode(t) \/ TombstoneEdge(t),
         Registered(s, task[t].req),
         TombstonedSoFar(s, task[t].req, task[t].at - 1, state, task[t].report)
  PROVE  /\ TombstonedSoFar(s, task[t].req, task[t].at, state', task'[t].report)
         /\ DOMAIN state'.incidents = DOMAIN state.incidents
<1> DEFINE r == task[t].req
           j == task[t].at
           p == task[t].report
           i == r.incident_id
           x == Named(r)[j]
           before == NamedUpTo(r, j - 1)
           f == [l \in 1..j |-> TombstoneEntry(s, r, l)]
<1>1. /\ 1..(j - 1) \subseteq DOMAIN Named(r)
      /\ state = IF r.rpc = "MergeNodeTombstones" THEN WithTombstones(s, i, before, {})
                 ELSE WithTombstones(s, i, {}, before)
      /\ p = [l \in 1..(j - 1) |-> TombstoneEntry(s, r, l)]
  BY DEF TombstonedSoFar
<1>2. /\ j \in Nat \ {0} /\ i \in DOMAIN state.incidents
      /\ 1..j \subseteq DOMAIN Named(r)
      /\ r.rpc \in TombstoneRpcs
  BY <1>1, NamedAt
<1>3. i \in DOMAIN s.incidents /\ IsState(state) /\ p \in Seq(Entry)
  BY <1>2 DEF Registered, IncidentRpcs, TypeOK, IsCall
<1>4. NamedUpTo(r, j) = before \cup {x}
  BY <1>2, NamedMore
<1>5. before = {Named(r)[l] : l \in 1..(j - 1)}
  BY DEF NamedUpTo
<1> DEFINE Goal == /\ Record(t, TombstoneEntry(s, r, j))
                      /\ DOMAIN state'.incidents = DOMAIN state.incidents
                      /\ state' = IF r.rpc = "MergeNodeTombstones"
                                  THEN WithTombstones(s, i, NamedUpTo(r, j), {})
                                  ELSE WithTombstones(s, i, {}, NamedUpTo(r, j))
<1>6. ASSUME r.rpc = "MergeNodeTombstones"
      PROVE  Goal
  <2>1. /\ state' = [state EXCEPT !.incidents[i].node_tombstones = @ \cup {x}]
        /\ Record(t, [ id |-> x,
                       outcome |-> Marking(x, state.incidents[i].node_tombstones,
                                           DOMAIN state.nodes) ])
    BY <1>1, <1>6, NamedAt
  <2>2. state = WithTombstones(s, i, before, {})
    BY <1>1, <1>6
  <2> HIDE DEF i, x
  <2>3. state' = WithTombstones(state, i, {x}, {})
    <3> DEFINE M == {x}
    <3> HIDE DEF M
    <3>1. [state EXCEPT !.incidents[i].node_tombstones = @ \cup M]
            = WithTombstones(state, i, M, {})
      BY <1>2, <1>3, TombstonesMerged
    <3> QED
      BY <2>1, <3>1 DEF M
  <2> HIDE DEF before
  <2>4. state' = WithTombstones(s, i, before \cup {x}, {} \cup {})
    BY <1>3, <2>2, <2>3, TombstonesTwice
  <2>5. /\ state.incidents[i].node_tombstones = s.incidents[i].node_tombstones \cup before
        /\ state.nodes = s.nodes /\ DOMAIN state'.incidents = DOMAIN state.incidents
    BY <1>3, <2>2, <2>4 DEF WithTombstones
  <2>6. TombstoneEntry(s, r, j)
          = [ id |-> x,
              outcome |-> Marking(x, s.incidents[i].node_tombstones \cup before,
                                  DOMAIN s.nodes) ]
    BY <1>5, <1>6 DEF TombstoneEntry, i, x
  <2>7. Record(t, TombstoneEntry(s, r, j))
    BY <2>1, <2>5, <2>6
  <2>8. state' = WithTombstones(s, i, NamedUpTo(r, j), {})
    BY <1>4, <2>4
  <2> QED
    BY <1>6, <2>5, <2>7, <2>8 DEF i
<1>7. ASSUME r.rpc # "MergeNodeTombstones"
      PROVE  Goal
  <2>1. /\ state' = [state EXCEPT !.incidents[i].edge_tombstones = @ \cup {x}]
        /\ Record(t, [ id |-> x,
                       outcome |-> Marking(x, state.incidents[i].edge_tombstones,
                                           DOMAIN state.edges) ])
    BY <1>1, <1>7, NamedAt
  <2>2. state = WithTombstones(s, i, {}, before)
    BY <1>1, <1>7
  <2> HIDE DEF i, x
  <2>3. state' = WithTombstones(state, i, {}, {x})
    <3> DEFINE M == {x}
    <3> HIDE DEF M
    <3>1. [state EXCEPT !.incidents[i].edge_tombstones = @ \cup M]
            = WithTombstones(state, i, {}, M)
      BY <1>2, <1>3, TombstonesMerged
    <3> QED
      BY <2>1, <3>1 DEF M
  <2> HIDE DEF before
  <2>4. state' = WithTombstones(s, i, {} \cup {}, before \cup {x})
    BY <1>3, <2>2, <2>3, TombstonesTwice
  <2>5. /\ state.incidents[i].edge_tombstones = s.incidents[i].edge_tombstones \cup before
        /\ state.edges = s.edges /\ DOMAIN state'.incidents = DOMAIN state.incidents
    BY <1>3, <2>2, <2>4 DEF WithTombstones
  <2>6. TombstoneEntry(s, r, j)
          = [ id |-> x,
              outcome |-> Marking(x, s.incidents[i].edge_tombstones \cup before,
                                  DOMAIN s.edges) ]
    BY <1>5, <1>7 DEF TombstoneEntry, i, x
  <2>7. Record(t, TombstoneEntry(s, r, j))
    BY <2>1, <2>5, <2>6
  <2>8. state' = WithTombstones(s, i, {}, NamedUpTo(r, j))
    BY <1>4, <2>4
  <2> QED
    BY <1>7, <2>5, <2>7, <2>8 DEF i
<1>8. Goal
  BY <1>6, <1>7
<1>9. task'[t].report = Append(p, TombstoneEntry(s, r, j))
  BY <1>8, RecordedCall
<1>10. Append(p, TombstoneEntry(s, r, j)) = f
  <2> DEFINE m == j - 1
  <2>1. m \in Nat /\ m + 1 = j /\ j \in 1..j
    BY <1>2
  <2>2. f[j] = TombstoneEntry(s, r, j)
    BY <2>1
  <2>3. f = [l \in 1..(m + 1) |-> f[l]]
    BY <2>1
  <2>4. p = [l \in 1..m |-> f[l]]
    BY <1>1, <1>2
  <2> HIDE DEF f, p, m, j
  <2>5. Append(p, f[m + 1]) = f
    BY <1>3, <2>1, <2>3, <2>4, AppendNext
  <2> QED
    BY <2>1, <2>2, <2>5
<1> QED
  BY <1>2, <1>8, <1>9, <1>10 DEF TombstonedSoFar

-----------------------------------------------------------------------------
(* The registration of an incident, and a write of any kind.               *)

LEMMA CreateMidway ==
  ASSUME TypeOK, NEW s, NEW t \in Task, CreateIncident(t),
         CreatedSoFar(s, task[t].req, task[t].at - 1, state, task[t].report)
  PROVE  CreatedSoFar(s, task[t].req, task[t].at, state', task'[t].report)
<1> DEFINE r == task[t].req
           i == r.incident_id
<1>1. r.rpc = "CreateIncident" /\ task[t].at = 1
  BY DEF CreateIncident, Running
<1>2. state = s /\ task[t].report = <<>>
  BY <1>1 DEF CreatedSoFar
<1>3. /\ \A q : Registered(q, r)
      /\ Complete(r) /\ r.rpc \notin TombstoneRpcs
  BY <1>1 DEF Registered, IncidentRpcs, TombstoneRpcs, Complete
<1>4. StatusOf(s, r) = "Ok"
  BY <1>3 DEF StatusOf
<1>5. ReportOf(s, r) = << [ id |-> i,
                            outcome |-> IF i \in DOMAIN s.incidents
                                        THEN "existed" ELSE "created" ] >>
  BY <1>1, <1>3, <1>4 DEF ReportOf
<1>6. CASE i \in DOMAIN s.incidents
  <2>1. state' = s /\ Record(t, [id |-> i, outcome |-> "existed"])
    BY <1>2, <1>6 DEF CreateIncident
  <2>2. After(s, r, 0) = s
    BY <1>1, <1>3, <1>6 DEF After
  <2>3. task'[t].report = <<[id |-> i, outcome |-> "existed"]>>
    BY <1>2, <2>1, RecordedCall
  <2> QED
    BY <1>1, <1>5, <1>6, <2>1, <2>2, <2>3, DomainAssumption DEF CreatedSoFar
<1>7. CASE i \notin DOMAIN s.incidents
  <2>1. /\ \E now \in Time :
             state' = [s EXCEPT !.incidents = Put(@, i, NewIncident(now))]
        /\ Record(t, [id |-> i, outcome |-> "created"])
    BY <1>2, <1>7 DEF CreateIncident
  <2>2. PICK now \in Time : state' = [s EXCEPT !.incidents = Put(@, i, NewIncident(now))]
    BY <2>1
  <2>3. After(s, r, now) = [s EXCEPT !.incidents = Put(@, i, NewIncident(now))]
    BY <1>1, <1>3, <1>7 DEF After
  <2>4. task'[t].report = <<[id |-> i, outcome |-> "created"]>>
    BY <1>2, <2>1, RecordedCall
  <2> QED
    BY <1>1, <1>5, <1>7, <2>2, <2>3, <2>4 DEF CreatedSoFar
<1> QED
  BY <1>6, <1>7

LEMMA WriteMidway ==
  ASSUME TypeOK, Unconflicted(committed), NEW t \in Task, Midway(t), Write(t),
         committed' = committed
  PROVE  Midway(t)'
<1> DEFINE r == task[t].req
           j == task[t].at
           s == committed
<1>1. /\ r.rpc \in WriteRpcs /\ Registered(state, r) /\ task[t].pc = "running"
      /\ \E e : Record(t, e)
  BY WriteEntry DEF TrueEntry
<1>2. /\ task'[t].req = r /\ task'[t].at - 1 = j
      /\ task'[t].view = task[t].view
  <2>1. PICK e : Record(t, e)
    BY <1>1
  <2>2. task'[t].at = j + 1 /\ j \in Nat /\ task'[t].req = r /\ task'[t].view = task[t].view
    BY <2>1, RecordedCall
  <2> HIDE DEF j
  <2> QED
    BY <2>2
<1>3. Registered(s, r)
  BY <1>1 DEF Midway
<1>4. /\ Registered(state', r)
      /\ r.rpc = "MergeHypothesis" => MergedSoFar(s, r, j, state', task'[t].report)
      /\ r.rpc \in TombstoneRpcs => TombstonedSoFar(s, r, j, state', task'[t].report)
      /\ r.rpc = "CreateIncident" => CreatedSoFar(s, r, j, state', task'[t].report)
  <2>1. CASE CreateNode(t) \/ MergeNode(t) \/ ConflictNode(t)
    <3>1. r.rpc = "MergeHypothesis"
      BY <2>1 DEF CreateNode, MergeNode, ConflictNode, AtNode, Running
    <3>2. MergedSoFar(s, r, j - 1, state, task[t].report)
      BY <1>3, <3>1 DEF Midway
    <3>3. MergedSoFar(s, r, j, state', task'[t].report)
      BY <2>1, <3>2, NodeMidway
    <3> QED
      BY <3>1, <3>3 DEF Registered, IncidentRpcs, TombstoneRpcs
  <2>2. CASE CreateEdge(t) \/ MergeEdge(t)
    <3>1. r.rpc = "MergeHypothesis"
      BY <2>2 DEF CreateEdge, MergeEdge, AtEdge, Running
    <3>2. MergedSoFar(s, r, j - 1, state, task[t].report)
      BY <1>3, <3>1 DEF Midway
    <3>3. MergedSoFar(s, r, j, state', task'[t].report)
      BY <2>2, <3>2, EdgeMidway
    <3> QED
      BY <3>1, <3>3 DEF Registered, IncidentRpcs, TombstoneRpcs
  <2>3. CASE TombstoneNode(t) \/ TombstoneEdge(t)
    <3>1. r.rpc \in TombstoneRpcs
      BY <2>3 DEF TombstoneNode, TombstoneEdge, AtEntry, Running, TombstoneRpcs
    <3>2. TombstonedSoFar(s, r, j - 1, state, task[t].report)
      BY <1>3, <3>1 DEF Midway
    <3>3. /\ TombstonedSoFar(s, r, j, state', task'[t].report)
          /\ DOMAIN state'.incidents = DOMAIN state.incidents
      BY <1>3, <2>3, <3>2, TombstoneMidway DEF Unconflicted
    <3>4. Registered(state', r)
      BY <1>1, <3>3 DEF Registered
    <3> QED
      BY <3>1, <3>3, <3>4 DEF TombstoneRpcs
  <2>4. CASE CreateIncident(t)
    <3>1. r.rpc = "CreateIncident"
      BY <2>4 DEF CreateIncident, Running
    <3>2. CreatedSoFar(s, r, j - 1, state, task[t].report)
      BY <1>3, <3>1 DEF Midway
    <3>3. CreatedSoFar(s, r, j, state', task'[t].report)
      BY <2>4, <3>2, CreateMidway
    <3> QED
      BY <3>1, <3>3 DEF Registered, IncidentRpcs, TombstoneRpcs
  <2> QED
    BY <2>1, <2>2, <2>3, <2>4 DEF Write
<1>5. task[t].view = NoView
  BY DEF Midway
<1> QED
  BY <1>2, <1>3, <1>4, <1>5 DEF Midway

-----------------------------------------------------------------------------
(* The end of a write.                                                     *)

\* The items before the first unknown type are those that were passed.
LEMMA PrefixStops ==
  ASSUME NEW items, NEW enum, NEW n \in Nat, DOMAIN items = 1..n,
         NEW m \in Nat, m < n, \A i \in 1..m : items[i].type \in DOMAIN enum,
         items[m + 1].type \notin DOMAIN enum
  PROVE  Prefix(items, enum) = 1..m
<1>1. ASSUME NEW i \in 1..m
      PROVE  i \in Prefix(items, enum)
  <2>1. i \in DOMAIN items /\ 1..i \subseteq 1..m
    OBVIOUS
  <2> QED
    BY <2>1 DEF Prefix
<1>2. ASSUME NEW i \in Prefix(items, enum)
      PROVE  i \in 1..m
  <2>1. i \in 1..n /\ \A j \in 1..i : items[j].type \in DOMAIN enum
    BY DEF Prefix
  <2>2. m + 1 \notin 1..i
    BY <2>1
  <2> QED
    BY <2>1, <2>2
<1> QED
  BY <1>1, <1>2

LEMMA MergedIs ==
  ASSUME NEW s, IsState(s), NEW r, NEW a, NEW b, NodeItems(r) = 1..a, EdgeItems(r) = 1..b
  PROVE  Merged(s, r) = StoreUpTo(s, r, a, b)
<1>1. s = [nodes |-> s.nodes, edges |-> s.edges, incidents |-> s.incidents]
  BY DEF IsState
<1>2. Merged(s, r) = [s EXCEPT !.nodes = NodesUpTo(s, r, a), !.edges = EdgesUpTo(s, r, b)]
  BY MergedUpTo
<1> QED
  BY <1>1, <1>2 DEF StoreUpTo

LEMMA TombstonedIs ==
  ASSUME NEW s, IsState(s), NEW r, r.rpc \in TombstoneRpcs, Registered(s, r),
         NEW m, NEW q, NEW p, TombstonedSoFar(s, r, m, q, p), DOMAIN Named(r) = 1..m
  PROVE  q = Tombstoned(s, r)
<1> DEFINE new == NamedUpTo(r, m)
           i == r.incident_id
<1>1. {Named(r)[j] : j \in DOMAIN Named(r)} = new
  BY DEF NamedUpTo
<1>2. i \in DOMAIN s.incidents
  BY DEF Registered, IncidentRpcs
<1> HIDE DEF new
<1>3. Tombstoned(s, r)
        = IF r.rpc = "MergeNodeTombstones"
          THEN [s EXCEPT !.incidents[i].node_tombstones = @ \cup new]
          ELSE [s EXCEPT !.incidents[i].edge_tombstones = @ \cup new]
  BY <1>1 DEF Tombstoned
<1> HIDE DEF i
<1>4. /\ [s EXCEPT !.incidents[i].node_tombstones = @ \cup new]
           = WithTombstones(s, i, new, {})
      /\ [s EXCEPT !.incidents[i].edge_tombstones = @ \cup new]
           = WithTombstones(s, i, {}, new)
  BY <1>2, TombstonesMerged
<1> QED
  BY <1>3, <1>4 DEF TombstonedSoFar, new, i

LEMMA MergedReturns ==
  ASSUME NEW s, IsState(s), NEW r \in Message, r.rpc = "MergeHypothesis", NEW m \in Nat,
         NEW q, NEW p, MergedSoFar(s, r, m, q, p), m >= Steps(r)
  PROVE  q = Merged(s, r) /\ StatusOf(s, r) = "Ok" /\ ReportOf(s, r) = p
<1> DEFINE x == Len(r.nodes)
           y == Len(r.edges)
<1>1. /\ x \in Nat /\ y \in Nat
      /\ DOMAIN r.nodes = 1..x /\ DOMAIN r.edges = 1..y
  BY MessageForms
<1>2. Steps(r) = x + y
  BY DEF Steps
<1> HIDE DEF x, y
<1>3. PICK a \in 0..m, b \in 0..m :
        /\ m = a + b
        /\ NodesKnown(r, a)
        /\ b # 0 => EdgesKnown(r, b) /\ a = x
        /\ q = StoreUpTo(s, r, a, b) /\ p = EntriesUpTo(s, r, a, m)
  BY DEF MergedSoFar, x
<1>4. a \in Nat /\ b \in Nat /\ a <= x /\ (b # 0 => b <= y)
  BY <1>3 DEF NodesKnown, EdgesKnown, x, y
<1>5. a = x /\ b = y
  BY <1>1, <1>2, <1>3, <1>4
<1>6. NodesKnown(r, x)
  BY <1>3, <1>5
<1>7. EdgesKnown(r, y)
  BY <1>1, <1>3, <1>5, <1>6, MessageForms, EdgesBefore DEF x, y
<1>8. NodeItems(r) = 1..x /\ EdgeItems(r) = 1..y
  <2>1. 1..x \subseteq NodeItems(r) /\ NodeItems(r) \subseteq 1..x
    BY <1>1, <1>6, KnownNodes DEF NodeItems, Prefix
  <2>2. 1..y \subseteq EdgeItems(r) /\ EdgeItems(r) \subseteq 1..y
    BY <1>7, KnownEdges DEF y
  <2> QED
    BY <2>1, <2>2
<1>9. q = Merged(s, r)
  BY <1>3, <1>5, <1>8, MergedIs
<1>10. StatusOf(s, r) = "Ok"
  BY <1>1, <1>8 DEF StatusOf, Complete, Registered, IncidentRpcs, TombstoneRpcs
<1> DEFINE u == [i \in 1..x |-> NodeEntry(s, r, i)]
           v == [i \in 1..y |-> EdgeEntry(s, r, i)]
<1>11. ReportOf(s, r) = u \o v
  <2>1. /\ [i \in DOMAIN r.nodes |-> NodeEntry(s, r, i)] = u
        /\ [i \in DOMAIN r.edges |-> EdgeEntry(s, r, i)] = v
    BY <1>1
  <2> HIDE DEF u, v
  <2> QED
    BY <1>10, <2>1 DEF ReportOf, TombstoneRpcs
<1>12. u \o v = p
  <2> DEFINE S == {NodeEntry(s, r, i) : i \in 1..x} \cup {EdgeEntry(s, r, i) : i \in 1..y}
  <2>1. u \in Seq(S) /\ Len(u) = x
    <3>1. u \in [1..x -> S]
      OBVIOUS
    <3> HIDE DEF u, S
    <3> QED
      BY <1>1, <3>1
  <2>2. v \in Seq(S) /\ Len(v) = y
    <3>1. v \in [1..y -> S]
      OBVIOUS
    <3> HIDE DEF v, S
    <3> QED
      BY <1>1, <3>1
  <2>3. u \o v = [i \in 1..(x + y) |-> IF i <= x THEN u[i] ELSE v[i - x]]
    <3> HIDE DEF u, v, S
    <3>1. /\ u \o v \in Seq(S) /\ Len(u \o v) = x + y
          /\ \A i \in 1..(x + y) : (u \o v)[i] = IF i <= x THEN u[i] ELSE v[i - x]
      BY <1>1, <2>1, <2>2, ConcatProperties
    <3>2. u \o v = [i \in 1..(x + y) |-> (u \o v)[i]]
      <4> DEFINE w == u \o v
                 n == x + y
      <4>1. w \in Seq(S) /\ Len(w) = n
        BY <3>1
      <4> HIDE DEF w, n
      <4>2. w = [i \in 1..n |-> w[i]]
        BY <4>1
      <4> QED
        BY <4>2 DEF w, n
    <3> QED
      BY <3>1, <3>2
  <2>4. \A i \in 1..(x + y) : IF i <= x THEN u[i] = NodeEntry(s, r, i)
                              ELSE v[i - x] = EdgeEntry(s, r, i - x)
    BY <1>1
  <2> HIDE DEF u, v
  <2> QED
    BY <1>3, <1>5, <2>3, <2>4 DEF EntriesUpTo
<1> QED
  BY <1>9, <1>10, <1>11, <1>12

LEMMA TombstonesReturn ==
  ASSUME NEW s, IsState(s), NEW r \in Message, r.rpc \in TombstoneRpcs, Registered(s, r),
         NEW m \in Nat, NEW q, NEW p, TombstonedSoFar(s, r, m, q, p), m >= Steps(r)
  PROVE  q = Tombstoned(s, r) /\ StatusOf(s, r) = "Ok" /\ ReportOf(s, r) = p
<1> DEFINE n == Steps(r)
<1>1. /\ n \in Nat /\ DOMAIN Named(r) \subseteq 1..n
      /\ r.rpc = "MergeEdgeTombstones" =>
           DOMAIN r.entries = 1..n /\ DOMAIN Named(r) = EntryItems(r)
  <2>1. CASE r.rpc = "MergeNodeTombstones"
    <3>1. r.node_ids \in Seq(Text) /\ Named(r) = r.node_ids /\ n = Len(r.node_ids)
      BY <2>1, MessageForms DEF Named, Steps
    <3> HIDE DEF n
    <3> QED
      BY <2>1, <3>1
  <2>2. CASE r.rpc = "MergeEdgeTombstones"
    <3>1. r.entries \in Seq(EdgeTombstoneEntry) /\ n = Len(r.entries)
      BY <2>2, MessageForms DEF Steps
    <3>2. Named(r) = [i \in EntryItems(r) |-> ProtoEdgeKey(r.entries[i])]
      BY <2>2 DEF Named
    <3>3. EntryItems(r) \subseteq DOMAIN r.entries
      BY DEF EntryItems, Prefix
    <3> HIDE DEF n
    <3> QED
      BY <3>1, <3>2, <3>3
  <2> QED
    BY <2>1, <2>2 DEF TombstoneRpcs
<1> HIDE DEF n
<1>2. 1..m \subseteq DOMAIN Named(r) /\ m >= n
  BY DEF TombstonedSoFar, n
<1>3. m = n /\ DOMAIN Named(r) = 1..m
  <2>1. m <= n
    BY <1>1, <1>2
  <2>2. m = n
    BY <1>1, <1>2, <2>1
  <2> QED
    BY <1>1, <1>2, <2>2
<1>4. Complete(r)
  BY <1>1, <1>3 DEF Complete, TombstoneRpcs
<1>5. StatusOf(s, r) = "Ok"
  BY <1>4 DEF StatusOf
<1>6. ReportOf(s, r) = p
  BY <1>3, <1>5 DEF ReportOf, TombstonedSoFar, TombstoneRpcs
<1>7. q = Tombstoned(s, r)
  BY <1>3, TombstonedIs
<1> QED
  BY <1>5, <1>6, <1>7

LEMMA CreatedReturns ==
  ASSUME NEW s, NEW r \in Message, r.rpc = "CreateIncident", NEW m \in Nat,
         NEW q, NEW p, CreatedSoFar(s, r, m, q, p), m >= Steps(r)
  PROVE  /\ \E now \in Time : q = After(s, r, now)
         /\ StatusOf(s, r) = "Ok" /\ ReportOf(s, r) = p
<1>1. Steps(r) = 1
  BY DEF Steps
<1>2. (\E now \in Time : q = After(s, r, now)) /\ p = ReportOf(s, r)
  BY <1>1 DEF CreatedSoFar
<1>3. StatusOf(s, r) = "Ok"
  BY DEF StatusOf, Registered, IncidentRpcs, TombstoneRpcs, Complete
<1> QED
  BY <1>2, <1>3

\* r is served as TeeAtomic serves it: the store s becomes q, the answer is the
\* status, the report p and the view v.
Served(s, r, q, status, p, v) ==
  /\ \E now \in Time : q = After(s, r, now)
  /\ status = StatusOf(s, r) /\ p = ReportOf(s, r) /\ v = ViewOf(s, r)

LEMMA WriteServed ==
  ASSUME TypeOK, Unconflicted(committed), NEW t \in Task, Writing(t), Midway(t), Return(t)
  PROVE  Served(committed, task[t].req, state, "Ok", task[t].report, NoView)
<1> DEFINE r == task[t].req
           s == committed
           m == task[t].at - 1
           p == task[t].report
<1>1. /\ r \in Message /\ r.rpc \in WriteRpcs /\ m \in Nat /\ m >= Steps(r)
      /\ Registered(s, r) /\ 0 \in Time /\ IsState(s)
  <2>1. task[t].at \in Nat \ {0} /\ r \in Requests /\ task[t].at > Steps(r)
    BY DEF TypeOK, IsCall, Return
  <2>2. Steps(r) \in Nat
    BY <2>1, StepsType
  <2>3. m \in Nat /\ m >= Steps(r)
    <3> HIDE DEF r
    <3> QED
      BY <2>1, <2>2
  <2> QED
    BY <2>1, <2>3, RequestsAssumption, DomainAssumption DEF Writing, Midway, Return, Unconflicted
<1>2. ViewOf(s, r) = NoView
  BY <1>1 DEF ViewOf
<1>3. CASE r.rpc = "MergeHypothesis"
  <2>1. MergedSoFar(s, r, m, state, p)
    BY <1>1, <1>3 DEF Midway
  <2>2. state = Merged(s, r) /\ StatusOf(s, r) = "Ok" /\ ReportOf(s, r) = p
    BY <1>1, <1>3, <2>1, MergedReturns
  <2>3. After(s, r, 0) = Merged(s, r)
    BY <1>1, <1>3 DEF After, TombstoneRpcs
  <2> QED
    BY <1>1, <1>2, <2>2, <2>3 DEF Served
<1>4. CASE r.rpc \in TombstoneRpcs
  <2>1. TombstonedSoFar(s, r, m, state, p)
    BY <1>1, <1>4 DEF Midway
  <2>2. state = Tombstoned(s, r) /\ StatusOf(s, r) = "Ok" /\ ReportOf(s, r) = p
    BY <1>1, <1>4, <2>1, TombstonesReturn
  <2>3. After(s, r, 0) = Tombstoned(s, r)
    BY <1>1, <1>4 DEF After, TombstoneRpcs
  <2> QED
    BY <1>1, <1>2, <2>2, <2>3 DEF Served
<1>5. CASE r.rpc = "CreateIncident"
  <2>1. CreatedSoFar(s, r, m, state, p)
    BY <1>1, <1>5 DEF Midway
  <2>2. /\ \E now \in Time : state = After(s, r, now)
        /\ StatusOf(s, r) = "Ok" /\ ReportOf(s, r) = p
    BY <1>1, <1>5, <2>1, CreatedReturns
  <2> QED
    BY <1>2, <2>2 DEF Served
<1> QED
  BY <1>1, <1>3, <1>4, <1>5 DEF WriteRpcs, TombstoneRpcs

\* The type at which a write stops ends the items that it accepts.
LEMMA NodeStops ==
  ASSUME TypeOK, NEW s, Unconflicted(s), NEW t \in Task, AtNode(t),
         NodeAt(t).type \notin DOMAIN NodeType,
         MergedSoFar(s, task[t].req, task[t].at - 1, state, task[t].report)
  PROVE  state = Merged(s, task[t].req) /\ ~ Complete(task[t].req)
<1> DEFINE r == task[t].req
           m == task[t].at - 1
<1>1. /\ r \in Message /\ r.rpc = "MergeHypothesis" /\ r.nodes \in Seq(ProtoNode)
      /\ task[t].at \in DOMAIN r.nodes
      /\ r.nodes[task[t].at].type \notin DOMAIN NodeType
  <2>1. r \in Requests /\ r.rpc = "MergeHypothesis"
    BY NodeAtType DEF AtNode, Running
  <2> QED
    BY <2>1, RequestForms, RequestsAssumption DEF AtNode, NodeAt
<1>2. /\ m \in Nat /\ Len(r.nodes) \in Nat /\ m < Len(r.nodes) /\ m + 1 = task[t].at
      /\ DOMAIN r.nodes = 1..Len(r.nodes)
  <2> DEFINE j == task[t].at
             n == Len(r.nodes)
  <2>1. n \in Nat /\ DOMAIN r.nodes = 1..n /\ j \in 1..n
    BY <1>1
  <2> HIDE DEF j, n
  <2>2. j - 1 \in Nat /\ j - 1 < n /\ (j - 1) + 1 = j
    BY <2>1
  <2> QED
    BY <2>1, <2>2 DEF j, n
<1>3. NodesKnown(r, m) /\ state = StoreUpTo(s, r, m, 0)
  BY <1>2, AmongNodes
<1>4. NodeItems(r) = 1..m
  <2>1. \A i \in 1..m : r.nodes[i].type \in DOMAIN NodeType
    BY <1>3 DEF NodesKnown
  <2>2. r.nodes[m + 1].type \notin DOMAIN NodeType
    BY <1>1, <1>2
  <2> QED
    BY <1>2, <2>1, <2>2, PrefixStops DEF NodeItems
<1>5. EdgeItems(r) = 1..0 /\ NodeItems(r) # DOMAIN r.nodes
  <2>1. task[t].at \notin 1..m
    BY <1>2
  <2>2. NodeItems(r) # DOMAIN r.nodes
    BY <1>1, <1>4, <2>1
  <2>3. 1..0 = {}
    OBVIOUS
  <2> QED
    BY <2>2, <2>3 DEF EdgeItems
<1>6. state = Merged(s, r)
  BY <1>3, <1>4, <1>5, MergedIs DEF Unconflicted
<1> QED
  BY <1>1, <1>5, <1>6 DEF Complete

LEMMA EdgeStops ==
  ASSUME TypeOK, NEW s, Unconflicted(s), NEW t \in Task, AtEdge(t),
         EdgeAt(t).type \notin DOMAIN EdgeType,
         MergedSoFar(s, task[t].req, task[t].at - 1, state, task[t].report)
  PROVE  state = Merged(s, task[t].req) /\ ~ Complete(task[t].req)
<1> DEFINE r == task[t].req
           m == task[t].at - 1
           a == Len(r.nodes)
           b == m - a
<1>1. /\ r \in Message /\ r.rpc = "MergeHypothesis"
      /\ r.nodes \in Seq(ProtoNode) /\ r.edges \in Seq(ProtoEdge)
      /\ EdgeIndex(t) \in DOMAIN r.edges
      /\ r.edges[EdgeIndex(t)].type \notin DOMAIN EdgeType
  <2>1. r \in Requests /\ r.rpc = "MergeHypothesis"
    BY EdgeAtType DEF AtEdge, Running
  <2> QED
    BY <2>1, RequestForms, RequestsAssumption DEF AtEdge, EdgeAt
<1>2. /\ a \in Nat /\ m \in Nat /\ m >= a /\ b \in Nat /\ b < Len(r.edges)
      /\ b + 1 = EdgeIndex(t) /\ Len(r.edges) \in Nat
      /\ DOMAIN r.edges = 1..Len(r.edges)
  <2> DEFINE j == task[t].at
             e == EdgeIndex(t)
             n == Len(r.edges)
  <2>1. /\ a \in Nat /\ n \in Nat /\ DOMAIN r.edges = 1..n /\ e \in 1..n
        /\ j \in Nat \ {0} /\ e = j - a
    BY <1>1 DEF EdgeIndex, TypeOK, IsCall
  <2> HIDE DEF j, e, n, a
  <2>2. /\ j - 1 \in Nat /\ j - 1 >= a /\ (j - 1) - a \in Nat /\ (j - 1) - a < n
        /\ ((j - 1) - a) + 1 = e
    BY <2>1
  <2> QED
    BY <2>1, <2>2 DEF j, e, n, a
<1>3. /\ NodesKnown(r, a) /\ (b # 0 => EdgesKnown(r, b))
      /\ state = StoreUpTo(s, r, a, b)
  BY <1>2, AmongEdges
<1>4. NodeItems(r) = 1..a /\ NodeItems(r) = DOMAIN r.nodes
  <2>1. DOMAIN r.nodes = 1..a /\ 1..a \subseteq NodeItems(r)
    BY <1>3, KnownNodes
  <2>2. NodeItems(r) \subseteq DOMAIN r.nodes
    BY DEF NodeItems, Prefix
  <2> QED
    BY <2>1, <2>2
<1>5. EdgeItems(r) = 1..b
  <2>1. EdgesKnown(r, b)
    <3>1. b <= Len(r.edges)
      <4> HIDE DEF b
      <4> QED
        BY <1>2
    <3> QED
      BY <1>1, <1>2, <1>3, <3>1, EdgesBefore
  <2>2. \A i \in 1..b : r.edges[i].type \in DOMAIN EdgeType
    BY <2>1 DEF EdgesKnown
  <2>3. r.edges[b + 1].type \notin DOMAIN EdgeType
    BY <1>1, <1>2
  <2>4. Prefix(r.edges, EdgeType) = 1..b
    BY <1>2, <2>2, <2>3, PrefixStops
  <2> QED
    BY <1>4, <2>4 DEF EdgeItems
<1>6. EdgeItems(r) # DOMAIN r.edges
  <2>1. EdgeIndex(t) \notin 1..b
    <3> HIDE DEF b
    <3> QED
      BY <1>2
  <2> QED
    BY <1>1, <1>5, <2>1
<1>7. state = Merged(s, r)
  BY <1>3, <1>4, <1>5, MergedIs DEF Unconflicted
<1> QED
  BY <1>1, <1>6, <1>7 DEF Complete

LEMMA EntryStops ==
  ASSUME TypeOK, NEW s, Unconflicted(s), NEW t \in Task, AtEntry(t),
         EntryAt(t).type \notin DOMAIN EdgeType, Registered(s, task[t].req),
         TombstonedSoFar(s, task[t].req, task[t].at - 1, state, task[t].report)
  PROVE  state = Tombstoned(s, task[t].req) /\ ~ Complete(task[t].req)
<1> DEFINE r == task[t].req
           m == task[t].at - 1
<1>1. /\ r \in Message /\ r.rpc = "MergeEdgeTombstones"
      /\ r.entries \in Seq(EdgeTombstoneEntry)
      /\ task[t].at \in DOMAIN r.entries
      /\ r.entries[task[t].at].type \notin DOMAIN EdgeType
  <2>1. r \in Requests /\ r.rpc = "MergeEdgeTombstones"
    BY EntryAtType DEF AtEntry, Running
  <2> QED
    BY <2>1, RequestForms, RequestsAssumption DEF AtEntry, EntryAt
<1>2. /\ m \in Nat /\ Len(r.entries) \in Nat /\ m < Len(r.entries) /\ m + 1 = task[t].at
      /\ DOMAIN r.entries = 1..Len(r.entries)
  <2> DEFINE j == task[t].at
             n == Len(r.entries)
  <2>1. n \in Nat /\ DOMAIN r.entries = 1..n /\ j \in 1..n
    BY <1>1
  <2> HIDE DEF j, n
  <2>2. j - 1 \in Nat /\ j - 1 < n /\ (j - 1) + 1 = j
    BY <2>1
  <2> QED
    BY <2>1, <2>2 DEF j, n
<1>3. DOMAIN Named(r) = EntryItems(r)
  BY <1>1 DEF Named
<1>4. EntryItems(r) = 1..m
  <2>1. \A i \in 1..m : r.entries[i].type \in DOMAIN EdgeType
    <3>1. ASSUME NEW i \in 1..m
          PROVE  r.entries[i].type \in DOMAIN EdgeType
      <4>1. i \in EntryItems(r)
        BY <1>3 DEF TombstonedSoFar
      <4>2. i \in 1..i
        BY <1>2
      <4> QED
        BY <4>1, <4>2 DEF EntryItems, Prefix
    <3> QED
      BY <3>1
  <2>2. r.entries[m + 1].type \notin DOMAIN EdgeType
    BY <1>1, <1>2
  <2> QED
    BY <1>2, <2>1, <2>2, PrefixStops DEF EntryItems
<1>5. task[t].at \notin 1..m
  BY <1>2
<1>6. state = Tombstoned(s, r)
  BY <1>1, <1>3, <1>4, TombstonedIs DEF Unconflicted, TombstoneRpcs
<1> QED
  BY <1>1, <1>4, <1>5, <1>6 DEF Complete

LEMMA WriteStopped ==
  ASSUME TypeOK, Unconflicted(committed), NEW t \in Task, Midway(t), Unconvertible(t)
  PROVE  Served(committed, task[t].req, state, "Internal", <<>>, NoView)
<1> DEFINE r == task[t].req
           s == committed
           p == task[t].report
<1>1. Registered(s, r) /\ 0 \in Time
  BY DomainAssumption DEF Unconvertible, AtNode, AtEdge, AtEntry, Running, Midway
<1>2. ASSUME ~ Complete(r), state = After(s, r, 0)
      PROVE  Served(s, r, state, "Internal", <<>>, NoView)
  <2>1. StatusOf(s, r) = "Internal"
    BY <1>1, <1>2 DEF StatusOf
  <2>2. r.rpc # "CreateIncident"
    BY <1>2 DEF Complete
  <2>3. ReportOf(s, r) = <<>> /\ ViewOf(s, r) = NoView
    BY <2>1, <2>2 DEF ReportOf, ViewOf
  <2> QED
    BY <1>1, <1>2, <2>1, <2>3 DEF Served
<1>3. ASSUME r.rpc = "MergeHypothesis", state = Merged(s, r) /\ ~ Complete(r)
      PROVE  Served(s, r, state, "Internal", <<>>, NoView)
  BY <1>1, <1>2, <1>3 DEF After, TombstoneRpcs
<1>4. CASE AtNode(t) /\ NodeAt(t).type \notin DOMAIN NodeType
  <2>1. r.rpc = "MergeHypothesis"
    BY <1>4 DEF AtNode, Running
  <2>2. MergedSoFar(s, r, task[t].at - 1, state, p)
    BY <1>1, <2>1 DEF Midway
  <2> QED
    BY <1>3, <1>4, <2>1, <2>2, NodeStops
<1>5. CASE AtEdge(t) /\ EdgeAt(t).type \notin DOMAIN EdgeType
  <2>1. r.rpc = "MergeHypothesis"
    BY <1>5 DEF AtEdge, Running
  <2>2. MergedSoFar(s, r, task[t].at - 1, state, p)
    BY <1>1, <2>1 DEF Midway
  <2> QED
    BY <1>3, <1>5, <2>1, <2>2, EdgeStops
<1>6. CASE AtEntry(t) /\ EntryAt(t).type \notin DOMAIN EdgeType
  <2>1. r.rpc \in TombstoneRpcs
    BY <1>6 DEF AtEntry, Running, TombstoneRpcs
  <2>2. TombstonedSoFar(s, r, task[t].at - 1, state, p)
    BY <1>1, <2>1 DEF Midway
  <2>3. state = Tombstoned(s, r) /\ ~ Complete(r)
    BY <1>1, <1>6, <2>2, EntryStops
  <2>4. After(s, r, 0) = Tombstoned(s, r)
    BY <1>1, <2>1 DEF After, TombstoneRpcs
  <2> QED
    BY <1>2, <2>3, <2>4
<1> QED
  BY <1>4, <1>5, <1>6 DEF Unconvertible

-----------------------------------------------------------------------------
(* The end of the other calls.                                             *)

LEMMA ReadServed ==
  ASSUME TypeOK, ReadsInOrder, NEW t \in Task, ~ Writing(t), Return(t),
         task[t].report = <<>>
  PROVE  Served(state, task[t].req, state, "Ok", task[t].report, task[t].view)
<1> DEFINE r == task[t].req
<1>1. r \in Message /\ r.rpc \notin WriteRpcs /\ Registered(state, r)
  BY RequestsAssumption DEF Return, Writing, TypeOK, IsCall
<1>2. r.rpc \in ReadRpcs
  BY <1>1 DEF Message, HypothesisDelta, NodeTombstoneRequest, EdgeTombstoneRequest,
     IncidentRequest, MainGraphRequest, ReadRpcs, WriteRpcs, TombstoneRpcs
<1>3. task[t].view = View(state, r)
  <2>1. Steps(r) = 2
    BY <1>2 DEF Steps, ReadRpcs
  <2>2. task[t].at \in {1, 2, 3} /\ task[t].at > 2
    BY <1>2, <2>1 DEF Return, ReadsInOrder, Holders
  <2>3. task[t].at = 3
    BY <2>2
  <2> QED
    BY <1>2, <2>3 DEF Return, ReadsInOrder, Holders
<1>4. StatusOf(state, r) = "Ok"
  BY <1>1, <1>2 DEF StatusOf, Complete, ReadRpcs
<1>5. ReportOf(state, r) = <<>> /\ ViewOf(state, r) = View(state, r)
  BY <1>1, <1>2, <1>4 DEF ReportOf, ViewOf, ReadRpcs, TombstoneRpcs
<1>6. After(state, r, 0) = state
  BY <1>1, <1>2 DEF After, ReadRpcs, TombstoneRpcs
<1> QED
  BY <1>3, <1>4, <1>5, <1>6, DomainAssumption DEF Served

LEMMA MissingServed ==
  ASSUME NEW s, NEW r, ~ Registered(s, r)
  PROVE  Served(s, r, s, "NotFound", <<>>, NoView)
<1>1. After(s, r, 0) = s
  BY DEF After, Registered, IncidentRpcs, TombstoneRpcs
<1>2. StatusOf(s, r) = "NotFound" /\ r.rpc # "CreateIncident"
  BY DEF StatusOf, Registered, IncidentRpcs, TombstoneRpcs
<1>3. ReportOf(s, r) = <<>> /\ ViewOf(s, r) = NoView
  BY <1>2 DEF ReportOf, ViewOf
<1> QED
  BY <1>1, <1>2, <1>3, DomainAssumption DEF Served

-----------------------------------------------------------------------------
(* OneAtATime is inductive.                                                *)

LEMMA NothingSoFar ==
  ASSUME NEW s, IsState(s), NEW r \in Message
  PROVE  /\ r.rpc = "MergeHypothesis" => MergedSoFar(s, r, 0, s, <<>>)
         /\ r.rpc \in TombstoneRpcs => TombstonedSoFar(s, r, 0, s, <<>>)
         /\ r.rpc = "CreateIncident" => CreatedSoFar(s, r, 0, s, <<>>)
<1>1. 1..0 = {}
  OBVIOUS
<1>2. ASSUME r.rpc = "MergeHypothesis"
      PROVE  MergedSoFar(s, r, 0, s, <<>>)
  <2>1. Len(r.nodes) \in Nat
    BY <1>2, MessageForms
  <2>2. NodesKnown(r, 0)
    BY <1>1, <1>2, <2>1 DEF NodesKnown
  <2>3. StoreUpTo(s, r, 0, 0) = s
    BY NothingUpTo DEF StoreUpTo, IsState
  <2>4. EntriesUpTo(s, r, 0, 0) = <<>>
    BY <1>1 DEF EntriesUpTo
  <2>5. 0 \in 0..0 /\ 0 = 0 + 0
    OBVIOUS
  <2> QED
    BY <2>2, <2>3, <2>4, <2>5 DEF MergedSoFar
<1>3. ASSUME r.rpc \in TombstoneRpcs
      PROVE  TombstonedSoFar(s, r, 0, s, <<>>)
  <2>1. NamedUpTo(r, 0) = {}
    BY <1>1 DEF NamedUpTo
  <2>2. WithTombstones(s, r.incident_id, {}, {}) = s
    BY NoTombstones
  <2>3. [i \in 1..0 |-> TombstoneEntry(s, r, i)] = <<>>
    BY <1>1
  <2> QED
    BY <1>1, <2>1, <2>2, <2>3 DEF TombstonedSoFar
<1>4. CreatedSoFar(s, r, 0, s, <<>>)
  BY DEF CreatedSoFar
<1> QED
  BY <1>2, <1>3, <1>4

LEMMA AcquiredCall ==
  ASSUME TypeOK, NEW t \in Task, Acquire(t), task[t] = Call("queued", task[t].req)
  PROVE  task'[t] = Call("running", task[t].req)
<1> DEFINE r == task[t].req
           c == [Call("queued", r) EXCEPT !.pc = "running"]
<1>1. c = Call("running", r)
  BY DEF Call
<1>2. task' = [task EXCEPT ![t] = c]
  BY DEF Acquire
<1> HIDE DEF c
<1>3. task'[t] = c
  BY <1>2 DEF TypeOK
<1> QED
  BY <1>1, <1>3

LEMMA AcquireMidway ==
  ASSUME TypeOK, NEW t \in Task, Acquire(t), Writing(t), InOrder(t),
         committed = state, committed' = committed
  PROVE  Midway(t)'
<1> DEFINE r == task[t].req
<1>1. task'[t] = Call("running", r)
  BY AcquiredCall DEF InOrder, Acquire
<1>2. /\ task'[t].req = r /\ task'[t].at - 1 = 0 /\ task'[t].report = <<>>
      /\ task'[t].view = NoView
  BY <1>1 DEF Call
<1>3. state' = state /\ IsState(state) /\ r \in Message
  BY RequestsAssumption DEF Acquire, TypeOK, IsCall
<1> HIDE DEF r
<1> QED
  BY <1>2, <1>3, NothingSoFar DEF Midway

\* Once t holds the lock for a write, the history stands still.
LEMMA HistoryStands ==
  ASSUME HistoryNext, NEW t \in Task, task'[t].pc = "running", Writing(t)'
  PROVE  committed' = committed
BY DEF HistoryNext, WriteUnderWay, Holders

LEMMA OthersInOrder ==
  ASSUME TypeOK, WritersExclude, HistoryNext, NEW u \in Task, InOrder(u), task'[u] = task[u]
  PROVE  InOrder(u)'
<1>1. CASE task[u].pc = "running" /\ Writing(u)
  <2>1. committed' = committed
    BY <1>1, HistoryStands DEF Writing
  <2>2. state' = state
    <3> SUFFICES ASSUME state' # state
                 PROVE  FALSE
      OBVIOUS
    <3>1. PICK t \in Task : Write(t)
      BY OnlyWritesWrite DEF HistoryNext
    <3>2. t = u
      BY <1>1, <3>1, WriterAlone DEF Holders
    <3>3. PICK e : Record(t, e)
      BY <3>1, WriteEntry DEF TrueEntry
    <3>4. task'[u].at = task[u].at + 1 /\ task[u].at \in Nat
      BY <3>2, <3>3, RecordedCall
    <3> QED
      BY <3>4
  <2> QED
    BY <1>1, <2>1, <2>2 DEF InOrder, Midway, Writing
<1>2. CASE ~ (task[u].pc = "running" /\ Writing(u))
  BY <1>2 DEF InOrder, Writing
<1> QED
  BY <1>1, <1>2

\* A step of the task t.
StepOf(t) ==
  \/ \E r \in Requests : Receive(t, r) \/ Reject(t, r)
  \/ Cancel(t) \/ Acquire(t) \/ Handler(t) \/ Reply(t)

LEMMA StepFrame ==
  ASSUME TypeOK, NEW t \in Task, StepOf(t)
  PROVE  \A u \in Task \ {t} : task'[u] = task[u]
<1>1. CASE \E r \in Requests : Receive(t, r) \/ Reject(t, r)
  BY <1>1 DEF Receive, Reject, TypeOK
<1>2. CASE Cancel(t) \/ Reply(t)
  BY <1>2 DEF Cancel, Reply, TypeOK
<1>3. CASE Acquire(t)
  BY <1>3, AcquireType
<1>4. CASE Handler(t)
  BY <1>4, HandlerFrame
<1> QED
  BY <1>1, <1>2, <1>3, <1>4 DEF StepOf

LEMMA SelfInOrder ==
  ASSUME TypeOK, WritersExclude, OneAtATime, HistoryNext, NEW t \in Task, StepOf(t)
  PROVE  InOrder(t)'
<1>1. CASE \E r \in Requests : Receive(t, r)
  <2>1. PICK r : task'[t] = Call("queued", r)
    BY <1>1 DEF Receive, TypeOK
  <2>2. task'[t].pc = "queued" /\ task'[t].req = r
    BY <2>1 DEF Call
  <2> QED
    BY <2>1, <2>2 DEF InOrder
<1>2. CASE (\E r \in Requests : Reject(t, r)) \/ Cancel(t) \/ Reply(t)
  <2>1. task'[t].pc \in {"InvalidArgument", "idle"}
    BY <1>2 DEF Reject, Cancel, Reply, Idle, Call, TypeOK
  <2> QED
    BY <2>1 DEF InOrder
<1>3. CASE Acquire(t)
  <2>1. InOrder(t) /\ task[t] = Call("queued", task[t].req)
    BY <1>3 DEF OneAtATime, InOrder, Acquire
  <2>2. task'[t] = Call("running", task[t].req)
    BY <1>3, <2>1, AcquiredCall
  <2>3. task'[t].pc = "running" /\ task'[t].report = <<>> /\ task'[t].req = task[t].req
    BY <2>2 DEF Call
  <2>4. CASE Writing(t)
    <3>1. committed' = committed
      BY <2>3, <2>4, HistoryStands DEF Writing
    <3>2. committed = state
      <4>1. ~ WriteUnderWay
        BY <1>3, <2>4, AcquireExclusive DEF WriteUnderWay
      <4> QED
        BY <4>1 DEF OneAtATime
    <3>3. Midway(t)'
      BY <1>3, <2>1, <2>4, <3>1, <3>2, AcquireMidway
    <3> QED
      BY <2>3, <2>4, <3>3 DEF InOrder, Writing
  <2>5. CASE ~ Writing(t)
    BY <2>3, <2>5 DEF InOrder, Writing
  <2> QED
    BY <2>4, <2>5
<1>4. CASE Write(t)
  <2>1. task[t].pc = "running" /\ Writing(t) /\ \E e : Record(t, e)
    BY <1>4, WriteEntry DEF TrueEntry, Writing
  <2>2. task'[t].pc = "running" /\ task'[t].req = task[t].req
    BY <2>1, RecordedCall
  <2>3. committed' = committed
    BY <2>1, <2>2, HistoryStands DEF Writing
  <2>4. Midway(t)'
    BY <1>4, <2>1, <2>3, WriteMidway DEF OneAtATime, InOrder
  <2> QED
    BY <2>1, <2>2, <2>4 DEF InOrder, Writing
<1>5. CASE Unconvertible(t) \/ IncidentMissing(t)
  <2>1. task'[t].pc \in {"Internal", "NotFound"}
    BY <1>5 DEF Unconvertible, IncidentMissing, Fail, Call, TypeOK
  <2> QED
    BY <2>1 DEF InOrder
<1>6. CASE Return(t)
  <2>1. task'[t].pc = "Ok"
    BY <1>6 DEF Return, TypeOK, IsCall
  <2> QED
    BY <2>1 DEF InOrder
<1>7. CASE ReadNodes(t) \/ ReadEdges(t)
  <2>1. /\ task'[t].req = task[t].req /\ task'[t].report = task[t].report
        /\ task'[t].pc # "queued"
    BY <1>7, ReadStepType
  <2>2. task[t].pc = "running" /\ ~ Writing(t)
    BY <1>7 DEF ReadNodes, ReadEdges, Running, ReadRpcs, Writing, WriteRpcs, TombstoneRpcs
  <2>3. task[t].report = <<>>
    BY <2>2 DEF OneAtATime, InOrder
  <2> QED
    BY <2>1, <2>2, <2>3 DEF InOrder, Writing
<1> QED
  BY <1>1, <1>2, <1>3, <1>4, <1>5, <1>6, <1>7 DEF StepOf, Handler

LEMMA OneAtATimeStep ==
  ASSUME TypeOK, TypeOK', SchemaConformance', WritersExclude, OneAtATime,
         [HistoryNext]_historyVars
  PROVE  OneAtATime'
<1>1. CASE UNCHANGED historyVars
  BY <1>1 DEF historyVars, vars, OneAtATime, WriteUnderWay, Holders, Writing, InOrder, Midway,
     Unconflicted
<1>2. CASE HistoryNext
  <2>1. Unconflicted(state')
    BY DomainAssumption DEF TypeOK, SchemaConformance, WellFormedNode, Unconflicted, HasConflict
  <2>2. Unconflicted(committed')
    BY <1>2, <2>1 DEF HistoryNext, OneAtATime
  <2>3. ~ WriteUnderWay' => committed' = state'
    BY <1>2 DEF HistoryNext
  <2>4. PICK t \in Task : StepOf(t)
    BY <1>2 DEF HistoryNext, Next, StepOf
  <2>5. ASSUME NEW u \in Task
        PROVE  InOrder(u)'
    <3>1. CASE u = t
      BY <1>2, <2>4, <3>1, SelfInOrder
    <3>2. CASE u # t
      BY <1>2, <2>4, <3>2, StepFrame, OthersInOrder DEF OneAtATime
    <3> QED
      BY <3>1, <3>2
  <2> QED
    BY <2>2, <2>3, <2>5 DEF OneAtATime
<1> QED
  BY <1>1, <1>2

-----------------------------------------------------------------------------
(* The refinement, step by step.                                           *)

\* The calls as TeeAtomic sees them.
Calls == [u \in Task |-> Observed(u)]

LEMMA OneObserved ==
  ASSUME TypeOK, NEW t \in Task, StepOf(t)
  PROVE  Calls' = [Calls EXCEPT ![t] = Observed(t)']
<1>1. \A u \in Task \ {t} : Observed(u)' = Observed(u)
  BY StepFrame DEF Observed
<1> QED
  BY <1>1 DEF Calls

\* A step that does not end a write, and leaves the store alone.
LEMMA CommittedKept ==
  ASSUME TypeOK, OneAtATime, HistoryNext, NEW t \in Task, StepOf(t), state' = state,
         ~ (task[t].pc = "running" /\ Writing(t))
  PROVE  committed' = committed
<1>1. CASE WriteUnderWay
  <2>1. PICK u \in Task : task[u].pc = "running" /\ Writing(u)
    BY <1>1 DEF WriteUnderWay, Holders
  <2>2. task'[u] = task[u]
    BY <2>1, StepFrame
  <2> QED
    BY <2>1, <2>2, HistoryStands DEF Writing
<1>2. CASE ~ WriteUnderWay
  BY <1>2 DEF OneAtATime, HistoryNext
<1> QED
  BY <1>1, <1>2

\* The step that ends a call, and with it its write.
LEMMA CommittedAtEnd ==
  ASSUME TypeOK, WritersExclude, OneAtATime, HistoryNext, NEW t \in Task, StepOf(t),
         state' = state, task[t].pc = "running", task'[t].pc # "running"
  PROVE  /\ committed' = state
         /\ ~ Writing(t) => committed = state
<1>1. CASE Writing(t)
  <2>1. \A u \in Task \ {t} : task'[u].pc # "running"
    BY <1>1, StepFrame DEF WritersExclude, Holders
  <2>2. ~ WriteUnderWay'
    BY <2>1 DEF WriteUnderWay, Holders
  <2> QED
    BY <1>1, <2>2 DEF HistoryNext
<1>2. CASE ~ Writing(t)
  <2>1. ~ WriteUnderWay
    BY <1>2 DEF WriteUnderWay, WritersExclude, Holders
  <2> QED
    BY <1>2, <2>1, CommittedKept DEF OneAtATime
<1> QED
  BY <1>1, <1>2

\* An answer is the one that TeeAtomic gives.
LEMMA ServeMaps ==
  ASSUME TypeOK, NEW t \in Task, StepOf(t), task[t].pc = "running",
         task'[t].pc \in Status, task'[t].req = task[t].req, committed' = state,
         Served(committed, task[t].req, state, task'[t].pc, task'[t].report, task'[t].view)
  PROVE  Atomic!Serve(t)
<1> DEFINE r == task[t].req
           c == [ pc |-> StatusOf(committed, r), req |-> r,
                  report |-> ReportOf(committed, r), view |-> ViewOf(committed, r) ]
<1>1. Calls[t].pc = "pending" /\ Calls[t].req = r
  BY DEF Calls, Observed
<1>2. Observed(t)' = c
  BY DEF Observed, Served, Status
<1>3. Calls' = [Calls EXCEPT ![t] = c]
  BY <1>2, OneObserved
<1>4. c = [ pc |-> Atomic!StatusOf(committed, r), req |-> r,
            report |-> Atomic!ReportOf(committed, r), view |-> Atomic!ViewOf(committed, r) ]
  BY SameItems, SameRequests
<1>5. \E now \in Time : committed' = Atomic!After(committed, r, now)
  BY SameRequests DEF Served
<1> HIDE DEF c
<1> QED
  BY <1>1, <1>3, <1>4, <1>5 DEF Atomic!Serve, Calls

LEMMA StartMaps ==
  ASSUME TypeOK, OneAtATime, HistoryNext, NEW t \in Task, StepOf(t), NEW r \in Requests,
         Receive(t, r) \/ Reject(t, r)
  PROVE  Atomic!Start(t, r)
<1> DEFINE c == Atomic!Called(IF Valid(r) THEN "pending" ELSE "InvalidArgument", r)
<1>1. task[t].pc = "idle" /\ state' = state
  BY DEF Receive, Reject
<1>2. committed' = committed
  BY <1>1, CommittedKept
<1>3. Observed(t)' = c
  <2>1. task'[t] = Call(IF Valid(r) THEN "queued" ELSE "InvalidArgument", r)
    BY DEF Receive, Reject, TypeOK
  <2> QED
    BY <2>1, SameView DEF Observed, Call, Status, Atomic!Called
<1>4. Calls' = [Calls EXCEPT ![t] = c] /\ Calls[t].pc = "idle"
  BY <1>1, <1>3, OneObserved DEF Calls, Observed
<1>5. c = Atomic!Called(IF Atomic!Valid(r) THEN "pending" ELSE "InvalidArgument", r)
  BY SameItems
<1> HIDE DEF c
<1> QED
  BY <1>2, <1>4, <1>5 DEF Atomic!Start, Calls

LEMMA FinishMaps ==
  ASSUME TypeOK, OneAtATime, HistoryNext, NEW t \in Task, StepOf(t), Cancel(t) \/ Reply(t)
  PROVE  Atomic!Finish(t)
<1>1. task[t].pc \in {"queued"} \cup Status /\ state' = state /\ task'[t] = Idle
  BY DEF Cancel, Reply, TypeOK
<1>2. committed' = committed
  BY <1>1, CommittedKept DEF Status
<1>3. Observed(t)' = Atomic!NoCall
  BY <1>1, SameView DEF Observed, Idle, Call, Status, Atomic!NoCall, Atomic!Called
<1>4. Calls' = [Calls EXCEPT ![t] = Atomic!NoCall] /\ Calls[t].pc # "idle"
  BY <1>1, <1>3, OneObserved DEF Calls, Observed, Status
<1> QED
  BY <1>2, <1>4 DEF Atomic!Finish, Calls

\* The steps that no caller can tell.
LEMMA HiddenMaps ==
  ASSUME TypeOK, OneAtATime, HistoryNext, NEW t \in Task, StepOf(t),
         Acquire(t) \/ Write(t) \/ ReadNodes(t) \/ ReadEdges(t)
  PROVE  UNCHANGED Atomic!vars
<1>1. /\ task[t].pc \in {"queued", "running"} /\ task'[t].pc = "running"
      /\ task'[t].req = task[t].req
  <2>1. CASE Acquire(t)
    BY <2>1, AcquireType DEF Acquire
  <2>2. CASE Write(t)
    BY <2>2, WriteEntry, RecordedCall DEF TrueEntry
  <2>3. CASE ReadNodes(t) \/ ReadEdges(t)
    <3>1. task[t].pc = "running" /\ IsCall(task[t])
      BY <2>3 DEF ReadNodes, ReadEdges, Running, TypeOK
    <3>2. \E n \in {2, 3} : \E v : task' = [task EXCEPT ![t] = Collected(task[t], n, v)]
      BY <2>3 DEF ReadNodes, ReadEdges
    <3>3. PICK n \in {2, 3} : \E v : task'[t] = Collected(task[t], n, v)
      BY <3>2 DEF TypeOK
    <3>4. PICK v : task'[t] = Collected(task[t], n, v)
      BY <3>3
    <3> QED
      BY <3>1, <3>4, CollectedType
  <2> QED
    BY <2>1, <2>2, <2>3
<1>2. Observed(t)' = Observed(t)
  BY <1>1 DEF Observed, Status
<1>3. Calls' = Calls
  BY <1>2, OneObserved DEF Calls
<1>4. committed' = committed
  <2>1. CASE Writing(t)
    BY <1>1, <2>1, HistoryStands DEF Writing
  <2>2. CASE ~ Writing(t)
    <3>1. state' = state
      BY <2>2, WriteEntry DEF Writing, Acquire, ReadNodes, ReadEdges
    <3> QED
      BY <2>2, <3>1, CommittedKept
  <2> QED
    BY <2>1, <2>2
<1> QED
  BY <1>3, <1>4 DEF Atomic!vars, Calls

LEMMA ReturnMaps ==
  ASSUME TypeOK, WritersExclude, ReadsInOrder, OneAtATime, HistoryNext,
         NEW t \in Task, StepOf(t), Return(t)
  PROVE  Atomic!Serve(t)
<1> DEFINE r == task[t].req
<1>1. /\ task[t].pc = "running" /\ task'[t].pc = "Ok" /\ task'[t].req = r
      /\ task'[t].report = task[t].report /\ task'[t].view = task[t].view /\ state' = state
  <2> DEFINE old == task[t]
             c == [old EXCEPT !.pc = "Ok"]
  <2>1. old = [ pc |-> old.pc, req |-> old.req, at |-> old.at,
                report |-> old.report, view |-> old.view ]
    BY DEF TypeOK, IsCall
  <2>2. task' = [task EXCEPT ![t] = c] /\ state' = state /\ old.pc = "running"
    BY DEF Return
  <2> HIDE DEF old
  <2>3. c.pc = "Ok" /\ c.req = old.req /\ c.report = old.report /\ c.view = old.view
    BY <2>1
  <2> HIDE DEF c
  <2>4. task'[t] = c
    BY <2>2 DEF TypeOK
  <2> QED
    BY <2>2, <2>3, <2>4 DEF old
<1>2. committed' = state /\ (~ Writing(t) => committed = state)
  BY <1>1, CommittedAtEnd
<1>3. Served(committed, r, state, "Ok", task[t].report, task[t].view)
  <2>1. CASE Writing(t)
    <3>1. Midway(t)
      BY <1>1, <2>1 DEF OneAtATime, InOrder
    <3>2. task[t].view = NoView
      BY <3>1 DEF Midway
    <3> QED
      BY <2>1, <3>1, <3>2, WriteServed DEF OneAtATime
  <2>2. CASE ~ Writing(t)
    <3>1. task[t].report = <<>>
      BY <1>1, <2>2 DEF OneAtATime, InOrder
    <3> QED
      BY <1>2, <2>2, <3>1, ReadServed
  <2> QED
    BY <2>1, <2>2
<1> QED
  BY <1>1, <1>2, <1>3, ServeMaps DEF Status

LEMMA FailureMaps ==
  ASSUME TypeOK, WritersExclude, OneAtATime, HistoryNext, NEW t \in Task, StepOf(t),
         Unconvertible(t) \/ IncidentMissing(t)
  PROVE  Atomic!Serve(t)
<1> DEFINE r == task[t].req
<1>1. PICK status \in {"Internal", "NotFound"} :
        /\ task'[t] = Call(status, r)
        /\ Unconvertible(t) => status = "Internal"
        /\ IncidentMissing(t) => status = "NotFound"
  BY DEF Unconvertible, IncidentMissing, Fail, TypeOK, AtNode, AtEdge, AtEntry, Running
<1>2. /\ task[t].pc = "running" /\ state' = state
      /\ task'[t].pc = status /\ task'[t].req = r /\ task'[t].report = <<>>
      /\ task'[t].view = NoView
  BY <1>1 DEF Call, Unconvertible, IncidentMissing, Fail, AtNode, AtEdge, AtEntry, Running
<1>3. committed' = state /\ (~ Writing(t) => committed = state)
  BY <1>1, <1>2, CommittedAtEnd
<1>4. Writing(t) => Midway(t)
  BY <1>2 DEF OneAtATime, InOrder
<1>5. Served(committed, r, state, status, <<>>, NoView)
  <2>1. CASE Unconvertible(t)
    <3>1. Writing(t)
      BY <2>1 DEF Unconvertible, AtNode, AtEdge, AtEntry, Running, Writing, WriteRpcs,
         TombstoneRpcs
    <3> QED
      BY <1>1, <1>4, <2>1, <3>1, WriteStopped DEF OneAtATime
  <2>2. CASE IncidentMissing(t)
    <3>1. ~ Registered(committed, r) /\ committed = state
      BY <1>3, <1>4, <2>2 DEF IncidentMissing, Midway
    <3> QED
      BY <1>1, <2>2, <3>1, MissingServed
  <2> QED
    BY <2>1, <2>2
<1> QED
  BY <1>1, <1>2, <1>3, <1>5, ServeMaps DEF Status

LEMMA StepMaps ==
  ASSUME TypeOK, WritersExclude, ReadsInOrder, OneAtATime, [HistoryNext]_historyVars
  PROVE  [Atomic!Next]_Atomic!vars
<1>1. CASE UNCHANGED historyVars
  BY <1>1 DEF historyVars, vars, Atomic!vars, Observed
<1>2. CASE HistoryNext
  <2>1. PICK t \in Task : StepOf(t)
    BY <1>2 DEF HistoryNext, Next, StepOf
  <2>2. CASE \E r \in Requests : Receive(t, r) \/ Reject(t, r)
    <3>1. \E r \in Requests : Atomic!Start(t, r)
      BY <1>2, <2>1, <2>2, StartMaps
    <3> QED
      BY <3>1 DEF Atomic!Next
  <2>3. CASE Cancel(t) \/ Reply(t)
    BY <1>2, <2>1, <2>3, FinishMaps DEF Atomic!Next
  <2>4. CASE Acquire(t) \/ Write(t) \/ ReadNodes(t) \/ ReadEdges(t)
    BY <1>2, <2>1, <2>4, HiddenMaps
  <2>5. CASE Return(t)
    BY <1>2, <2>1, <2>5, ReturnMaps DEF Atomic!Next
  <2>6. CASE Unconvertible(t) \/ IncidentMissing(t)
    BY <1>2, <2>1, <2>6, FailureMaps DEF Atomic!Next
  <2> QED
    BY <2>1, <2>2, <2>3, <2>4, <2>5, <2>6 DEF StepOf, Handler
<1> QED
  BY <1>1, <1>2

LEMMA InitMaps ==
  ASSUME HistoryInit
  PROVE  OneAtATime /\ Atomic!Init
<1>1. \A t \in Task : task[t] = Idle
  BY DEF HistoryInit, Init
<1>2. OneAtATime
  <2>1. Unconflicted(committed)
    BY NewStateType DEF HistoryInit, Init, Unconflicted, NewState, EmptyMap
  <2>2. \A t \in Task : task[t].pc = "idle"
    BY <1>1 DEF Idle, Call
  <2> QED
    BY <2>1, <2>2 DEF OneAtATime, HistoryInit, InOrder
<1>3. \A t \in Task : Observed(t) = Atomic!NoCall
  BY <1>1, SameView DEF Observed, Idle, Call, Status, Atomic!NoCall, Atomic!Called
<1>4. [t \in Task |-> Observed(t)] = [t \in Task |-> Atomic!NoCall]
  BY <1>3
<1>5. committed = Atomic!NewState
  BY SameRequests DEF HistoryInit, Init
<1> QED
  BY <1>2, <1>4, <1>5 DEF Atomic!Init

\* Linearizability: however the calls' loops are interleaved, and whatever they
\* are asked, the store and the answers are those of requests that are served
\* whole, one after the other.
THEOREM OneInstant == HistorySpec => Linearizable
<1>1. HistoryInit => Init /\ OneAtATime /\ Atomic!Init
  BY InitMaps DEF HistoryInit
<1>2. [HistoryNext]_historyVars => [Next]_vars
  BY DEF HistoryNext, historyVars
<1>3. (/\ TypeOK /\ WritersExclude /\ OneAtATime
       /\ TypeOK' /\ SchemaConformance' /\ [HistoryNext]_historyVars)
      => OneAtATime'
  BY OneAtATimeStep
<1>4. (/\ TypeOK /\ WritersExclude /\ ReadsInOrder /\ OneAtATime
       /\ [HistoryNext]_historyVars)
      => [Atomic!Next]_Atomic!vars
  BY StepMaps
<1>5. HistorySpec => Spec
  BY <1>1, <1>2, PTL DEF HistorySpec, Spec
<1> QED
  BY <1>1, <1>3, <1>4, <1>5, TypeCorrect, SchemaKept, MutualExclusion, ReadsKeepOrder, PTL
  DEF HistorySpec, Linearizable, Atomic!Spec
=============================================================================
