----------------------------- MODULE TeeBatch_proofs ----------------------------
(***************************************************************************)
(* Facts about TeeBatch: what a whole request does to the incidents, and   *)
(* that taking one item more of a proposal is what one iteration does.     *)
(***************************************************************************)
EXTENDS TeeBatch, TeeDomain_proofs

\* A set of numbers has a least one.
LEMMA LeastExists ==
  ASSUME NEW S \in SUBSET Nat, S # {}
  PROVE  Least(S) \in S /\ \A j \in S : Least(S) <= j
<1>1. PICK i \in S : \A j \in S : <<j, i>> \notin OpToRel(<, Nat)
  BY NatLessThanWellFounded, WFMin
<1>2. \A j \in S : i <= j
  <2>1. \A j \in Nat : j < i => <<j, i>> \in OpToRel(<, Nat)
    BY Zenon DEF OpToRel
  <2>2. \A j \in S : ~ (j < i)
    BY <1>1, <2>1
  <2> QED
    BY <2>2
<1>3. \E l \in S : \A j \in S : l <= j
  BY <1>2
<1> QED
  BY <1>3 DEF Least

-----------------------------------------------------------------------------
(* Keys and the messages that name them.                                   *)

LEMMA NumberOfEdgeType ==
  /\ \A n \in DOMAIN EdgeType : NumberOf(EdgeType, EdgeType[n]) = n
  /\ \A v \in EdgeTypes :
       NumberOf(EdgeType, v) \in DOMAIN EdgeType /\ EdgeType[NumberOf(EdgeType, v)] = v
<1>1. \A n, m \in DOMAIN EdgeType : EdgeType[n] = EdgeType[m] => n = m
  BY DEF EdgeType
<1>2. \A v \in EdgeTypes : \E n \in DOMAIN EdgeType : EdgeType[n] = v
  BY DEF EdgeTypes
<1>3. ASSUME NEW n \in DOMAIN EdgeType
      PROVE  NumberOf(EdgeType, EdgeType[n]) = n
  BY <1>1 DEF NumberOf
<1> QED
  BY <1>2, <1>3

\* An entry with a known type is the message that its key is answered with.
LEMMA EntryRoundTrip ==
  ASSUME NEW e \in EdgeTombstoneEntry, e.type \in DOMAIN EdgeType
  PROVE  EdgeTombstoneEntryOf(ProtoEdgeKey(e)) = e
<1>1. e = [source |-> e.source, target |-> e.target, type |-> e.type]
  BY DEF EdgeTombstoneEntry
<1> QED
  BY <1>1, NumberOfEdgeType DEF EdgeTombstoneEntryOf, ProtoEdgeKey, EdgeKey

LEMMA EntriesDiffer ==
  ASSUME NEW k \in AnyEdgeKey, NEW l \in AnyEdgeKey,
         EdgeTombstoneEntryOf(k) = EdgeTombstoneEntryOf(l)
  PROVE  k = l
<1>1. /\ k = <<k[1], k[2], k[3]>> /\ k[3] \in EdgeTypes
      /\ l = <<l[1], l[2], l[3]>> /\ l[3] \in EdgeTypes
  BY DEF AnyEdgeKey
<1>2. k[1] = l[1] /\ k[2] = l[2] /\ NumberOf(EdgeType, k[3]) = NumberOf(EdgeType, l[3])
  BY DEF EdgeTombstoneEntryOf
<1>3. k[3] = l[3]
  BY <1>1, <1>2, NumberOfEdgeType
<1> QED
  BY <1>1, <1>2, <1>3

-----------------------------------------------------------------------------
(* What a whole request does to the incidents and to the keys of the edges. *)

\* The part of IsState that eliminations depend on.
Keyed(s) ==
  /\ s = [nodes |-> s.nodes, edges |-> s.edges, incidents |-> s.incidents]
  /\ DOMAIN s.edges \subseteq AnyEdgeKey
  /\ IsMap(s.incidents, Text, IncidentState)

\* The tombstones of an incident; one that is not registered has none.
NodeMarks(s, i) ==
  IF i \in DOMAIN s.incidents THEN s.incidents[i].node_tombstones ELSE {}
EdgeMarks(s, i) ==
  IF i \in DOMAIN s.incidents THEN s.incidents[i].edge_tombstones ELSE {}

\* The tombstones that r merges into the incident i of s.
Names(r) == {Named(r)[j] : j \in DOMAIN Named(r)}
NewMarks(s, r, rpc, i) ==
  IF Registered(s, r) /\ r.rpc = rpc /\ r.incident_id = i THEN Names(r) ELSE {}

LEMMA NamesType ==
  ASSUME NEW r \in Message
  PROVE  /\ r.rpc = "MergeNodeTombstones" => Names(r) \subseteq Text
         /\ r.rpc = "MergeEdgeTombstones" =>
              /\ EntryItems(r) \subseteq DOMAIN r.entries
              /\ \A j \in EntryItems(r) : r.entries[j].type \in DOMAIN EdgeType
              /\ Names(r) \subseteq AnyEdgeKey
<1>1. ASSUME r.rpc = "MergeNodeTombstones"
      PROVE  Names(r) \subseteq Text
  <2>1. r.node_ids \in Seq(Text)
    BY <1>1, MessageForms
  <2>2. \A j \in DOMAIN r.node_ids : r.node_ids[j] \in Text
    BY <2>1, ElementType
  <2> QED
    BY <1>1, <2>2 DEF Names, Named
<1>2. ASSUME r.rpc = "MergeEdgeTombstones"
      PROVE  /\ EntryItems(r) \subseteq DOMAIN r.entries
             /\ \A j \in EntryItems(r) : r.entries[j].type \in DOMAIN EdgeType
             /\ Names(r) \subseteq AnyEdgeKey
  <2>1. r.entries \in Seq(EdgeTombstoneEntry)
    BY <1>2, MessageForms
  <2>2. EntryItems(r) \subseteq DOMAIN r.entries
    BY DEF EntryItems, Prefix
  <2>3. ASSUME NEW j \in EntryItems(r)
        PROVE  /\ r.entries[j].type \in DOMAIN EdgeType
               /\ ProtoEdgeKey(r.entries[j]) \in AnyEdgeKey
    <3>1. j \in DOMAIN r.entries /\ \A l \in 1..j : r.entries[l].type \in DOMAIN EdgeType
      BY DEF EntryItems, Prefix
    <3>2. j \in 1..j
      BY <2>1, <3>1
    <3>3. r.entries[j] \in EdgeTombstoneEntry
      BY <2>1, <3>1, ElementType
    <3> QED
      BY <3>1, <3>2, <3>3, ProtoEdgeKeyType DEF EdgeTombstoneEntry
  <2>4. Names(r) = {ProtoEdgeKey(r.entries[j]) : j \in EntryItems(r)}
    BY <1>2 DEF Names, Named
  <2> QED
    BY <2>2, <2>3, <2>4
<1> QED
  BY <1>1, <1>2

\* The keys of the edges that a proposal adds.
LEMMA EdgeItemsType ==
  ASSUME NEW r \in Message, r.rpc = "MergeHypothesis", NEW j \in EdgeItems(r)
  PROVE  /\ j \in DOMAIN r.edges /\ r.edges[j].type \in DOMAIN EdgeType
         /\ ProtoEdgeKey(r.edges[j]) \in AnyEdgeKey
<1>1. r.edges \in Seq(ProtoEdge)
  BY MessageForms
<1>2. j \in DOMAIN r.edges /\ \A l \in 1..j : r.edges[l].type \in DOMAIN EdgeType
  BY DEF EdgeItems, Prefix
<1>3. j \in 1..j
  BY <1>1, <1>2
<1>4. r.edges[j] \in ProtoEdge
  BY <1>1, <1>2, ElementType
<1> QED
  BY <1>2, <1>3, <1>4, ProtoEdgeKeyType DEF ProtoEdge

LEMMA AfterIncidents ==
  ASSUME NEW s, Keyed(s), NEW r \in Message, NEW now \in Time
  PROVE  /\ Keyed(After(s, r, now))
         /\ DOMAIN s.incidents \subseteq DOMAIN After(s, r, now).incidents
         /\ \A i : NodeMarks(After(s, r, now), i)
                    = NodeMarks(s, i) \cup NewMarks(s, r, "MergeNodeTombstones", i)
         /\ \A i : EdgeMarks(After(s, r, now), i)
                    = EdgeMarks(s, i) \cup NewMarks(s, r, "MergeEdgeTombstones", i)
<1> DEFINE q == After(s, r, now)
           Goal == /\ Keyed(q)
                   /\ DOMAIN s.incidents \subseteq DOMAIN q.incidents
                   /\ \A i : NodeMarks(q, i)
                         = NodeMarks(s, i) \cup NewMarks(s, r, "MergeNodeTombstones", i)
                   /\ \A i : EdgeMarks(q, i)
                         = EdgeMarks(s, i) \cup NewMarks(s, r, "MergeEdgeTombstones", i)
<1>1. CASE q = s /\ ~ (Registered(s, r) /\ r.rpc \in TombstoneRpcs)
  BY <1>1 DEF NewMarks, TombstoneRpcs
<1>2. CASE Registered(s, r) /\ r.rpc = "MergeHypothesis"
  <2>1. q = Merged(s, r)
    BY <1>2 DEF After, TombstoneRpcs
  <2> HIDE DEF q
  <2>2. /\ q.incidents = s.incidents
        /\ DOMAIN q.edges = DOMAIN s.edges \cup {ProtoEdgeKey(r.edges[j]) : j \in EdgeItems(r)}
        /\ q = [nodes |-> q.nodes, edges |-> q.edges, incidents |-> q.incidents]
    <3> DEFINE ns == [id \in DOMAIN s.nodes \cup {r.nodes[j].id : j \in NodeItems(r)}
                        |-> NodeAfter(s, r, id)]
               es == [k \in DOMAIN s.edges \cup {ProtoEdgeKey(r.edges[j]) : j \in EdgeItems(r)}
                        |-> EdgeAfter(s, r, k)]
    <3>1. DOMAIN es = DOMAIN s.edges \cup {ProtoEdgeKey(r.edges[j]) : j \in EdgeItems(r)}
      OBVIOUS
    <3>2. q = [s EXCEPT !.nodes = ns, !.edges = es]
      BY <2>1 DEF Merged
    <3> HIDE DEF ns, es
    <3>3. q = [nodes |-> ns, edges |-> es, incidents |-> s.incidents]
      BY <3>2 DEF Keyed
    <3> QED
      BY <3>1, <3>3
  <2>3. Keyed(q)
    BY <1>2, <2>2, EdgeItemsType DEF Keyed
  <2>4. \A i : NodeMarks(q, i) = NodeMarks(s, i) /\ EdgeMarks(q, i) = EdgeMarks(s, i)
    BY <2>2 DEF NodeMarks, EdgeMarks
  <2> QED
    BY <1>2, <2>2, <2>3, <2>4 DEF NewMarks, q
<1>3. CASE Registered(s, r) /\ r.rpc = "MergeNodeTombstones"
  <2> DEFINE x == r.incident_id
             m == [s.incidents EXCEPT ![x].node_tombstones = @ \cup Names(r)]
  <2>1. x \in DOMAIN s.incidents /\ Names(r) \subseteq Text
    BY <1>3, NamesType DEF Registered, IncidentRpcs, TombstoneRpcs
  <2>2. q = [s EXCEPT !.incidents = m]
    BY <1>3 DEF After, Tombstoned, Names, TombstoneRpcs
  <2>3. q = [nodes |-> s.nodes, edges |-> s.edges, incidents |-> m]
    BY <2>2 DEF Keyed
  <2>4. s.incidents[x] \in IncidentState /\ IsMap(s.incidents, Text, IncidentState)
    BY <2>1 DEF Keyed, IsMap
  <2>5. [s.incidents[x] EXCEPT !.node_tombstones = @ \cup Names(r)] \in IncidentState
    BY <2>1, <2>4 DEF IncidentState
  <2>6. /\ DOMAIN m = DOMAIN s.incidents
        /\ m[x].node_tombstones = s.incidents[x].node_tombstones \cup Names(r)
        /\ m[x].edge_tombstones = s.incidents[x].edge_tombstones
        /\ \A i \in DOMAIN s.incidents : i # x => m[i] = s.incidents[i]
        /\ IsMap(m, Text, IncidentState)
    BY <2>1, <2>4, <2>5 DEF IsMap, IncidentState
  <2>7. Keyed(q)
    BY <2>3, <2>6 DEF Keyed
  <2> HIDE DEF m, q
  <2>8. \A i : /\ NodeMarks(q, i) = NodeMarks(s, i) \cup (IF i = x THEN Names(r) ELSE {})
               /\ EdgeMarks(q, i) = EdgeMarks(s, i)
    BY <2>1, <2>3, <2>6 DEF NodeMarks, EdgeMarks
  <2>9. \A i : /\ NewMarks(s, r, "MergeNodeTombstones", i) = IF i = x THEN Names(r) ELSE {}
               /\ NewMarks(s, r, "MergeEdgeTombstones", i) = {}
    BY <1>3 DEF NewMarks
  <2> HIDE DEF x
  <2> QED
    BY <2>3, <2>6, <2>7, <2>8, <2>9 DEF q
<1>4. CASE Registered(s, r) /\ r.rpc = "MergeEdgeTombstones"
  <2> DEFINE x == r.incident_id
             m == [s.incidents EXCEPT ![x].edge_tombstones = @ \cup Names(r)]
  <2>1. x \in DOMAIN s.incidents /\ Names(r) \subseteq AnyEdgeKey
    BY <1>4, NamesType DEF Registered, IncidentRpcs, TombstoneRpcs
  <2>2. q = [s EXCEPT !.incidents = m]
    BY <1>4 DEF After, Tombstoned, Names, TombstoneRpcs
  <2>3. q = [nodes |-> s.nodes, edges |-> s.edges, incidents |-> m]
    BY <2>2 DEF Keyed
  <2>4. s.incidents[x] \in IncidentState /\ IsMap(s.incidents, Text, IncidentState)
    BY <2>1 DEF Keyed, IsMap
  <2>5. [s.incidents[x] EXCEPT !.edge_tombstones = @ \cup Names(r)] \in IncidentState
    BY <2>1, <2>4 DEF IncidentState
  <2>6. /\ DOMAIN m = DOMAIN s.incidents
        /\ m[x].edge_tombstones = s.incidents[x].edge_tombstones \cup Names(r)
        /\ m[x].node_tombstones = s.incidents[x].node_tombstones
        /\ \A i \in DOMAIN s.incidents : i # x => m[i] = s.incidents[i]
        /\ IsMap(m, Text, IncidentState)
    BY <2>1, <2>4, <2>5 DEF IsMap, IncidentState
  <2>7. Keyed(q)
    BY <2>3, <2>6 DEF Keyed
  <2> HIDE DEF m, q
  <2>8. \A i : /\ EdgeMarks(q, i) = EdgeMarks(s, i) \cup (IF i = x THEN Names(r) ELSE {})
               /\ NodeMarks(q, i) = NodeMarks(s, i)
    BY <2>1, <2>3, <2>6 DEF NodeMarks, EdgeMarks
  <2>9. \A i : /\ NewMarks(s, r, "MergeEdgeTombstones", i) = IF i = x THEN Names(r) ELSE {}
               /\ NewMarks(s, r, "MergeNodeTombstones", i) = {}
    BY <1>4 DEF NewMarks
  <2> HIDE DEF x
  <2> QED
    BY <2>3, <2>6, <2>7, <2>8, <2>9 DEF q
<1>5. CASE Registered(s, r) /\ r.rpc = "CreateIncident" /\ r.incident_id \notin DOMAIN s.incidents
  <2> DEFINE x == r.incident_id
             m == Put(s.incidents, x, NewIncident(now))
  <2>1. q = [s EXCEPT !.incidents = m]
    BY <1>5 DEF After, TombstoneRpcs
  <2>2. q = [nodes |-> s.nodes, edges |-> s.edges, incidents |-> m]
    BY <2>1 DEF Keyed
  <2>3. x \in Text /\ NewIncident(now) \in IncidentState
    BY <1>5, MessageForms DEF NewIncident, IncidentState
  <2>4. IsMap(m, Text, IncidentState)
    BY <2>3 DEF Keyed, IsMap, Put
  <2>5. Keyed(q)
    BY <2>2, <2>4 DEF Keyed
  <2>6. /\ DOMAIN m = DOMAIN s.incidents \cup {x}
        /\ m[x].node_tombstones = {} /\ m[x].edge_tombstones = {}
        /\ \A i \in DOMAIN s.incidents : m[i] = s.incidents[i]
    BY <1>5 DEF Put, NewIncident
  <2> HIDE DEF m, q
  <2>7. \A i : NodeMarks(q, i) = NodeMarks(s, i) /\ EdgeMarks(q, i) = EdgeMarks(s, i)
    BY <1>5, <2>2, <2>6 DEF NodeMarks, EdgeMarks
  <2>8. \A i : /\ NewMarks(s, r, "MergeEdgeTombstones", i) = {}
               /\ NewMarks(s, r, "MergeNodeTombstones", i) = {}
    BY <1>5 DEF NewMarks
  <2> QED
    BY <2>2, <2>5, <2>6, <2>7, <2>8 DEF q
<1>6. q = s \/ (/\ Registered(s, r)
                /\ \/ r.rpc \in TombstoneRpcs \cup {"MergeHypothesis"}
                   \/ r.rpc = "CreateIncident" /\ r.incident_id \notin DOMAIN s.incidents)
  BY DEF After, TombstoneRpcs, Registered, IncidentRpcs
<1>7. Goal
  BY <1>1, <1>2, <1>3, <1>4, <1>5, <1>6 DEF TombstoneRpcs
<1> QED
  BY <1>7

-----------------------------------------------------------------------------
(* A proposal, item by item: what Merged makes of the store when it stops   *)
(* after the first a nodes, or after the first b edges.                     *)

Accepted(s, r, a, id) == {i \in 1..a : r.nodes[i].id = id /\ Agrees(s, r, i)}

NodeUpTo(s, r, a, id) ==
  [ node_type    |-> Anchor(s, r, id).node_type,
    label        |-> Anchor(s, r, id).label,
    hypothetical |-> /\ Anchor(s, r, id).hypothetical
                     /\ \A i \in Accepted(s, r, a, id) : r.nodes[i].hypothetical,
    provenance   |->
      Accumulate(IF id \in DOMAIN s.nodes THEN Anchor(s, r, id).provenance ELSE EmptyMap,
                 r.nodes, Accepted(s, r, a, id)) ]

NodesUpTo(s, r, a) ==
  [id \in DOMAIN s.nodes \cup {r.nodes[i].id : i \in 1..a} |-> NodeUpTo(s, r, a, id)]

EdgesFor(r, b, k) == {j \in 1..b : ProtoEdgeKey(r.edges[j]) = k}

EdgeUpTo(s, r, b, k) ==
  Accumulate(IF k \in DOMAIN s.edges THEN s.edges[k] ELSE EmptyMap, r.edges,
             EdgesFor(r, b, k))

EdgesUpTo(s, r, b) ==
  [k \in DOMAIN s.edges \cup {ProtoEdgeKey(r.edges[j]) : j \in 1..b} |->
     EdgeUpTo(s, r, b, k)]

LEMMA MergedUpTo ==
  ASSUME NEW s, NEW r, NEW a, NEW b, NodeItems(r) = 1..a, EdgeItems(r) = 1..b
  PROVE  Merged(s, r) = [s EXCEPT !.nodes = NodesUpTo(s, r, a), !.edges = EdgesUpTo(s, r, b)]
<1>1. ASSUME NEW id
      PROVE  NodeAfter(s, r, id) = NodeUpTo(s, r, a, id)
  <2>1. {i \in NodeItemsFor(r, id) : Agrees(s, r, i)} = Accepted(s, r, a, id)
    BY DEF NodeItemsFor, Accepted
  <2> QED
    BY <2>1 DEF NodeAfter, NodeUpTo
<1>2. ASSUME NEW k
      PROVE  EdgeAfter(s, r, k) = EdgeUpTo(s, r, b, k)
  <2>1. EdgeItemsFor(r, k) = EdgesFor(r, b, k)
    BY DEF EdgeItemsFor, EdgesFor
  <2> QED
    BY <2>1 DEF EdgeAfter, EdgeUpTo
<1>3. [id \in DOMAIN s.nodes \cup {r.nodes[i].id : i \in NodeItems(r)} |-> NodeAfter(s, r, id)]
        = NodesUpTo(s, r, a)
  BY <1>1 DEF NodesUpTo
<1>4. [k \in DOMAIN s.edges \cup {ProtoEdgeKey(r.edges[i]) : i \in EdgeItems(r)} |->
         EdgeAfter(s, r, k)]
        = EdgesUpTo(s, r, b)
  BY <1>2 DEF EdgesUpTo
<1> QED
  BY <1>3, <1>4 DEF Merged

-----------------------------------------------------------------------------
(* Provenance.                                                             *)

LEMMA AccumulateNothing ==
  ASSUME NEW old, old = [k \in DOMAIN old |-> old[k]], NEW lists
  PROVE  Accumulate(old, lists, {}) = old
BY DEF Accumulate

LEMMA LeastSame ==
  ASSUME NEW S \in SUBSET Nat, NEW T \in SUBSET Nat, NEW m \in Nat,
         S # {}, T = S \cup {m}, \A i \in S : i < m
  PROVE  Least(T) = Least(S)
<1>1. Least(S) \in S /\ \A j \in S : Least(S) <= j
  BY LeastExists
<1>2. Least(T) \in T /\ \A j \in T : Least(T) <= j
  BY LeastExists
<1> DEFINE x == Least(S)
           y == Least(T)
<1>3. x \in Nat /\ y \in Nat /\ x \in S /\ y \in T
  BY <1>1, <1>2
<1>4. y <= x /\ x < m
  BY <1>1, <1>2
<1>5. \A j \in S : x <= j
  BY <1>1
<1> HIDE DEF x, y
<1>6. y # m
  BY <1>3, <1>4
<1>7. y \in S
  BY <1>3, <1>6
<1>8. x <= y
  BY <1>5, <1>7
<1>9. x = y
  BY <1>3, <1>4, <1>8
<1> QED
  BY <1>9 DEF x, y

LEMMA LeastOfOne ==
  ASSUME NEW m \in Nat
  PROVE  Least({m}) = m
BY LeastExists

\* One more list of provenance, after all the others.
LEMMA AccumulateMore ==
  ASSUME NEW old, NEW lists, NEW I \in SUBSET Nat, NEW m \in Nat, \A i \in I : i < m
  PROVE  Accumulate(old, lists, I \cup {m})
           = SetUnion(Accumulate(old, lists, I), CollectProvenance(lists[m].provenance))
<1> DEFINE p == CollectProvenance(lists[m].provenance)
           ids(i) == Identities(lists[i].provenance)
           J == I \cup {m}
           before == Accumulate(old, lists, I)
           after == Accumulate(old, lists, J)
           holders(S, k) == {j \in S : k \in ids(j)}
<1>1. DOMAIN p = ids(m)
  BY DEF CollectProvenance
<1>2. /\ DOMAIN before = DOMAIN old \cup UNION {ids(i) : i \in I}
      /\ DOMAIN after = DOMAIN old \cup UNION {ids(i) : i \in J}
  BY DEF Accumulate
<1>3. DOMAIN after = DOMAIN before \cup DOMAIN p
  BY <1>1, <1>2
<1>4. ASSUME NEW k \in DOMAIN before
      PROVE  after[k] = before[k]
  <2>1. CASE k \in DOMAIN old
    BY <2>1 DEF Accumulate
  <2>2. CASE k \notin DOMAIN old
    <3>1. holders(I, k) # {}
      BY <1>2, <2>2
    <3>2. Least(holders(J, k)) = Least(holders(I, k))
      <4>1. CASE k \in ids(m)
        <5>1. holders(J, k) = holders(I, k) \cup {m}
          BY <4>1
        <5>2. holders(I, k) \in SUBSET Nat /\ holders(J, k) \in SUBSET Nat
          OBVIOUS
        <5>3. \A i \in holders(I, k) : i < m
          OBVIOUS
        <5> HIDE DEF holders
        <5> QED
          BY <3>1, <5>1, <5>2, <5>3, LeastSame
      <4>2. CASE k \notin ids(m)
        <5>1. holders(J, k) = holders(I, k)
          BY <4>2
        <5> QED
          BY <5>1
      <4> QED
        BY <4>1, <4>2
    <3>3. /\ FirstTimestamp(lists, J, k) = CollectProvenance(lists[Least(holders(J, k))].provenance)[k]
          /\ FirstTimestamp(lists, I, k) = CollectProvenance(lists[Least(holders(I, k))].provenance)[k]
      BY DEF FirstTimestamp
    <3>4. FirstTimestamp(lists, J, k) = FirstTimestamp(lists, I, k)
      BY <3>2, <3>3
    <3>5. k \in DOMAIN after
      BY <1>3
    <3>6. after[k] = FirstTimestamp(lists, J, k) /\ before[k] = FirstTimestamp(lists, I, k)
      BY <1>2, <2>2, <3>5 DEF Accumulate
    <3> QED
      BY <3>4, <3>6
  <2> QED
    BY <2>1, <2>2
<1>5. ASSUME NEW k \in DOMAIN p, k \notin DOMAIN before
      PROVE  after[k] = p[k]
  <2>1. k \notin DOMAIN old /\ k \in DOMAIN after
    BY <1>2, <1>3, <1>5
  <2>2. holders(J, k) = {m}
    BY <1>1, <1>2, <1>5
  <2>3. FirstTimestamp(lists, J, k) = CollectProvenance(lists[Least(holders(J, k))].provenance)[k]
    BY DEF FirstTimestamp
  <2>4. after[k] = FirstTimestamp(lists, J, k)
    BY <1>2, <2>1 DEF Accumulate
  <2> HIDE DEF holders
  <2> QED
    BY <2>2, <2>3, <2>4, LeastOfOne
<1>6. after = [k \in DOMAIN after |-> after[k]]
  BY DEF Accumulate
<1> HIDE DEF before, after, p
<1>7. SetUnion(before, p) = [k \in DOMAIN after |-> after[k]]
  BY <1>3, <1>4, <1>5 DEF SetUnion
<1> QED
  BY <1>6, <1>7 DEF before, after, p

LEMMA SetUnionNothing ==
  ASSUME NEW ps
  PROVE  SetUnion(EmptyMap, CollectProvenance(ps)) = CollectProvenance(ps)
BY DEF SetUnion, EmptyMap, CollectProvenance

-----------------------------------------------------------------------------
(* The store that a proposal starts from.                                  *)

\* No stored node is in conflict.
Unconflicted(s) ==
  IsState(s) /\ \A id \in DOMAIN s.nodes : ~ HasConflict(s.nodes[id])

\* The first a nodes of r have types that are in the schema.
NodesKnown(r, a) ==
  /\ r \in Message /\ r.rpc = "MergeHypothesis"
  /\ a \in Nat /\ a <= Len(r.nodes)
  /\ \A j \in 1..a : r.nodes[j].type \in DOMAIN NodeType

\* All nodes of r do, and its first b edges.
EdgesKnown(r, b) ==
  /\ NodesKnown(r, Len(r.nodes))
  /\ b \in Nat /\ b <= Len(r.edges)
  /\ \A j \in 1..b : r.edges[j].type \in DOMAIN EdgeType

LEMMA KnownNodes ==
  ASSUME NEW r, NEW a, NodesKnown(r, a)
  PROVE  /\ DOMAIN r.nodes = 1..Len(r.nodes) /\ Len(r.nodes) \in Nat
         /\ 1..a \subseteq NodeItems(r) /\ 1..a \subseteq DOMAIN r.nodes
         /\ \A j \in 1..a : r.nodes[j] \in ProtoNode /\ r.nodes[j].type \in DOMAIN NodeType
<1>1. r.nodes \in Seq(ProtoNode)
  BY MessageForms DEF NodesKnown
<1>2. DOMAIN r.nodes = 1..Len(r.nodes) /\ Len(r.nodes) \in Nat
  BY <1>1
<1>3. 1..a \subseteq DOMAIN r.nodes
  BY <1>2 DEF NodesKnown
<1>4. \A j \in 1..a : 1..j \subseteq 1..a
  BY DEF NodesKnown
<1>5. 1..a \subseteq NodeItems(r)
  BY <1>3, <1>4 DEF NodeItems, Prefix, NodesKnown
<1>6. \A j \in 1..a : r.nodes[j] \in ProtoNode
  BY <1>1, <1>3, ElementType
<1> QED
  BY <1>2, <1>3, <1>5, <1>6 DEF NodesKnown

\* An item before the first unknown type has a known one.
LEMMA NodeItemType ==
  ASSUME NEW r \in Message, r.rpc = "MergeHypothesis", NEW j \in NodeItems(r)
  PROVE  /\ j \in DOMAIN r.nodes /\ j \in Nat /\ r.nodes[j] \in ProtoNode
         /\ r.nodes[j].type \in DOMAIN NodeType
<1>1. r.nodes \in Seq(ProtoNode)
  BY MessageForms
<1>2. j \in DOMAIN r.nodes /\ \A l \in 1..j : r.nodes[l].type \in DOMAIN NodeType
  BY DEF NodeItems, Prefix
<1>3. j \in 1..j /\ j \in Nat
  BY <1>1, <1>2
<1> QED
  BY <1>1, <1>2, <1>3, ElementType

\* The first value ever written for a node.
LEMMA AnchorType ==
  ASSUME NEW s, Unconflicted(s), NEW r \in Message, r.rpc = "MergeHypothesis",
         NEW id \in DOMAIN s.nodes \cup {r.nodes[i].id : i \in NodeItems(r)}
  PROVE  IsNode(Anchor(s, r, id)) /\ ~ HasConflict(Anchor(s, r, id))
<1>1. CASE id \in DOMAIN s.nodes
  BY <1>1 DEF Anchor, Unconflicted, IsState
<1>2. CASE id \notin DOMAIN s.nodes
  <2> DEFINE I == NodeItemsFor(r, id)
             n == r.nodes[Least(I)]
  <2>1. I # {} /\ I \in SUBSET Nat
    BY <1>2, NodeItemType DEF NodeItemsFor
  <2>2. Least(I) \in I
    BY <2>1, LeastExists
  <2>3. n \in ProtoNode /\ n.type \in DOMAIN NodeType
    BY <2>2, NodeItemType DEF NodeItemsFor
  <2>4. Anchor(s, r, id) = ProtoNodeToDomain(n)
    BY <1>2 DEF Anchor
  <2> HIDE DEF n
  <2>5. IsNode(ProtoNodeToDomain(n))
    BY <2>3, ProtoNodeToDomainType
  <2>6. NodeType[n.type] \in NodeTypes /\ n.label \in Text
    BY <2>3, NodeTypeOf DEF ProtoNode
  <2>7. ~ HasConflict(ProtoNodeToDomain(n))
    BY <2>6, DomainAssumption DEF ProtoNodeToDomain, HasConflict
  <2> QED
    BY <2>4, <2>5, <2>7
<1> QED
  BY <1>1, <1>2

LEMMA NothingUpTo ==
  ASSUME NEW s, IsState(s), NEW r
  PROVE  NodesUpTo(s, r, 0) = s.nodes /\ EdgesUpTo(s, r, 0) = s.edges
<1>1. 1..0 = {}
  OBVIOUS
<1>2. ASSUME NEW id \in DOMAIN s.nodes
      PROVE  NodeUpTo(s, r, 0, id) = s.nodes[id]
  <2> DEFINE l == s.nodes[id]
  <2>1. IsNode(l)
    BY DEF IsState
  <2>2. /\ l = [ node_type |-> l.node_type, label |-> l.label,
                 hypothetical |-> l.hypothetical, provenance |-> l.provenance ]
        /\ l.hypothetical \in BOOLEAN
        /\ l.provenance = [k \in DOMAIN l.provenance |-> l.provenance[k]]
    BY <2>1 DEF IsNode, IsProvenance, IsMap
  <2>3. Anchor(s, r, id) = l
    BY DEF Anchor
  <2>4. Accepted(s, r, 0, id) = {}
    BY <1>1 DEF Accepted
  <2> HIDE DEF l
  <2>5. Accumulate(l.provenance, r.nodes, {}) = l.provenance
    BY <2>2, AccumulateNothing
  <2> QED
    BY <2>2, <2>3, <2>4, <2>5 DEF NodeUpTo, l
<1>3. ASSUME NEW k \in DOMAIN s.edges
      PROVE  EdgeUpTo(s, r, 0, k) = s.edges[k]
  <2>1. EdgesFor(r, 0, k) = {}
    BY <1>1 DEF EdgesFor
  <2>2. s.edges[k] = [x \in DOMAIN s.edges[k] |-> s.edges[k][x]]
    BY DEF IsState, IsProvenance, IsMap
  <2> QED
    BY <2>1, <2>2, AccumulateNothing DEF EdgeUpTo
<1>4. NodesUpTo(s, r, 0) = [id \in DOMAIN s.nodes |-> s.nodes[id]]
  BY <1>1, <1>2 DEF NodesUpTo
<1>5. EdgesUpTo(s, r, 0) = [k \in DOMAIN s.edges |-> s.edges[k]]
  BY <1>1, <1>3 DEF EdgesUpTo
<1> QED
  BY <1>4, <1>5 DEF IsState

-----------------------------------------------------------------------------
(* One node more.                                                          *)

\* An id that the first a nodes do not have is left alone.
LEMMA OtherNodes ==
  ASSUME NEW s, NEW r, NEW m \in Nat \ {0}, NEW id, r.nodes[m].id # id
  PROVE  NodeUpTo(s, r, m, id) = NodeUpTo(s, r, m - 1, id)
<1>1. Accepted(s, r, m, id) = Accepted(s, r, m - 1, id)
  BY DEF Accepted
<1> QED
  BY <1>1 DEF NodeUpTo

LEMMA AcceptedSoFar ==
  ASSUME NEW s, NEW r, NEW m \in Nat \ {0}
  PROVE  LET id  == r.nodes[m].id
             old == Accepted(s, r, m - 1, id)
         IN  /\ old \in SUBSET Nat /\ \A i \in old : i < m
             /\ Accepted(s, r, m, id) = IF Agrees(s, r, m) THEN old \cup {m} ELSE old
<1>1. 1..m = (1..(m - 1)) \cup {m}
  OBVIOUS
<1>2. \A i \in 1..(m - 1) : i \in Nat /\ i < m
  OBVIOUS
<1> QED
  BY <1>1, <1>2 DEF Accepted

\* The node m becomes v, or leaves the stored one alone.
LEMMA OneNodePut ==
  ASSUME NEW s, NEW r, NEW m \in Nat \ {0}
  PROVE  NodesUpTo(s, r, m)
           = Put(NodesUpTo(s, r, m - 1), r.nodes[m].id, NodeUpTo(s, r, m, r.nodes[m].id))
<1> DEFINE id == r.nodes[m].id
           N == NodesUpTo(s, r, m - 1)
           M == NodesUpTo(s, r, m)
<1>1. DOMAIN M = DOMAIN N \cup {id}
  <2>1. 1..m = (1..(m - 1)) \cup {m}
    OBVIOUS
  <2>2. {r.nodes[i].id : i \in 1..m} = {r.nodes[i].id : i \in 1..(m - 1)} \cup {id}
    BY <2>1
  <2> QED
    BY <2>2 DEF NodesUpTo
<1>2. M = [x \in DOMAIN M |-> NodeUpTo(s, r, m, x)]
  BY DEF NodesUpTo
<1>3. \A x \in DOMAIN N : N[x] = NodeUpTo(s, r, m - 1, x)
  BY DEF NodesUpTo
<1>4. \A x : x # id => NodeUpTo(s, r, m, x) = NodeUpTo(s, r, m - 1, x)
  BY OtherNodes
<1> HIDE DEF N, M, id
<1>5. Put(N, id, NodeUpTo(s, r, m, id)) = [x \in DOMAIN M |-> NodeUpTo(s, r, m, x)]
  BY <1>1, <1>3, <1>4 DEF Put
<1> QED
  BY <1>2, <1>5 DEF N, M, id

LEMMA FirstNode ==
  ASSUME NEW s, Unconflicted(s), NEW r, NEW m \in Nat \ {0}, NodesKnown(r, m),
         r.nodes[m].id \notin DOMAIN NodesUpTo(s, r, m - 1)
  PROVE  /\ NodesUpTo(s, r, m) = Put(NodesUpTo(s, r, m - 1), r.nodes[m].id,
                                     ProtoNodeToDomain(r.nodes[m]))
         /\ NodeEntry(s, r, m) = [id |-> r.nodes[m].id, outcome |-> "created"]
<1> DEFINE n  == r.nodes[m]
           id == n.id
           p  == ProtoNodeToDomain(n)
           I  == NodeItemsFor(r, id)
<1>1. /\ m \in NodeItems(r) /\ n \in ProtoNode
      /\ 1..(m - 1) \subseteq NodeItems(r)
  BY KnownNodes
<1>2. /\ id \notin DOMAIN s.nodes
      /\ \A i \in 1..(m - 1) : r.nodes[i].id # id
  BY DEF NodesUpTo
<1>3. Least(I) = m
  <2>1. m \in I /\ I \in SUBSET Nat /\ I # {}
    BY <1>1, NodeItemType DEF NodeItemsFor, NodesKnown
  <2>2. Least(I) \in I /\ Least(I) <= m
    BY <2>1, LeastExists
  <2>3. \A i \in NodeItems(r) : i \in 1..Len(r.nodes)
    BY NodeItemType, KnownNodes DEF NodesKnown
  <2>4. Least(I) \in 1..Len(r.nodes) /\ r.nodes[Least(I)].id = id /\ Len(r.nodes) \in Nat
    BY <2>2, <2>3, KnownNodes DEF NodeItemsFor
  <2> DEFINE l == Least(I)
  <2>5. l \in Nat /\ l >= 1 /\ l <= m /\ l \notin 1..(m - 1)
    BY <1>2, <2>2, <2>4
  <2> HIDE DEF l
  <2>6. l = m
    BY <2>5
  <2> QED
    BY <2>6 DEF l
<1>4. Anchor(s, r, id) = p
  BY <1>2, <1>3 DEF Anchor
<1>5. Agrees(s, r, m)
  BY <1>4 DEF Agrees
<1>6. Accepted(s, r, m - 1, id) = {}
  BY <1>2 DEF Accepted
<1>7. Accepted(s, r, m, id) = {m}
  BY <1>5, <1>6, AcceptedSoFar
<1>8. Accumulate(EmptyMap, r.nodes, {m}) = CollectProvenance(n.provenance)
  <2>1. Accumulate(EmptyMap, r.nodes, {}) = EmptyMap
    BY AccumulateNothing DEF EmptyMap
  <2>2. Accumulate(EmptyMap, r.nodes, {} \cup {m})
          = SetUnion(Accumulate(EmptyMap, r.nodes, {}), CollectProvenance(n.provenance))
    BY AccumulateMore
  <2>3. {} \cup {m} = {m}
    OBVIOUS
  <2> QED
    BY <2>1, <2>2, <2>3, SetUnionNothing
<1>9. /\ p.node_type = NodeType[n.type] /\ p.label = n.label
      /\ p.hypothetical = n.hypothetical /\ p.provenance = CollectProvenance(n.provenance)
      /\ n.hypothetical \in BOOLEAN
      /\ p = [ node_type |-> p.node_type, label |-> p.label,
               hypothetical |-> p.hypothetical, provenance |-> p.provenance ]
  BY <1>1 DEF ProtoNodeToDomain, ProtoNode
<1>10. (p.hypothetical /\ \A i \in {m} : r.nodes[i].hypothetical) = p.hypothetical
  BY <1>9
<1>11. NodeUpTo(s, r, m, id) = p
  <2> HIDE DEF p
  <2> QED
    BY <1>2, <1>4, <1>7, <1>8, <1>9, <1>10 DEF NodeUpTo
<1>12. NodeEntry(s, r, m) = [id |-> id, outcome |-> "created"]
  BY <1>2, <1>3, <1>5 DEF NodeEntry
<1> QED
  BY <1>11, <1>12, OneNodePut

\* A node that is there keeps the type and the label it was first given.
LEMMA NodeAgain ==
  ASSUME NEW s, Unconflicted(s), NEW r, NEW m \in Nat \ {0}, NodesKnown(r, m),
         r.nodes[m].id \in DOMAIN NodesUpTo(s, r, m - 1)
  PROVE  LET id  == r.nodes[m].id
             old == NodesUpTo(s, r, m - 1)[id]
             anchor == Anchor(s, r, id)
             new == NodeMerge(old, ProtoNodeToDomain(r.nodes[m]))
         IN  /\ old = NodeUpTo(s, r, m - 1, id)
             /\ old.node_type = anchor.node_type /\ old.label = anchor.label
             /\ anchor.node_type # Top /\ anchor.label # Top
             /\ new.node_type = IF NodeType[r.nodes[m].type] = anchor.node_type
                                THEN anchor.node_type ELSE Top
             /\ new.label = IF r.nodes[m].label = anchor.label THEN anchor.label ELSE Top
             /\ Agrees(s, r, m) <=> ~ HasConflict(new)
<1> DEFINE n  == r.nodes[m]
           id == n.id
           p  == ProtoNodeToDomain(n)
           old == NodesUpTo(s, r, m - 1)[id]
           anchor == Anchor(s, r, id)
           new == NodeMerge(old, p)
<1>1. m \in NodeItems(r) /\ r \in Message /\ r.rpc = "MergeHypothesis"
  BY KnownNodes DEF NodesKnown
<1>2. ~ HasConflict(anchor)
  <2>1. id \in {r.nodes[i].id : i \in NodeItems(r)}
    BY <1>1
  <2> HIDE DEF id
  <2> QED
    BY <1>1, <2>1, AnchorType
<1>3. old = NodeUpTo(s, r, m - 1, id)
  BY DEF NodesUpTo
<1>4. old.node_type = anchor.node_type /\ old.label = anchor.label
  BY <1>3 DEF NodeUpTo
<1>5. p.node_type = NodeType[n.type] /\ p.label = n.label
  BY DEF ProtoNodeToDomain
<1>6. /\ new.node_type = ConflictMerge(old.node_type, p.node_type)
      /\ new.label = ConflictMerge(old.label, p.label)
  BY DEF NodeMerge
<1>7. Agrees(s, r, m) <=> p.node_type = anchor.node_type /\ p.label = anchor.label
  BY DEF Agrees
<1> HIDE DEF old, p, anchor, new
<1>8. anchor.node_type # Top /\ anchor.label # Top
  BY <1>2 DEF HasConflict
<1>9. /\ new.node_type = IF NodeType[n.type] = anchor.node_type THEN anchor.node_type ELSE Top
      /\ new.label = IF n.label = anchor.label THEN anchor.label ELSE Top
  BY <1>4, <1>5, <1>6 DEF ConflictMerge
<1>10. Agrees(s, r, m) <=> ~ HasConflict(new)
  BY <1>5, <1>7, <1>8, <1>9 DEF HasConflict
<1> QED
  BY <1>3, <1>4, <1>8, <1>9, <1>10 DEF old, p, anchor, new

LEMMA ConfirmedNode ==
  ASSUME NEW s, Unconflicted(s), NEW r, NEW m \in Nat \ {0}, NodesKnown(r, m),
         r.nodes[m].id \in DOMAIN NodesUpTo(s, r, m - 1),
         Agrees(s, r, m)
  PROVE  /\ NodesUpTo(s, r, m)
              = Put(NodesUpTo(s, r, m - 1), r.nodes[m].id,
                    NodeMerge(NodesUpTo(s, r, m - 1)[r.nodes[m].id],
                              ProtoNodeToDomain(r.nodes[m])))
         /\ NodeEntry(s, r, m) = [id |-> r.nodes[m].id, outcome |-> "merged"]
<1> DEFINE n  == r.nodes[m]
           id == n.id
           p  == ProtoNodeToDomain(n)
           old == NodesUpTo(s, r, m - 1)[id]
           anchor == Anchor(s, r, id)
           before == IF id \in DOMAIN s.nodes THEN anchor.provenance ELSE EmptyMap
           acc == Accepted(s, r, m - 1, id)
           l == NodeUpTo(s, r, m, id)
<1>1. /\ m \in NodeItems(r) /\ n \in ProtoNode /\ r \in Message /\ r.rpc = "MergeHypothesis"
      /\ 1..(m - 1) \subseteq NodeItems(r)
  BY KnownNodes DEF NodesKnown
<1>2. /\ old = NodeUpTo(s, r, m - 1, id)
      /\ old.node_type = anchor.node_type /\ old.label = anchor.label
  BY NodeAgain
<1>3. /\ Accepted(s, r, m, id) = acc \cup {m}
      /\ acc \in SUBSET Nat /\ \A i \in acc : i < m
  BY AcceptedSoFar
<1>4. Accumulate(before, r.nodes, acc \cup {m})
        = SetUnion(Accumulate(before, r.nodes, acc), CollectProvenance(n.provenance))
  <2> HIDE DEF acc, before
  <2> QED
    BY <1>3, AccumulateMore
<1>5. /\ old.provenance = Accumulate(before, r.nodes, acc)
      /\ old.hypothetical
           = (anchor.hypothetical /\ \A i \in acc : r.nodes[i].hypothetical)
  <2>1. NodeUpTo(s, r, m - 1, id)
          = [ node_type |-> anchor.node_type, label |-> anchor.label,
              hypothetical |-> anchor.hypothetical /\ \A i \in acc : r.nodes[i].hypothetical,
              provenance |-> Accumulate(before, r.nodes, acc) ]
    BY DEF NodeUpTo
  <2> HIDE DEF old, before, acc, anchor
  <2> QED
    BY <1>2, <2>1
<1>6. /\ p.node_type = NodeType[n.type] /\ p.label = n.label
      /\ p.hypothetical = n.hypothetical /\ p.provenance = CollectProvenance(n.provenance)
      /\ n.hypothetical \in BOOLEAN
  BY <1>1 DEF ProtoNodeToDomain, ProtoNode
<1>7. p.node_type = anchor.node_type /\ p.label = anchor.label
  BY DEF Agrees
<1>8. l = [ node_type |-> anchor.node_type, label |-> anchor.label,
            hypothetical |->
              anchor.hypothetical /\ \A i \in acc \cup {m} : r.nodes[i].hypothetical,
            provenance |-> Accumulate(before, r.nodes, acc \cup {m}) ]
  BY <1>3 DEF NodeUpTo
<1>9. (anchor.hypothetical /\ \A i \in acc \cup {m} : r.nodes[i].hypothetical)
        = MinMerge(old.hypothetical, p.hypothetical)
  <2> HIDE DEF acc, p, old, anchor
  <2> QED
    BY <1>5, <1>6 DEF MinMerge
<1>10. NodeMerge(old, p)
         = [ node_type |-> anchor.node_type, label |-> anchor.label,
             hypothetical |-> MinMerge(old.hypothetical, p.hypothetical),
             provenance |-> SetUnion(old.provenance, p.provenance) ]
  <2> HIDE DEF old, p, anchor
  <2> QED
    BY <1>2, <1>7 DEF NodeMerge, ConflictMerge
<1>11. l = NodeMerge(old, p)
  <2> HIDE DEF l, old, p, anchor, acc, before
  <2> QED
    BY <1>4, <1>5, <1>6, <1>8, <1>9, <1>10
<1>12. id \in DOMAIN s.nodes \/ m # Least(NodeItemsFor(r, id))
  <2> SUFFICES ASSUME id \notin DOMAIN s.nodes
               PROVE  m # Least(NodeItemsFor(r, id))
    OBVIOUS
  <2>1. PICK i \in 1..(m - 1) : r.nodes[i].id = id
    BY DEF NodesUpTo
  <2>2. i \in NodeItemsFor(r, id) /\ i < m
    BY <1>1, <2>1 DEF NodeItemsFor
  <2>3. NodeItemsFor(r, id) \in SUBSET Nat
    BY <1>1, NodeItemType DEF NodeItemsFor
  <2> DEFINE x == Least(NodeItemsFor(r, id))
  <2>4. x \in Nat /\ x <= i
    BY <2>2, <2>3, LeastExists
  <2> HIDE DEF x
  <2>5. m # x
    BY <2>2, <2>4
  <2> QED
    BY <2>5 DEF x
<1>13. NodeEntry(s, r, m) = [id |-> id, outcome |-> "merged"]
  BY <1>12 DEF NodeEntry
<1> QED
  BY <1>11, <1>13, OneNodePut

LEMMA RefusedNode ==
  ASSUME NEW s, Unconflicted(s), NEW r, NEW m \in Nat \ {0}, NodesKnown(r, m),
         r.nodes[m].id \in DOMAIN NodesUpTo(s, r, m - 1),
         ~ Agrees(s, r, m)
  PROVE  LET id  == r.nodes[m].id
             old == NodesUpTo(s, r, m - 1)[id]
             field == ConflictField(NodeMerge(old, ProtoNodeToDomain(r.nodes[m])))
         IN  /\ NodesUpTo(s, r, m) = NodesUpTo(s, r, m - 1)
             /\ NodeEntry(s, r, m)
                  = [ id |-> id, outcome |-> "conflict", field |-> field,
                      existing_value |-> IF field = "type" THEN old.node_type ELSE old.label ]
<1> DEFINE n  == r.nodes[m]
           id == n.id
           p  == ProtoNodeToDomain(n)
           N  == NodesUpTo(s, r, m - 1)
           old == N[id]
           anchor == Anchor(s, r, id)
           new == NodeMerge(old, p)
           field == IF NodeType[n.type] # anchor.node_type THEN "type" ELSE "label"
<1>1. /\ old = NodeUpTo(s, r, m - 1, id)
      /\ old.node_type = anchor.node_type /\ old.label = anchor.label
      /\ anchor.node_type # Top
      /\ new.node_type = IF NodeType[n.type] = anchor.node_type THEN anchor.node_type ELSE Top
  BY NodeAgain
<1>2. Accepted(s, r, m, id) = Accepted(s, r, m - 1, id)
  BY AcceptedSoFar
<1>3. NodeUpTo(s, r, m, id) = old
  BY <1>1, <1>2 DEF NodeUpTo
<1>4. NodesUpTo(s, r, m) = Put(N, id, old)
  BY <1>3, OneNodePut
<1>5. N = [x \in DOMAIN N |-> N[x]]
  BY DEF NodesUpTo
<1>6. Put(N, id, N[id]) = N
  <2>1. id \in DOMAIN N
    OBVIOUS
  <2> HIDE DEF N, id
  <2>2. DOMAIN N \cup {id} = DOMAIN N
    BY <2>1
  <2>3. Put(N, id, N[id]) = [x \in DOMAIN N |-> N[x]]
    BY <2>2 DEF Put
  <2> QED
    BY <1>5, <2>3
<1>7. ConflictField(new) = field
  BY <1>1 DEF ConflictField
<1>8. NodeEntry(s, r, m)
        = [ id |-> id, outcome |-> "conflict", field |-> field,
            existing_value |-> IF field = "type" THEN anchor.node_type ELSE anchor.label ]
  BY DEF NodeEntry
<1> QED
  BY <1>1, <1>4, <1>6, <1>7, <1>8

-----------------------------------------------------------------------------
(* One edge more.                                                          *)

LEMMA KnownEdges ==
  ASSUME NEW r, NEW b, EdgesKnown(r, b)
  PROVE  /\ DOMAIN r.edges = 1..Len(r.edges) /\ Len(r.edges) \in Nat
         /\ 1..b \subseteq EdgeItems(r) /\ 1..b \subseteq DOMAIN r.edges
         /\ EdgeItems(r) \subseteq 1..Len(r.edges)
<1>1. r.edges \in Seq(ProtoEdge)
  BY MessageForms DEF EdgesKnown, NodesKnown
<1>2. DOMAIN r.edges = 1..Len(r.edges) /\ Len(r.edges) \in Nat
  BY <1>1
<1>3. 1..b \subseteq DOMAIN r.edges
  BY <1>2 DEF EdgesKnown
<1>4. NodeItems(r) = DOMAIN r.nodes
  <2>1. /\ DOMAIN r.nodes = 1..Len(r.nodes)
        /\ 1..Len(r.nodes) \subseteq NodeItems(r)
    BY KnownNodes DEF EdgesKnown
  <2> QED
    BY <2>1 DEF NodeItems, Prefix
<1>5. \A j \in 1..b : 1..j \subseteq 1..b
  BY DEF EdgesKnown
<1>6. 1..b \subseteq EdgeItems(r)
  BY <1>3, <1>4, <1>5 DEF EdgeItems, Prefix, EdgesKnown
<1>7. EdgeItems(r) \subseteq 1..Len(r.edges)
  BY <1>2 DEF EdgeItems, Prefix
<1> QED
  BY <1>2, <1>3, <1>6, <1>7

LEMMA OneEdgePut ==
  ASSUME NEW s, NEW r, NEW m \in Nat \ {0}
  PROVE  LET k == ProtoEdgeKey(r.edges[m])
         IN  EdgesUpTo(s, r, m)
               = Put(EdgesUpTo(s, r, m - 1), k,
                     SetUnion(EdgeUpTo(s, r, m - 1, k),
                              CollectProvenance(r.edges[m].provenance)))
<1> DEFINE k == ProtoEdgeKey(r.edges[m])
           E == EdgesUpTo(s, r, m - 1)
           M == EdgesUpTo(s, r, m)
           old == EdgesFor(r, m - 1, k)
           p == CollectProvenance(r.edges[m].provenance)
<1>1. 1..m = (1..(m - 1)) \cup {m}
  OBVIOUS
<1>2. DOMAIN M = DOMAIN E \cup {k}
  <2>1. {ProtoEdgeKey(r.edges[j]) : j \in 1..m}
          = {ProtoEdgeKey(r.edges[j]) : j \in 1..(m - 1)} \cup {k}
    BY <1>1
  <2> QED
    BY <2>1 DEF EdgesUpTo
<1>3. ASSUME NEW x, x # k
      PROVE  EdgeUpTo(s, r, m, x) = EdgeUpTo(s, r, m - 1, x)
  <2>1. EdgesFor(r, m, x) = EdgesFor(r, m - 1, x)
    BY <1>1, <1>3 DEF EdgesFor
  <2> QED
    BY <2>1 DEF EdgeUpTo
<1>4. EdgeUpTo(s, r, m, k) = SetUnion(EdgeUpTo(s, r, m - 1, k), p)
  <2> DEFINE before == IF k \in DOMAIN s.edges THEN s.edges[k] ELSE EmptyMap
  <2>1. EdgesFor(r, m, k) = old \cup {m}
    BY <1>1 DEF EdgesFor
  <2>2. old \in SUBSET Nat /\ \A i \in old : i < m
    BY DEF EdgesFor
  <2>3. /\ EdgeUpTo(s, r, m, k) = Accumulate(before, r.edges, old \cup {m})
        /\ EdgeUpTo(s, r, m - 1, k) = Accumulate(before, r.edges, old)
    BY <2>1 DEF EdgeUpTo
  <2> HIDE DEF before, old
  <2>4. Accumulate(before, r.edges, old \cup {m})
          = SetUnion(Accumulate(before, r.edges, old), p)
    BY <2>2, AccumulateMore
  <2> QED
    BY <2>3, <2>4
<1>5. M = [x \in DOMAIN M |-> EdgeUpTo(s, r, m, x)]
  BY DEF EdgesUpTo
<1>6. \A x \in DOMAIN E : E[x] = EdgeUpTo(s, r, m - 1, x)
  BY DEF EdgesUpTo
<1> HIDE DEF E, M, k
<1>7. Put(E, k, EdgeUpTo(s, r, m, k)) = [x \in DOMAIN M |-> EdgeUpTo(s, r, m, x)]
  BY <1>2, <1>3, <1>6 DEF Put
<1> QED
  BY <1>4, <1>5, <1>7 DEF E, M, k

LEMMA FirstEdge ==
  ASSUME NEW s, NEW r, NEW m \in Nat \ {0}, EdgesKnown(r, m),
         ProtoEdgeKey(r.edges[m]) \notin DOMAIN EdgesUpTo(s, r, m - 1)
  PROVE  LET k == ProtoEdgeKey(r.edges[m])
         IN  /\ EdgesUpTo(s, r, m) = Put(EdgesUpTo(s, r, m - 1), k,
                                         CollectProvenance(r.edges[m].provenance))
             /\ EdgeEntry(s, r, m) = [id |-> k, outcome |-> "created"]
<1> DEFINE k == ProtoEdgeKey(r.edges[m])
           I == EdgeItemsFor(r, k)
<1>1. k \notin DOMAIN s.edges /\ \A i \in 1..(m - 1) : ProtoEdgeKey(r.edges[i]) # k
  BY DEF EdgesUpTo
<1>2. EdgeUpTo(s, r, m - 1, k) = EmptyMap
  <2>1. EdgesFor(r, m - 1, k) = {}
    BY <1>1 DEF EdgesFor
  <2> QED
    BY <1>1, <2>1, AccumulateNothing DEF EdgeUpTo, EmptyMap
<1>3. Least(I) = m
  <2>1. m \in EdgeItems(r) /\ EdgeItems(r) \subseteq 1..Len(r.edges) /\ Len(r.edges) \in Nat
    BY KnownEdges
  <2>2. m \in I /\ I \in SUBSET Nat /\ I # {}
    BY <2>1 DEF EdgeItemsFor
  <2>3. Least(I) \in I /\ Least(I) <= m
    BY <2>2, LeastExists
  <2>4. Least(I) \in 1..Len(r.edges) /\ ProtoEdgeKey(r.edges[Least(I)]) = k
    BY <2>1, <2>3 DEF EdgeItemsFor
  <2> DEFINE l == Least(I)
  <2>5. l \in Nat /\ l >= 1 /\ l <= m /\ l \notin 1..(m - 1)
    BY <1>1, <2>1, <2>3, <2>4
  <2> HIDE DEF l
  <2>6. l = m
    BY <2>5
  <2> QED
    BY <2>6 DEF l
<1>4. EdgeEntry(s, r, m) = [id |-> k, outcome |-> "created"]
  BY <1>1, <1>3 DEF EdgeEntry
<1>5. EdgesUpTo(s, r, m)
        = Put(EdgesUpTo(s, r, m - 1), k,
              SetUnion(EmptyMap, CollectProvenance(r.edges[m].provenance)))
  BY <1>2, OneEdgePut
<1> QED
  BY <1>4, <1>5, SetUnionNothing

LEMMA EdgeAgain ==
  ASSUME NEW s, NEW r, NEW m \in Nat \ {0}, EdgesKnown(r, m),
         ProtoEdgeKey(r.edges[m]) \in DOMAIN EdgesUpTo(s, r, m - 1)
  PROVE  LET k == ProtoEdgeKey(r.edges[m])
         IN  /\ EdgesUpTo(s, r, m)
                  = Put(EdgesUpTo(s, r, m - 1), k,
                        EdgeMerge(EdgesUpTo(s, r, m - 1)[k],
                                  CollectProvenance(r.edges[m].provenance)))
             /\ EdgeEntry(s, r, m) = [id |-> k, outcome |-> "merged"]
<1> DEFINE k == ProtoEdgeKey(r.edges[m])
<1>1. k \in DOMAIN s.edges \/ m # Least(EdgeItemsFor(r, k))
  <2> SUFFICES ASSUME k \notin DOMAIN s.edges
               PROVE  m # Least(EdgeItemsFor(r, k))
    OBVIOUS
  <2>1. PICK i \in 1..(m - 1) : ProtoEdgeKey(r.edges[i]) = k
    BY DEF EdgesUpTo
  <2>2. /\ 1..m \subseteq EdgeItems(r) /\ EdgeItems(r) \subseteq 1..Len(r.edges)
        /\ Len(r.edges) \in Nat
    BY KnownEdges
  <2>3. i \in EdgeItemsFor(r, k) /\ i < m /\ i \in Nat
    BY <2>1, <2>2 DEF EdgeItemsFor
  <2>4. EdgeItemsFor(r, k) \in SUBSET Nat
    BY <2>2 DEF EdgeItemsFor
  <2> DEFINE x == Least(EdgeItemsFor(r, k))
  <2>5. x \in Nat /\ x <= i
    BY <2>3, <2>4, LeastExists
  <2> HIDE DEF x
  <2>6. m # x
    BY <2>3, <2>5
  <2> QED
    BY <2>6 DEF x
<1>2. EdgeEntry(s, r, m) = [id |-> k, outcome |-> "merged"]
  BY <1>1 DEF EdgeEntry
<1>3. EdgesUpTo(s, r, m - 1)[k] = EdgeUpTo(s, r, m - 1, k)
  BY DEF EdgesUpTo
<1> QED
  BY <1>2, <1>3, OneEdgePut DEF EdgeMerge
=============================================================================
