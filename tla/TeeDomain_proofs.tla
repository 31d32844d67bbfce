---------------------------- MODULE TeeDomain_proofs ---------------------------
(***************************************************************************)
(* Facts about the operators of TeeDomain, for every value of its          *)
(* constants: the conversions and merges keep their types, and they keep   *)
(* what the schema requires of a node and of an edge.                      *)
(***************************************************************************)
EXTENDS TeeSchema, WellFoundedInduction, TLAPS

LEMMA PutType ==
  ASSUME NEW m, NEW k, NEW v
  PROVE  /\ DOMAIN Put(m, k, v) = DOMAIN m \cup {k}
         /\ Put(m, k, v)[k] = v
         /\ \A x \in DOMAIN m : x # k => Put(m, k, v)[x] = m[x]
BY DEF Put

LEMMA ElementType ==
  ASSUME NEW S, NEW s \in Seq(S), NEW i \in DOMAIN s
  PROVE  s[i] \in S
OBVIOUS

\* Every identity in a list of provenance entries has a last entry.
LEMMA LastOfExists ==
  ASSUME NEW ps \in Seq(ProtoProvenance), NEW k \in Identities(ps)
  PROVE  LastOf(ps, k) \in DOMAIN ps /\ Identity(ps[LastOf(ps, k)]) = k
<1> DEFINE n == Len(ps)
           I == {i \in DOMAIN ps : Identity(ps[i]) = k}
           T == {j \in Nat : n - j \in I}
<1>1. DOMAIN ps = 1..n /\ n \in Nat
  OBVIOUS
<1>2. PICK i \in DOMAIN ps : Identity(ps[i]) = k
  BY DEF Identities
<1>3. n - i \in T
  BY <1>1, <1>2
<1>4. PICK j \in T : \A y \in T : <<y, j>> \notin OpToRel(<, Nat)
  BY <1>3, NatLessThanWellFounded, WFMin
<1>5. \A y \in T : j <= y
  <2>1. \A y \in Nat : y < j => <<y, j>> \in OpToRel(<, Nat)
    BY Zenon DEF OpToRel
  <2>2. \A y \in T : ~ (y < j)
    BY <1>4, <2>1
  <2> QED
    BY <2>2
<1>6. /\ n - j \in DOMAIN ps
      /\ Identity(ps[n - j]) = k
      /\ \A l \in DOMAIN ps : Identity(ps[l]) = k => l <= n - j
  <2>1. n - j \in I
    OBVIOUS
  <2>2. ASSUME NEW l \in DOMAIN ps, Identity(ps[l]) = k
        PROVE  l <= n - j
    <3>1. n - l \in T
      BY <1>1, <2>2
    <3>2. j <= n - l
      BY <1>5, <3>1
    <3> QED
      BY <1>1, <3>2
  <2> QED
    BY <2>1, <2>2
<1> QED
  BY <1>6 DEF LastOf

-----------------------------------------------------------------------------
(* The conversions.                                                        *)

LEMMA CollectProvenanceType ==
  ASSUME NEW ps \in Seq(ProtoProvenance)
  PROVE  /\ IsProvenance(CollectProvenance(ps))
         /\ DOMAIN CollectProvenance(ps) = Identities(ps)
<1>1. Identities(ps) \subseteq ProvenanceKey
  <2> SUFFICES ASSUME NEW i \in DOMAIN ps
               PROVE  Identity(ps[i]) \in ProvenanceKey
    BY DEF Identities
  <2>1. ps[i] \in ProtoProvenance
    BY ElementType
  <2> QED
    BY <2>1 DEF Identity, ProtoProvenance, ProvenanceKey
<1>2. ASSUME NEW k \in Identities(ps)
      PROVE  CollectProvenance(ps)[k] \in Time
  <2>1. ps[LastOf(ps, k)] \in ProtoProvenance
    BY LastOfExists
  <2>2. ps[LastOf(ps, k)].timestamp \in Time \cup {None}
    BY <2>1 DEF ProtoProvenance
  <2> QED
    BY <2>2, DomainAssumption DEF CollectProvenance
<1>3. DOMAIN CollectProvenance(ps) = Identities(ps)
  BY DEF CollectProvenance
<1>4. CollectProvenance(ps) \in [Identities(ps) -> Time]
  BY <1>2, <1>3 DEF CollectProvenance
<1> QED
  BY <1>1, <1>3, <1>4 DEF IsProvenance, IsMap

\* Entries that pass validation attribute what they are attached to.
LEMMA ValidProvenancesAttribute ==
  ASSUME NEW ps \in Seq(ProtoProvenance), ValidProvenances(ps)
  PROVE  Attributed(CollectProvenance(ps))
<1>1. DOMAIN CollectProvenance(ps) = Identities(ps)
  BY CollectProvenanceType
<1>2. Identities(ps) # {}
  <2>1. 1 \in DOMAIN ps
    BY DEF ValidProvenances
  <2> QED
    BY <2>1 DEF Identities
<1>3. Identities(ps) \subseteq Str \X Str
  <2> SUFFICES ASSUME NEW i \in DOMAIN ps
               PROVE  Identity(ps[i]) \in Str \X Str
    BY DEF Identities
  <2>1. ps[i] \in ProtoProvenance
    BY ElementType
  <2>2. ps[i].source # "" /\ ps[i].trigger # ""
    BY DEF ValidProvenances, ValidProvenance
  <2> QED
    BY <2>1, <2>2 DEF ProtoProvenance, Identity, Text
<1> QED
  BY <1>1, <1>2, <1>3 DEF Attributed

LEMMA NodeTypeOf ==
  ASSUME NEW i \in DOMAIN NodeType
  PROVE  NodeType[i] \in NodeTypes
BY DEF NodeTypes

LEMMA EdgeTypeOf ==
  ASSUME NEW i \in DOMAIN EdgeType
  PROVE  EdgeType[i] \in EdgeTypes
BY DEF EdgeTypes

LEMMA ProtoNodeToDomainType ==
  ASSUME NEW n \in ProtoNode, n.type \in DOMAIN NodeType
  PROVE  /\ n.id \in Text
         /\ IsNode(ProtoNodeToDomain(n))
         /\ ValidNode(n) => n.id # "" /\ WellFormedNode(ProtoNodeToDomain(n))
<1> DEFINE l == ProtoNodeToDomain(n)
<1>1. /\ n.id \in Text /\ n.label \in Text /\ n.hypothetical \in BOOLEAN
      /\ n.provenance \in Seq(ProtoProvenance)
  BY DEF ProtoNode
<1>2. NodeType[n.type] \in NodeTypes
  BY NodeTypeOf
<1>3. /\ l.node_type = NodeType[n.type] /\ l.label = n.label
      /\ l.hypothetical = n.hypothetical
      /\ l.provenance = CollectProvenance(n.provenance)
  BY DEF ProtoNodeToDomain
<1>4. IsNode(l)
  <2>1. IsProvenance(l.provenance)
    BY <1>1, <1>3, CollectProvenanceType
  <2>2. l \in [ node_type : NodeTypes \cup {Top}, label : Text \cup {Top},
                hypothetical : BOOLEAN, provenance : {l.provenance} ]
    BY <1>1, <1>2, <1>3 DEF ProtoNodeToDomain
  <2> QED
    BY <2>1, <2>2 DEF IsNode
<1>5. ASSUME ValidNode(n)
      PROVE  n.id # "" /\ WellFormedNode(l)
  <2>1. n.id # "" /\ n.label # "" /\ ValidProvenances(n.provenance)
    BY <1>5 DEF ValidNode
  <2>2. Attributed(l.provenance)
    BY <1>1, <1>3, <2>1, ValidProvenancesAttribute
  <2> QED
    BY <1>1, <1>2, <1>3, <2>1, <2>2, DomainAssumption DEF WellFormedNode
<1> QED
  BY <1>1, <1>4, <1>5

LEMMA ProtoEdgeKeyType ==
  ASSUME NEW e, e.source \in Text, e.target \in Text, e.type \in DOMAIN EdgeType
  PROVE  /\ ProtoEdgeKey(e) \in AnyEdgeKey
         /\ ProtoEdgeKey(e)[1] = e.source /\ ProtoEdgeKey(e)[2] = e.target
BY EdgeTypeOf DEF ProtoEdgeKey, EdgeKey, AnyEdgeKey

-----------------------------------------------------------------------------
(* The merges.                                                             *)

LEMMA SetUnionType ==
  ASSUME NEW p, NEW q, IsProvenance(p), IsProvenance(q)
  PROVE  /\ IsProvenance(SetUnion(p, q))
         /\ DOMAIN SetUnion(p, q) = DOMAIN p \cup DOMAIN q
         /\ \A k \in DOMAIN p : SetUnion(p, q)[k] = p[k]
BY DEF SetUnion, IsProvenance, IsMap

LEMMA SetUnionAttributed ==
  ASSUME NEW p, NEW q, IsProvenance(p), IsProvenance(q), Attributed(p), Attributed(q)
  PROVE  Attributed(SetUnion(p, q))
BY SetUnionType DEF Attributed

LEMMA NodeMergeType ==
  ASSUME NEW x, NEW y, IsNode(x), IsNode(y)
  PROVE  IsNode(NodeMerge(x, y))
<1> DEFINE l == NodeMerge(x, y)
<1>1. /\ x.node_type \in NodeTypes \cup {Top} /\ x.label \in Text \cup {Top}
      /\ x.hypothetical \in BOOLEAN /\ IsProvenance(x.provenance)
      /\ IsProvenance(y.provenance)
  BY DEF IsNode
<1>2. /\ ConflictMerge(x.node_type, y.node_type) \in NodeTypes \cup {Top}
      /\ ConflictMerge(x.label, y.label) \in Text \cup {Top}
  BY <1>1 DEF ConflictMerge
<1>3. MinMerge(x.hypothetical, y.hypothetical) \in BOOLEAN
  BY DEF MinMerge
<1>4. l.provenance = SetUnion(x.provenance, y.provenance)
  BY DEF NodeMerge
<1>5. IsProvenance(l.provenance)
  BY <1>1, <1>4, SetUnionType
<1>6. l \in [ node_type : NodeTypes \cup {Top}, label : Text \cup {Top},
              hypothetical : BOOLEAN, provenance : {l.provenance} ]
  BY <1>2, <1>3, <1>4 DEF NodeMerge
<1> QED
  BY <1>5, <1>6 DEF IsNode

\* A merge that is not in conflict keeps type and label, never makes a
\* confirmed node hypothetical again, and only adds to the provenance.
LEMMA NodeMergeWithoutConflict ==
  ASSUME NEW x, NEW y, IsNode(x), IsNode(y), ~ HasConflict(NodeMerge(x, y))
  PROVE  LET l == NodeMerge(x, y)
         IN  /\ l.node_type = x.node_type /\ l.label = x.label
             /\ l.hypothetical => x.hypothetical
             /\ DOMAIN x.provenance \subseteq DOMAIN l.provenance
             /\ \A k \in DOMAIN x.provenance : l.provenance[k] = x.provenance[k]
             /\ WellFormedNode(x) /\ WellFormedNode(y) => WellFormedNode(l)
<1> DEFINE l == NodeMerge(x, y)
<1>1. /\ IsProvenance(x.provenance) /\ IsProvenance(y.provenance)
      /\ x.hypothetical \in BOOLEAN
  BY DEF IsNode
<1>2. /\ l.node_type = ConflictMerge(x.node_type, y.node_type)
      /\ l.label = ConflictMerge(x.label, y.label)
      /\ l.hypothetical = MinMerge(x.hypothetical, y.hypothetical)
      /\ l.provenance = SetUnion(x.provenance, y.provenance)
  BY DEF NodeMerge
<1>3. l.node_type = x.node_type /\ l.label = x.label
  BY <1>2 DEF HasConflict, ConflictMerge
<1>4. l.hypothetical => x.hypothetical
  BY <1>2 DEF MinMerge
<1>5. /\ DOMAIN x.provenance \subseteq DOMAIN l.provenance
      /\ \A k \in DOMAIN x.provenance : l.provenance[k] = x.provenance[k]
  BY <1>2 DEF SetUnion
<1>6. ASSUME WellFormedNode(x), WellFormedNode(y)
      PROVE  WellFormedNode(l)
  <2>1. Attributed(l.provenance)
    BY <1>1, <1>2, <1>6, SetUnionAttributed DEF WellFormedNode
  <2> QED
    BY <1>3, <1>6, <2>1 DEF WellFormedNode
<1> QED
  BY <1>3, <1>4, <1>5, <1>6

-----------------------------------------------------------------------------
(* Requests: the fields that the method of a request gives it.             *)

LEMMA MessageForms ==
  ASSUME NEW r \in Message
  PROVE  /\ r.rpc = "MergeHypothesis" =>
              r.nodes \in Seq(ProtoNode) /\ r.edges \in Seq(ProtoEdge)
         /\ r.rpc = "MergeNodeTombstones" =>
              r.incident_id \in Text /\ r.node_ids \in Seq(Text)
         /\ r.rpc = "MergeEdgeTombstones" =>
              r.incident_id \in Text /\ r.entries \in Seq(EdgeTombstoneEntry)
         /\ r.rpc \in IncidentRpcs \cup {"CreateIncident"} => r.incident_id \in Text
<1>1. CASE r \in HypothesisDelta
  BY <1>1 DEF HypothesisDelta, IncidentRpcs, TombstoneRpcs
<1>2. CASE r \in NodeTombstoneRequest
  BY <1>2 DEF NodeTombstoneRequest, IncidentRpcs, TombstoneRpcs
<1>3. CASE r \in EdgeTombstoneRequest
  BY <1>3 DEF EdgeTombstoneRequest, IncidentRpcs, TombstoneRpcs
<1>4. CASE r \in IncidentRequest
  BY <1>4 DEF IncidentRequest, IncidentRpcs, TombstoneRpcs
<1>5. CASE r \in MainGraphRequest
  BY <1>5 DEF MainGraphRequest, IncidentRpcs, TombstoneRpcs
<1> QED
  BY <1>1, <1>2, <1>3, <1>4, <1>5 DEF Message
=============================================================================
