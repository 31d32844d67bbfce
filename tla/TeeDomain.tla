------------------------------ MODULE TeeDomain ------------------------------
(***************************************************************************)
(* The lattice-backed domain types of src/src/domain and the conversions   *)
(* between them and the protobuf messages (src/src/proto_convert.rs).      *)
(*                                                                         *)
(* A BTreeMap is a function whose DOMAIN is the set of keys present.  A    *)
(* BTreeSet<Provenance> is a function from the identity of an entry, the   *)
(* pair <<source, trigger>>, to the timestamp the entry carries, because   *)
(* equality and order of Provenance ignore the timestamp.                  *)
(***************************************************************************)
EXTENDS Integers, Sequences

CONSTANTS
  Str,    \* the non-empty strings in play: ids, labels, sources, triggers
  Time,   \* the instants a timestamp may carry; 0 is the Unix epoch
  None,   \* an optional message field that is not set
  Top     \* the lattice element Conflict(None): two values were proposed

Text == Str \cup {""}

\* The enums of tee.proto: the wire number is the index, 0 is UNSPECIFIED.
NodeType == <<"Service", "Dependency", "Infrastructure", "Mechanism">>
EdgeType == <<"DependsOn", "PropagatesTo", "ManifestsAs">>

NodeTypes == {NodeType[i] : i \in DOMAIN NodeType}
EdgeTypes == {EdgeType[i] : i \in DOMAIN EdgeType}

ASSUME DomainAssumption ==
  /\ "" \notin Str
  /\ 0 \in Time /\ None \notin Time
  /\ Top \notin Text \cup NodeTypes

IsMap(m, K, V) == DOMAIN m \subseteq K /\ m \in [DOMAIN m -> V]

Put(m, k, v) == [x \in DOMAIN m \cup {k} |-> IF x = k THEN v ELSE m[x]]

-----------------------------------------------------------------------------
(* The three lattices of the `lattices` crate that the domain types use.   *)

\* Conflict<T>::merge: equal values stay, different values go to the top.
ConflictMerge(a, b) == IF a = b THEN a ELSE Top

\* SetUnion::merge extends the BTreeSet; inserting an entry whose identity is
\* present keeps the old entry, so the timestamp written first is kept.
SetUnion(p, q) ==
  [k \in DOMAIN p \cup DOMAIN q |-> IF k \in DOMAIN p THEN p[k] ELSE q[k]]

\* Min<bool>::merge.
MinMerge(a, b) == a /\ b

-----------------------------------------------------------------------------
(* domain/node.rs and domain/edge.rs.  The only lattice field of an        *)
(* EdgeLattice is its provenance, so an edge is modelled by that field.    *)

EdgeKey(source, target, type) == <<source, target, type>>

\* Mutation: hypothetical is a Max<bool>, as the table in the README has it.
NodeMergeMax(a, b) ==
  [ node_type    |-> ConflictMerge(a.node_type, b.node_type),
    label        |-> ConflictMerge(a.label, b.label),
    hypothetical |-> a.hypothetical \/ b.hypothetical,
    provenance   |-> SetUnion(a.provenance, b.provenance) ]

\* Mutation: the stored provenance is merged into the proposed one.
NodeMergeSwapped(a, b) ==
  [ node_type    |-> ConflictMerge(a.node_type, b.node_type),
    label        |-> ConflictMerge(a.label, b.label),
    hypothetical |-> MinMerge(a.hypothetical, b.hypothetical),
    provenance   |-> SetUnion(b.provenance, a.provenance) ]

NodeMerge(a, b) ==
  [ node_type    |-> ConflictMerge(a.node_type, b.node_type),
    label        |-> ConflictMerge(a.label, b.label),
    hypothetical |-> MinMerge(a.hypothetical, b.hypothetical),
    provenance   |-> SetUnion(a.provenance, b.provenance) ]

EdgeMerge(a, b) == SetUnion(a, b)

HasConflict(l) == l.node_type = Top \/ l.label = Top

ConflictField(l) == IF l.node_type = Top THEN "type" ELSE "label"

-----------------------------------------------------------------------------
(* proto_convert.rs: messages to domain types.                             *)

Identity(p) == <<p.source, p.trigger>>

Identities(ps) == {Identity(ps[i]) : i \in DOMAIN ps}

\* The position of the last entry of ps with identity k.
LastOf(ps, k) ==
  CHOOSE i \in DOMAIN ps :
    /\ Identity(ps[i]) = k
    /\ \A j \in DOMAIN ps : Identity(ps[j]) = k => j <= i

\* Mutation: a timestamp that is not set is stored as it is.
CollectProvenanceUnset(ps) ==
  [k \in Identities(ps) |-> ps[LastOf(ps, k)].timestamp]

\* collect() into a BTreeSet sorts stably and keeps the last of equal entries;
\* an entry with no timestamp is stored with timestamp 0.
CollectProvenance(ps) ==
  [k \in Identities(ps) |->
     LET t == ps[LastOf(ps, k)].timestamp IN IF t = None THEN 0 ELSE t]

ProtoNodeToDomain(n) ==
  [ node_type    |-> NodeType[n.type],
    label        |-> n.label,
    hypothetical |-> n.hypothetical,
    provenance   |-> CollectProvenance(n.provenance) ]

ProtoEdgeKey(e) == EdgeKey(e.source, e.target, EdgeType[e.type])

-----------------------------------------------------------------------------
(* proto_convert.rs: domain types back to messages.                        *)

NumberOf(enum, v) ==
  IF \E i \in DOMAIN enum : enum[i] = v
  THEN CHOOSE i \in DOMAIN enum : enum[i] = v ELSE 0

DomainNodeToProto(id, l) ==
  [ id           |-> id,
    type         |-> NumberOf(NodeType, l.node_type),
    label        |-> IF l.label = Top THEN "" ELSE l.label,
    hypothetical |-> l.hypothetical,
    provenance   |-> l.provenance ]

EdgeTombstoneEntryOf(k) ==
  [source |-> k[1], target |-> k[2], type |-> NumberOf(EdgeType, k[3])]

DomainEdgeToProto(k, l) ==
  [source |-> k[1], target |-> k[2], type |-> NumberOf(EdgeType, k[3]),
   provenance |-> l]

-----------------------------------------------------------------------------
(* The types of a stored node and of a stored edge's key, and what is      *)
(* required of them by the causal schema.                                  *)

ProvenanceKey == Text \X Text

IsProvenance(p) == IsMap(p, ProvenanceKey, Time)

IsNode(l) ==
  /\ l \in [ node_type : NodeTypes \cup {Top}, label : Text \cup {Top},
             hypothetical : BOOLEAN, provenance : {l.provenance} ]
  /\ IsProvenance(l.provenance)

AnyEdgeKey == Text \X Text \X EdgeTypes

\* A key is not a text.  What becomes of that when a key is printed is the
\* subject of TeeEdgeId.
ASSUME KeyAssumption == \A k \in AnyEdgeKey : k \notin Text

\* Someone is on record for the hypothesis, and with a source and a trigger.
Attributed(p) == DOMAIN p # {} /\ DOMAIN p \subseteq Str \X Str

WellFormedNode(l) ==
  l.node_type \in NodeTypes /\ l.label \notin {Top, ""} /\ Attributed(l.provenance)

WellFormedEdge(k, l) ==
  /\ k[1] # "" /\ k[2] # "" /\ k[1] # k[2] /\ k[3] \in EdgeTypes
  /\ Attributed(l)
=============================================================================
