------------------------------ MODULE TeeSchema ------------------------------
(***************************************************************************)
(* The request messages of src/proto/tee.proto and the checks of           *)
(* src/src/schema/validation.rs.  The gRPC method a request is for is its  *)
(* field rpc.  proto3 enums are open, so a type is any integer.            *)
(*                                                                         *)
(* Every validation error becomes the status INVALID_ARGUMENT and only its *)
(* text says which check failed, so a check is modelled by its verdict.    *)
(***************************************************************************)
EXTENDS TeeDomain

ProtoProvenance ==
  [source : Text, trigger : Text, timestamp : Time \cup {None}]

ProtoNode ==
  [ id : Text, type : Int, label : Text, hypothetical : BOOLEAN,
    provenance : Seq(ProtoProvenance) ]

ProtoEdge ==
  [source : Text, target : Text, type : Int, provenance : Seq(ProtoProvenance)]

EdgeTombstoneEntry == [source : Text, target : Text, type : Int]

HypothesisDelta ==
  [rpc : {"MergeHypothesis"}, nodes : Seq(ProtoNode), edges : Seq(ProtoEdge)]

NodeTombstoneRequest ==
  [ rpc : {"MergeNodeTombstones"}, incident_id : Text, node_ids : Seq(Text),
    provenance : ProtoProvenance \cup {None} ]

EdgeTombstoneRequest ==
  [ rpc : {"MergeEdgeTombstones"}, incident_id : Text,
    entries : Seq(EdgeTombstoneEntry),
    provenance : ProtoProvenance \cup {None} ]

IncidentRequest ==
  [ rpc : {"CreateIncident", "GetIncidentContext", "GetLiveView",
           "GetTombstones"},
    incident_id : Text ]

MainGraphRequest == [rpc : {"GetMainGraph"}]

Message ==
  HypothesisDelta \cup NodeTombstoneRequest \cup EdgeTombstoneRequest
    \cup IncidentRequest \cup MainGraphRequest

TombstoneRpcs == {"MergeNodeTombstones", "MergeEdgeTombstones"}
WriteRpcs == TombstoneRpcs \cup {"MergeHypothesis", "CreateIncident"}
\* The methods whose handler fails when the incident is not registered.
IncidentRpcs ==
  TombstoneRpcs \cup {"GetIncidentContext", "GetLiveView", "GetTombstones"}

-----------------------------------------------------------------------------
ValidProvenance(p) == p.source # "" /\ p.trigger # ""

ValidProvenances(ps) ==
  ps # <<>> /\ \A i \in DOMAIN ps : ValidProvenance(ps[i])

ValidNode(n) ==
  /\ n.id # "" /\ n.type # 0 /\ n.label # ""
  /\ ValidProvenances(n.provenance)

ValidEdge(e) ==
  /\ e.source # "" /\ e.target # "" /\ e.source # e.target /\ e.type # 0
  /\ ValidProvenances(e.provenance)

\* The ids of node tombstones are not checked, those of edge tombstones are;
\* an edge tombstone may be a self-loop.
ValidTombstones(r) ==
  /\ r.provenance # None /\ ValidProvenance(r.provenance)
  /\ r.rpc = "MergeNodeTombstones" => r.node_ids # <<>>
  /\ r.rpc = "MergeEdgeTombstones" =>
       /\ r.entries # <<>>
       /\ \A i \in DOMAIN r.entries :
            LET e == r.entries[i]
            IN  e.source # "" /\ e.target # "" /\ e.type # 0

Valid(r) ==
  /\ r.rpc = "MergeHypothesis" =>
       /\ \A i \in DOMAIN r.nodes : ValidNode(r.nodes[i])
       /\ \A i \in DOMAIN r.edges : ValidEdge(r.edges[i])
  /\ r.rpc \in IncidentRpcs \cup {"CreateIncident"} => r.incident_id # ""
  /\ r.rpc \in TombstoneRpcs => ValidTombstones(r)
=============================================================================
