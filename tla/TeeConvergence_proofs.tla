------------------------- MODULE TeeConvergence_proofs -------------------------
(***************************************************************************)
(* The order of the calls does not matter, for any requests and any number *)
(* of replays of them.                                                     *)
(***************************************************************************)
EXTENDS TeeConvergence, TeeBatch_proofs, FiniteSetTheorems, SequenceTheorems

-----------------------------------------------------------------------------
(* The recursion that merges the items of a request one by one.  That a    *)
(* function with these equations exists is shown for one domain 0..n after *)
(* the other.                                                              *)

LEMMA NodesJoinedSteps ==
  ASSUME NEW m, NEW r, NEW a \in Nat, NodeItems(r) = 1..a
  PROVE  /\ NodesJoined(m, r)[0] = m
         /\ \A i \in 1..a : NodesJoined(m, r)[i]
                              = NodeMapMerge(NodesJoined(m, r)[i - 1], NodeDelta(r, i))
<1> DEFINE Solves(n, f) ==
             f = [i \in 0..n |-> IF i = 0 THEN m
                                 ELSE NodeMapMerge(f[i - 1], NodeDelta(r, i))]
           Unsolved == {n \in Nat : ~ \E f : Solves(n, f)}
<1>1. Unsolved = {}
  <2> SUFFICES ASSUME Unsolved # {}
               PROVE  FALSE
    OBVIOUS
  <2> DEFINE b == Least(Unsolved)
  <2>1. b \in Nat /\ b \in Unsolved /\ \A n \in Unsolved : b <= n
    BY LeastExists
  <2> HIDE DEF b
  <2>2. CASE b = 0
    <3> DEFINE g == [i \in 0..0 |-> m]
    <3>1. Solves(0, g)
      OBVIOUS
    <3> QED
      BY <2>1, <2>2, <3>1
  <2>3. CASE b # 0
    <3>1. b - 1 \in Nat /\ ~ (b <= b - 1)
      BY <2>1, <2>3
    <3>2. b - 1 \notin Unsolved
      <4> HIDE DEF Unsolved
      <4> QED
        BY <2>1, <3>1
    <3>3. PICK f : Solves(b - 1, f)
      BY <3>1, <3>2
    <3> DEFINE g == [i \in 0..b |-> IF i = b THEN NodeMapMerge(f[b - 1], NodeDelta(r, b))
                                    ELSE f[i]]
    <3>4. \A i \in 0..(b - 1) : g[i] = f[i]
      BY <2>1
    <3>5. ASSUME NEW i \in 0..b
          PROVE  g[i] = IF i = 0 THEN m ELSE NodeMapMerge(g[i - 1], NodeDelta(r, i))
      <4>1. CASE i = b
        <5>1. b - 1 \in 0..(b - 1) /\ i # 0
          BY <2>1, <2>3, <4>1
        <5> QED
          BY <3>4, <4>1, <5>1
      <4>2. CASE i # b
        <5>1. i \in 0..(b - 1) /\ (i # 0 => i - 1 \in 0..(b - 1))
          BY <2>1, <4>2
        <5>2. f[i] = IF i = 0 THEN m ELSE NodeMapMerge(f[i - 1], NodeDelta(r, i))
          BY <3>3, <5>1
        <5> QED
          BY <3>4, <5>1, <5>2
      <4> QED
        BY <4>1, <4>2
    <3>6. g = [i \in 0..b |-> g[i]]
      OBVIOUS
    <3> HIDE DEF g
    <3>7. Solves(b, g)
      BY <3>5, <3>6
    <3> QED
      BY <2>1, <3>7
  <2> QED
    BY <2>2, <2>3
<1>2. Cardinality(NodeItems(r)) = a
  BY FS_Interval
<1>3. \E f : Solves(a, f)
  BY <1>1
<1>4. Solves(a, NodesJoined(m, r))
  BY <1>2, <1>3 DEF NodesJoined
<1> QED
  BY <1>4

LEMMA EdgesJoinedSteps ==
  ASSUME NEW m, NEW r, NEW a \in Nat, EdgeItems(r) = 1..a
  PROVE  /\ EdgesJoined(m, r)[0] = m
         /\ \A i \in 1..a : EdgesJoined(m, r)[i]
                              = EdgeMapMerge(EdgesJoined(m, r)[i - 1], EdgeDelta(r, i))
<1> DEFINE Solves(n, f) ==
             f = [i \in 0..n |-> IF i = 0 THEN m
                                 ELSE EdgeMapMerge(f[i - 1], EdgeDelta(r, i))]
           Unsolved == {n \in Nat : ~ \E f : Solves(n, f)}
<1>1. Unsolved = {}
  <2> SUFFICES ASSUME Unsolved # {}
               PROVE  FALSE
    OBVIOUS
  <2> DEFINE b == Least(Unsolved)
  <2>1. b \in Nat /\ b \in Unsolved /\ \A n \in Unsolved : b <= n
    BY LeastExists
  <2> HIDE DEF b
  <2>2. CASE b = 0
    <3> DEFINE g == [i \in 0..0 |-> m]
    <3>1. Solves(0, g)
      OBVIOUS
    <3> QED
      BY <2>1, <2>2, <3>1
  <2>3. CASE b # 0
    <3>1. b - 1 \in Nat /\ ~ (b <= b - 1)
      BY <2>1, <2>3
    <3>2. b - 1 \notin Unsolved
      <4> HIDE DEF Unsolved
      <4> QED
        BY <2>1, <3>1
    <3>3. PICK f : Solves(b - 1, f)
      BY <3>1, <3>2
    <3> DEFINE g == [i \in 0..b |-> IF i = b THEN EdgeMapMerge(f[b - 1], EdgeDelta(r, b))
                                    ELSE f[i]]
    <3>4. \A i \in 0..(b - 1) : g[i] = f[i]
      BY <2>1
    <3>5. ASSUME NEW i \in 0..b
          PROVE  g[i] = IF i = 0 THEN m ELSE EdgeMapMerge(g[i - 1], EdgeDelta(r, i))
      <4>1. CASE i = b
        <5>1. b - 1 \in 0..(b - 1) /\ i # 0
          BY <2>1, <2>3, <4>1
        <5> QED
          BY <3>4, <4>1, <5>1
      <4>2. CASE i # b
        <5>1. i \in 0..(b - 1) /\ (i # 0 => i - 1 \in 0..(b - 1))
          BY <2>1, <4>2
        <5>2. f[i] = IF i = 0 THEN m ELSE EdgeMapMerge(f[i - 1], EdgeDelta(r, i))
          BY <3>3, <5>1
        <5> QED
          BY <3>4, <5>1, <5>2
      <4> QED
        BY <4>1, <4>2
    <3>6. g = [i \in 0..b |-> g[i]]
      OBVIOUS
    <3> HIDE DEF g
    <3>7. Solves(b, g)
      BY <3>5, <3>6
    <3> QED
      BY <2>1, <3>7
  <2> QED
    BY <2>2, <2>3
<1>2. Cardinality(EdgeItems(r)) = a
  BY FS_Interval
<1>3. \E f : Solves(a, f)
  BY <1>1
<1>4. Solves(a, EdgesJoined(m, r))
  BY <1>2, <1>3 DEF EdgesJoined
<1> QED
  BY <1>4
-----------------------------------------------------------------------------
(* One item merged into a map.                                             *)

IsAMap(m) == m = [k \in DOMAIN m |-> m[k]]

\* What the lattice makes of the node n proposed for id.
Lifted(m, id, n) == Put(m, id, IF id \in DOMAIN m THEN NodeMerge(m[id], n) ELSE n)

\* What the store makes of it: merged into a clone, thrown away in a conflict.
Clashes(m, id, n) == id \in DOMAIN m /\ HasConflict(NodeMerge(m[id], n))
Stored(m, id, n) == IF Clashes(m, id, n) THEN m ELSE Lifted(m, id, n)

LEMMA OneNodeJoined ==
  ASSUME NEW m, NEW r, NEW i
  PROVE  NodeMapMerge(m, NodeDelta(r, i))
           = Lifted(m, r.nodes[i].id, ProtoNodeToDomain(r.nodes[i]))
<1> DEFINE id == r.nodes[i].id
           n == ProtoNodeToDomain(r.nodes[i])
           d == NodeDelta(r, i)
<1>1. DOMAIN d = {id} /\ d[id] = n
  BY DEF NodeDelta, Singleton
<1> HIDE DEF id, n, d
<1>2. NodeMapMerge(m, d)
        = [k \in DOMAIN m \cup {id} |->
             IF k \in DOMAIN m \cap {id} THEN NodeMerge(m[k], d[k])
             ELSE IF k \in DOMAIN m THEN m[k] ELSE d[k]]
  BY <1>1 DEF NodeMapMerge, MapUnion
<1>3. NodeMapMerge(m, d) = Lifted(m, id, n)
  BY <1>1, <1>2 DEF Lifted, Put
<1> QED
  BY <1>3 DEF id, n, d

LEMMA OneEdgeJoined ==
  ASSUME NEW m, NEW r, NEW i, Attributed(CollectProvenance(r.edges[i].provenance))
  PROVE  LET k == ProtoEdgeKey(r.edges[i])
             p == CollectProvenance(r.edges[i].provenance)
         IN  EdgeMapMerge(m, EdgeDelta(r, i))
               = Put(m, k, IF k \in DOMAIN m THEN EdgeMerge(m[k], p) ELSE p)
<1> DEFINE id == ProtoEdgeKey(r.edges[i])
           p == CollectProvenance(r.edges[i].provenance)
           d == EdgeDelta(r, i)
<1>1. d = [x \in {id} |-> p] /\ DOMAIN p # {}
  BY DEF EdgeDelta, Singleton, Attributed
<1> HIDE DEF id, p, d
<1>2. Solid(d) = d /\ DOMAIN d = {id} /\ d[id] = p
  BY <1>1 DEF Solid
<1>3. EdgeMapMerge(m, d)
        = [k \in DOMAIN m \cup {id} |->
             IF k \in DOMAIN m \cap {id} THEN EdgeMerge(m[k], d[k])
             ELSE IF k \in DOMAIN m THEN m[k] ELSE d[k]]
  BY <1>2 DEF EdgeMapMerge, MapUnion
<1>4. EdgeMapMerge(m, d)
        = Put(m, id, IF id \in DOMAIN m THEN EdgeMerge(m[id], p) ELSE p)
  BY <1>2, <1>3 DEF Put
<1> QED
  BY <1>4 DEF id, p, d

-----------------------------------------------------------------------------
(* What the join of a set of proposals is, whatever their order.           *)

\* l is the join of the nodes Q, except for the timestamps.
IsJoin(l, Q) ==
  /\ Q # {}
  /\ l.node_type # Top => \A x \in Q : x.node_type = l.node_type
  /\ l.node_type = Top => \E x, y \in Q : x.node_type # y.node_type
  /\ l.label # Top => \A x \in Q : x.label = l.label
  /\ l.label = Top => \E x, y \in Q : x.label # y.label
  /\ l.hypothetical <=> \A x \in Q : x.hypothetical
  /\ DOMAIN l.provenance = UNION {DOMAIN x.provenance : x \in Q}

LEMMA JoinOfOne ==
  ASSUME NEW n, ~ HasConflict(n)
  PROVE  IsJoin(n, {n})
BY DEF IsJoin, HasConflict

LEMMA MergeFields ==
  ASSUME NEW l, IsNode(l), NEW n, IsNode(n)
  PROVE  LET u == NodeMerge(l, n)
         IN  /\ IsNode(u)
             /\ u.node_type = ConflictMerge(l.node_type, n.node_type)
             /\ u.label = ConflictMerge(l.label, n.label)
             /\ u.hypothetical <=> l.hypothetical /\ n.hypothetical
             /\ u.hypothetical \in BOOLEAN
             /\ DOMAIN u.provenance = DOMAIN l.provenance \cup DOMAIN n.provenance
<1>1. /\ l.hypothetical \in BOOLEAN /\ n.hypothetical \in BOOLEAN
      /\ IsProvenance(l.provenance) /\ IsProvenance(n.provenance)
  BY DEF IsNode
<1>2. DOMAIN SetUnion(l.provenance, n.provenance)
        = DOMAIN l.provenance \cup DOMAIN n.provenance
  BY <1>1, SetUnionType
<1> QED
  BY <1>1, <1>2, NodeMergeType DEF NodeMerge, MinMerge

LEMMA JoinOfMore ==
  ASSUME NEW l, IsNode(l), NEW n, IsNode(n), ~ HasConflict(n), NEW Q, IsJoin(l, Q)
  PROVE  IsJoin(NodeMerge(l, n), Q \cup {n})
<1> DEFINE u == NodeMerge(l, n)
           R == Q \cup {n}
<1>1. /\ u.node_type = ConflictMerge(l.node_type, n.node_type)
      /\ u.label = ConflictMerge(l.label, n.label)
      /\ u.hypothetical <=> l.hypothetical /\ n.hypothetical
      /\ DOMAIN u.provenance = DOMAIN l.provenance \cup DOMAIN n.provenance
  BY MergeFields
<1> HIDE DEF u
<1>2. Q \subseteq R /\ n \in R /\ Q # {}
  BY DEF IsJoin
<1>3. /\ u.node_type # Top => \A x \in R : x.node_type = u.node_type
      /\ u.node_type = Top => \E x, y \in R : x.node_type # y.node_type
  BY <1>1, <1>2 DEF IsJoin, ConflictMerge, HasConflict
<1>4. /\ u.label # Top => \A x \in R : x.label = u.label
      /\ u.label = Top => \E x, y \in R : x.label # y.label
  BY <1>1, <1>2 DEF IsJoin, ConflictMerge, HasConflict
<1>5. u.hypothetical <=> \A x \in R : x.hypothetical
  BY <1>1 DEF IsJoin
<1>6. DOMAIN u.provenance = UNION {DOMAIN x.provenance : x \in R}
  BY <1>1 DEF IsJoin
<1> QED
  BY <1>2, <1>3, <1>4, <1>5, <1>6 DEF IsJoin, u

\* A set of proposals has one join.
LEMMA JoinIsUnique ==
  ASSUME NEW Q, NEW l, IsNode(l), IsJoin(l, Q), NEW k, IsNode(k), IsJoin(k, Q)
  PROVE  HasConflict(l) = HasConflict(k) /\ Timeless(l) = Timeless(k)
<1>1. l.node_type = k.node_type
  BY DEF IsJoin
<1>2. l.label = k.label
  BY DEF IsJoin
<1>3. l.hypothetical = k.hypothetical
  BY DEF IsJoin, IsNode
<1>4. DOMAIN l.provenance = DOMAIN k.provenance
  BY DEF IsJoin
<1>5. /\ l = [ node_type |-> l.node_type, label |-> l.label,
               hypothetical |-> l.hypothetical, provenance |-> l.provenance ]
      /\ k = [ node_type |-> k.node_type, label |-> k.label,
               hypothetical |-> k.hypothetical, provenance |-> k.provenance ]
  BY DEF IsNode
<1>6. Timeless(l) = [ node_type |-> l.node_type, label |-> l.label,
                      hypothetical |-> l.hypothetical, provenance |-> DOMAIN l.provenance ]
  BY <1>5 DEF Timeless
<1>7. Timeless(k) = [ node_type |-> k.node_type, label |-> k.label,
                      hypothetical |-> k.hypothetical, provenance |-> DOMAIN k.provenance ]
  BY <1>5 DEF Timeless
<1> QED
  BY <1>1, <1>2, <1>3, <1>4, <1>6, <1>7 DEF HasConflict

-----------------------------------------------------------------------------
(* The store and the lattice, side by side.                                *)

\* The stored node l and the join k of all that was proposed for it.
Agreeing(l, k) ==
  /\ IsNode(l) /\ IsNode(k) /\ ~ HasConflict(l)
  /\ ~ HasConflict(k) => l = k
  /\ k.hypothetical => l.hypothetical
  /\ DOMAIN l.provenance \subseteq DOMAIN k.provenance

Matches(N, M) ==
  /\ IsAMap(N) /\ IsAMap(M) /\ DOMAIN N = DOMAIN M /\ DOMAIN N \subseteq Text
  /\ \A id \in DOMAIN N : Agreeing(N[id], M[id])

Disputes(M) == {id \in DOMAIN M : HasConflict(M[id])}

\* P is a set of proposals, pairs of an id and a node.
ProposedFor(P, id) == {x[2] : x \in {y \in P : y[1] = id}}

JoinOf(M, P) ==
  /\ DOMAIN M = {x[1] : x \in P}
  /\ \A id \in DOMAIN M : IsJoin(M[id], ProposedFor(P, id))

LEMMA ConflictStays ==
  ASSUME NEW k, NEW n, ~ HasConflict(n), HasConflict(k)
  PROVE  HasConflict(NodeMerge(k, n))
BY DEF HasConflict, NodeMerge, ConflictMerge

LEMMA AgreeingMerge ==
  ASSUME NEW l, NEW k, Agreeing(l, k), NEW n, IsNode(n), ~ HasConflict(n)
  PROVE  /\ HasConflict(NodeMerge(l, n)) => Agreeing(l, NodeMerge(k, n))
         /\ ~ HasConflict(NodeMerge(l, n)) => Agreeing(NodeMerge(l, n), NodeMerge(k, n))
<1> DEFINE u == NodeMerge(l, n)
           v == NodeMerge(k, n)
<1>1. /\ IsNode(u) /\ (u.hypothetical <=> l.hypothetical /\ n.hypothetical)
      /\ DOMAIN u.provenance = DOMAIN l.provenance \cup DOMAIN n.provenance
  BY MergeFields DEF Agreeing
<1>2. /\ IsNode(v) /\ (v.hypothetical <=> k.hypothetical /\ n.hypothetical)
      /\ DOMAIN v.provenance = DOMAIN k.provenance \cup DOMAIN n.provenance
  BY MergeFields DEF Agreeing
<1>3. HasConflict(k) => HasConflict(v)
  BY ConflictStays
<1>4. ~ HasConflict(k) => l = k /\ u = v
  BY DEF Agreeing
<1> HIDE DEF u, v
<1>5. HasConflict(u) => HasConflict(v)
  BY <1>3, <1>4
<1>6. HasConflict(u) => Agreeing(l, v)
  BY <1>2, <1>5 DEF Agreeing
<1>7. ~ HasConflict(u) => (HasConflict(v) <=> HasConflict(k))
  BY <1>3, <1>4
<1>8. ~ HasConflict(u) => Agreeing(u, v)
  BY <1>1, <1>2, <1>4, <1>7 DEF Agreeing
<1> QED
  BY <1>6, <1>8 DEF u, v

LEMMA OneProposal ==
  ASSUME NEW N, NEW M, Matches(N, M), NEW id \in Text,
         NEW n, IsNode(n), ~ HasConflict(n)
  PROVE  Matches(Stored(N, id, n), Lifted(M, id, n))
<1> DEFINE N2 == Stored(N, id, n)
           M2 == Lifted(M, id, n)
<1>1. /\ DOMAIN M2 = DOMAIN M \cup {id} /\ IsAMap(M2)
      /\ M2[id] = IF id \in DOMAIN M THEN NodeMerge(M[id], n) ELSE n
      /\ \A x \in DOMAIN M : x # id => M2[x] = M[x]
  BY DEF Lifted, Put, IsAMap
<1>2. /\ DOMAIN N2 = DOMAIN N \cup {id} /\ IsAMap(N2)
      /\ N2[id] = IF id \in DOMAIN N
                  THEN IF HasConflict(NodeMerge(N[id], n)) THEN N[id] ELSE NodeMerge(N[id], n)
                  ELSE n
      /\ \A x \in DOMAIN N : x # id => N2[x] = N[x]
  <2>1. CASE Clashes(N, id, n)
    BY <2>1 DEF Stored, Clashes, Matches
  <2>2. CASE ~ Clashes(N, id, n)
    BY <2>2 DEF Stored, Clashes, Lifted, Put, IsAMap
  <2> QED
    BY <2>1, <2>2
<1>3. DOMAIN N = DOMAIN M /\ \A x \in DOMAIN N : Agreeing(N[x], M[x])
  BY DEF Matches
<1> HIDE DEF N2, M2
<1>4. ASSUME id \notin DOMAIN N
      PROVE  Matches(N2, M2)
  <2>1. Agreeing(n, n)
    BY DEF Agreeing
  <2> QED
    BY <1>1, <1>2, <1>3, <1>4, <2>1 DEF Matches
<1>5. ASSUME id \in DOMAIN N /\ HasConflict(NodeMerge(N[id], n))
      PROVE  Matches(N2, M2)
  <2>1. Agreeing(N[id], NodeMerge(M[id], n))
    BY <1>3, <1>5, AgreeingMerge
  <2> QED
    BY <1>1, <1>2, <1>3, <1>5, <2>1 DEF Matches
<1>6. ASSUME id \in DOMAIN N /\ ~ HasConflict(NodeMerge(N[id], n))
      PROVE  Matches(N2, M2)
  <2>1. Agreeing(NodeMerge(N[id], n), NodeMerge(M[id], n))
    BY <1>3, <1>6, AgreeingMerge
  <2> QED
    BY <1>1, <1>2, <1>3, <1>6, <2>1 DEF Matches
<1>7. Matches(N2, M2)
  BY <1>4, <1>5, <1>6
<1> QED
  BY <1>7 DEF N2, M2

LEMMA OneProposalJoined ==
  ASSUME NEW N, NEW M, Matches(N, M), NEW P, JoinOf(M, P), NEW id,
         NEW n, IsNode(n), ~ HasConflict(n)
  PROVE  JoinOf(Lifted(M, id, n), P \cup {<<id, n>>})
<1> DEFINE M2 == Lifted(M, id, n)
           w == <<id, n>>
           R == P \cup {w}
<1>0. w[1] = id /\ w[2] = n
  OBVIOUS
<1> HIDE DEF w
<1>1. /\ DOMAIN M2 = DOMAIN M \cup {id}
      /\ M2[id] = IF id \in DOMAIN M THEN NodeMerge(M[id], n) ELSE n
      /\ \A x \in DOMAIN M : x # id => M2[x] = M[x]
  BY DEF Lifted, Put
<1>2. DOMAIN M2 = {x[1] : x \in R}
  BY <1>0, <1>1 DEF JoinOf
<1>3. ProposedFor(R, id) = ProposedFor(P, id) \cup {n}
  BY <1>0 DEF ProposedFor
<1>4. \A x : x # id => ProposedFor(R, x) = ProposedFor(P, x)
  BY <1>0 DEF ProposedFor
<1>5. id \notin DOMAIN M => ProposedFor(P, id) = {}
  BY DEF JoinOf, ProposedFor
<1> HIDE DEF M2, R
<1>6. IsJoin(M2[id], ProposedFor(R, id))
  <2>1. CASE id \in DOMAIN M
    <3>1. IsNode(M[id]) /\ IsJoin(M[id], ProposedFor(P, id))
      BY <2>1 DEF Matches, Agreeing, JoinOf
    <3>2. IsJoin(NodeMerge(M[id], n), ProposedFor(P, id) \cup {n})
      BY <3>1, JoinOfMore
    <3> QED
      BY <1>1, <1>3, <2>1, <3>2
  <2>2. CASE id \notin DOMAIN M
    <3>1. ProposedFor(R, id) = {n} /\ M2[id] = n
      BY <1>1, <1>3, <1>5, <2>2
    <3> QED
      BY <3>1, JoinOfOne
  <2> QED
    BY <2>1, <2>2
<1>7. \A x \in DOMAIN M2 : x # id => IsJoin(M2[x], ProposedFor(R, x))
  BY <1>1, <1>4 DEF JoinOf
<1> QED
  BY <1>2, <1>6, <1>7 DEF JoinOf, M2, R, w

-----------------------------------------------------------------------------
(* A proposal, item by item.                                               *)

\* The first k nodes of r, as proposals.
Proposals(r, k) ==
  {<<r.nodes[i].id, ProtoNodeToDomain(r.nodes[i])>> : i \in 1..k}

LEMMA NodeProposed ==
  ASSUME NEW r \in Message, r.rpc = "MergeHypothesis", NEW i \in NodeItems(r)
  PROVE  LET n == ProtoNodeToDomain(r.nodes[i])
         IN  r.nodes[i].id \in Text /\ IsNode(n) /\ ~ HasConflict(n)
<1>1. r.nodes[i] \in ProtoNode /\ r.nodes[i].type \in DOMAIN NodeType
  BY NodeItemType
<1>2. NodeType[r.nodes[i].type] \in NodeTypes /\ r.nodes[i].label \in Text
  BY <1>1, NodeTypeOf DEF ProtoNode
<1>3. ~ HasConflict(ProtoNodeToDomain(r.nodes[i]))
  BY <1>2, DomainAssumption DEF ProtoNodeToDomain, HasConflict
<1> QED
  BY <1>1, <1>3, ProtoNodeToDomainType

LEMMA NodeTaken ==
  ASSUME NEW s, Unconflicted(s), NEW r, NEW m \in Nat \ {0}, NodesKnown(r, m)
  PROVE  LET id == r.nodes[m].id
             n == ProtoNodeToDomain(r.nodes[m])
         IN  /\ id \in Text /\ IsNode(n) /\ ~ HasConflict(n)
             /\ NodesUpTo(s, r, m) = Stored(NodesUpTo(s, r, m - 1), id, n)
<1> DEFINE id == r.nodes[m].id
           n == ProtoNodeToDomain(r.nodes[m])
           N == NodesUpTo(s, r, m - 1)
<1>1. m \in NodeItems(r) /\ r \in Message /\ r.rpc = "MergeHypothesis"
  BY KnownNodes DEF NodesKnown
<1>2. id \in Text /\ IsNode(n)
  BY <1>1, NodeProposed
<1>3. ~ HasConflict(n)
  BY <1>1, NodeProposed
<1>4. CASE id \notin DOMAIN N
  <2>1. NodesUpTo(s, r, m) = Put(N, id, n)
    BY <1>4, FirstNode
  <2> HIDE DEF N, id, n
  <2>2. ~ Clashes(N, id, n) /\ Lifted(N, id, n) = Put(N, id, n)
    BY <1>4 DEF Clashes, Lifted
  <2> QED
    BY <1>2, <1>3, <2>1, <2>2 DEF Stored, N, id, n
<1>5. CASE id \in DOMAIN N /\ Agrees(s, r, m)
  <2>1. NodesUpTo(s, r, m) = Put(N, id, NodeMerge(N[id], n))
    BY <1>5, ConfirmedNode
  <2>2. ~ HasConflict(NodeMerge(N[id], n))
    BY <1>5, NodeAgain
  <2> HIDE DEF N, id, n
  <2>3. ~ Clashes(N, id, n) /\ Lifted(N, id, n) = Put(N, id, NodeMerge(N[id], n))
    BY <1>5, <2>2 DEF Clashes, Lifted
  <2> QED
    BY <1>2, <1>3, <2>1, <2>3 DEF Stored, N, id, n
<1>6. CASE id \in DOMAIN N /\ ~ Agrees(s, r, m)
  <2>1. NodesUpTo(s, r, m) = N
    BY <1>6, RefusedNode
  <2>2. HasConflict(NodeMerge(N[id], n))
    BY <1>6, NodeAgain
  <2> HIDE DEF N, id, n
  <2>3. Clashes(N, id, n)
    BY <1>6, <2>2 DEF Clashes
  <2> QED
    BY <1>2, <1>3, <2>1, <2>3 DEF Stored, N, id, n
<1> QED
  BY <1>4, <1>5, <1>6

\* The two maps after the first k nodes of r; M and P are the map of the lattice
\* and the proposals before it.
NodesInStep(s, r, M, P, k) ==
  LET J == NodesJoined(M, r)[k]
  IN  /\ Matches(NodesUpTo(s, r, k), J)
      /\ JoinOf(J, P \cup Proposals(r, k))

LEMMA NodeInStep ==
  ASSUME NEW s, Unconflicted(s), NEW r, NEW a, NodesKnown(r, a), NodeItems(r) = 1..a,
         NEW M, NEW P, NEW k \in 1..a, NodesInStep(s, r, M, P, k - 1)
  PROVE  NodesInStep(s, r, M, P, k)
<1> DEFINE id == r.nodes[k].id
           n == ProtoNodeToDomain(r.nodes[k])
           N == NodesUpTo(s, r, k - 1)
           J == NodesJoined(M, r)[k - 1]
<1>1. /\ a \in Nat /\ k \in Nat \ {0} /\ NodesKnown(r, k)
      /\ 1..k = (1..(k - 1)) \cup {k}
  BY DEF NodesKnown
<1>2. NodesJoined(M, r)[k] = Lifted(J, id, n)
  BY <1>1, NodesJoinedSteps, OneNodeJoined
<1>3. /\ id \in Text /\ IsNode(n) /\ ~ HasConflict(n)
      /\ NodesUpTo(s, r, k) = Stored(N, id, n)
  BY <1>1, NodeTaken
<1>4. Proposals(r, k) = Proposals(r, k - 1) \cup {<<id, n>>}
  BY <1>1 DEF Proposals
<1>5. Matches(N, J) /\ JoinOf(J, P \cup Proposals(r, k - 1))
  BY DEF NodesInStep
<1> HIDE DEF id, n, N, J
<1>6. Matches(Stored(N, id, n), Lifted(J, id, n))
  BY <1>3, <1>5, OneProposal
<1>7. JoinOf(Lifted(J, id, n), (P \cup Proposals(r, k - 1)) \cup {<<id, n>>})
  BY <1>3, <1>5, OneProposalJoined
<1>8. (P \cup Proposals(r, k - 1)) \cup {<<id, n>>} = P \cup Proposals(r, k)
  BY <1>4
<1>9. JoinOf(Lifted(J, id, n), P \cup Proposals(r, k))
  BY <1>7, <1>8
<1> QED
  BY <1>2, <1>3, <1>6, <1>9 DEF NodesInStep

LEMMA NodesTaken ==
  ASSUME NEW s, Unconflicted(s), NEW r, NEW a, NodesKnown(r, a), NodeItems(r) = 1..a,
         NEW M, Matches(s.nodes, M), NEW P, JoinOf(M, P)
  PROVE  NodesInStep(s, r, M, P, a)
<1> DEFINE Bad == {k \in 0..a : ~ NodesInStep(s, r, M, P, k)}
<1>1. a \in Nat
  BY DEF NodesKnown
<1>2. NodesInStep(s, r, M, P, 0)
  <2>1. NodesJoined(M, r)[0] = M
    BY <1>1, NodesJoinedSteps
  <2>2. NodesUpTo(s, r, 0) = s.nodes
    BY NothingUpTo DEF Unconflicted
  <2>3. Proposals(r, 0) = {}
    BY DEF Proposals
  <2>4. P \cup {} = P
    OBVIOUS
  <2> QED
    BY <2>1, <2>2, <2>3, <2>4 DEF NodesInStep
<1>3. Bad = {}
  <2> SUFFICES ASSUME Bad # {}
               PROVE  FALSE
    OBVIOUS
  <2> DEFINE b == Least(Bad)
  <2>1. b \in Bad /\ \A k \in Bad : b <= k
    <3>1. Bad \in SUBSET Nat
      BY <1>1
    <3> HIDE DEF Bad
    <3> QED
      BY <3>1, LeastExists
  <2> HIDE DEF b
  <2>2. b \in 1..a /\ b - 1 \in 0..a /\ ~ (b <= b - 1)
    BY <1>1, <1>2, <2>1
  <2>3. b - 1 \notin Bad /\ ~ NodesInStep(s, r, M, P, b)
    <3>1. ~ NodesInStep(s, r, M, P, b)
      BY <2>1
    <3> HIDE DEF Bad
    <3> QED
      BY <2>1, <2>2, <3>1
  <2>4. NodesInStep(s, r, M, P, b - 1)
    BY <2>2, <2>3
  <2> QED
    BY <2>2, <2>3, <2>4, NodeInStep
<1> QED
  BY <1>1, <1>3

\* No valid edge is passed over for having no provenance.
LEMMA EdgeAttributed ==
  ASSUME NEW r, Valid(r), NEW k \in Nat \ {0}, EdgesKnown(r, k)
  PROVE  Attributed(CollectProvenance(r.edges[k].provenance))
<1>1. r \in Message /\ r.rpc = "MergeHypothesis" /\ k \in 1..k /\ k <= Len(r.edges)
  BY DEF EdgesKnown, NodesKnown
<1>2. r.edges \in Seq(ProtoEdge)
  BY <1>1, MessageForms
<1>3. k \in DOMAIN r.edges
  BY <1>1, <1>2
<1>4. r.edges[k] \in ProtoEdge /\ ValidEdge(r.edges[k])
  BY <1>1, <1>2, <1>3, ElementType DEF Valid
<1> QED
  BY <1>4, ValidProvenancesAttribute DEF ValidEdge, ProtoEdge

\* The two maps of edges are one map.
LEMMA EdgeInStep ==
  ASSUME NEW s, NEW r, Valid(r), NEW b, EdgesKnown(r, b), EdgeItems(r) = 1..b,
         NEW k \in 1..b,
         EdgesJoined(s.edges, r)[k - 1] = EdgesUpTo(s, r, k - 1)
  PROVE  EdgesJoined(s.edges, r)[k] = EdgesUpTo(s, r, k)
<1> DEFINE key == ProtoEdgeKey(r.edges[k])
           p == CollectProvenance(r.edges[k].provenance)
           E == EdgesUpTo(s, r, k - 1)
<1>1. b \in Nat /\ k \in Nat \ {0} /\ EdgesKnown(r, k)
  BY DEF EdgesKnown
<1>2. EdgesJoined(s.edges, r)[k] = EdgeMapMerge(E, EdgeDelta(r, k))
  BY <1>1, EdgesJoinedSteps
<1>3. EdgeMapMerge(E, EdgeDelta(r, k))
        = Put(E, key, IF key \in DOMAIN E THEN EdgeMerge(E[key], p) ELSE p)
  BY <1>1, EdgeAttributed, OneEdgeJoined
<1>4. CASE key \in DOMAIN E
  BY <1>1, <1>2, <1>3, <1>4, EdgeAgain
<1>5. CASE key \notin DOMAIN E
  BY <1>1, <1>2, <1>3, <1>5, FirstEdge
<1> QED
  BY <1>4, <1>5

LEMMA EdgesTaken ==
  ASSUME NEW s, IsState(s), NEW r, Valid(r), NEW b, EdgesKnown(r, b), EdgeItems(r) = 1..b
  PROVE  EdgesJoined(s.edges, r)[b] = EdgesUpTo(s, r, b)
<1> DEFINE Bad == {k \in 0..b : EdgesJoined(s.edges, r)[k] # EdgesUpTo(s, r, k)}
<1>1. b \in Nat
  BY DEF EdgesKnown
<1>2. EdgesJoined(s.edges, r)[0] = EdgesUpTo(s, r, 0)
  BY <1>1, EdgesJoinedSteps, NothingUpTo
<1>3. Bad = {}
  <2> SUFFICES ASSUME Bad # {}
               PROVE  FALSE
    OBVIOUS
  <2> DEFINE m == Least(Bad)
  <2>1. m \in Bad /\ \A k \in Bad : m <= k
    <3>1. Bad \in SUBSET Nat
      BY <1>1
    <3> HIDE DEF Bad
    <3> QED
      BY <3>1, LeastExists
  <2> HIDE DEF m
  <2>2. m \in 1..b /\ m - 1 \in 0..b /\ ~ (m <= m - 1)
    BY <1>1, <1>2, <2>1
  <2>3. m - 1 \notin Bad /\ EdgesJoined(s.edges, r)[m] # EdgesUpTo(s, r, m)
    <3>1. EdgesJoined(s.edges, r)[m] # EdgesUpTo(s, r, m)
      BY <2>1
    <3> HIDE DEF Bad
    <3> QED
      BY <2>1, <2>2, <3>1
  <2>4. EdgesJoined(s.edges, r)[m - 1] = EdgesUpTo(s, r, m - 1)
    BY <2>2, <2>3
  <2> QED
    BY <2>2, <2>3, <2>4, EdgeInStep
<1> QED
  BY <1>1, <1>3

-----------------------------------------------------------------------------
(* How far a proposal gets.                                                *)

LEMMA PrefixIsInterval ==
  ASSUME NEW S, NEW items \in Seq(S), NEW enum
  PROVE  \E a \in 0..Len(items) :
           /\ Prefix(items, enum) = 1..a
           /\ \A j \in 1..a : items[j].type \in DOMAIN enum
<1> DEFINE n == Len(items)
           Strange == {j \in 1..n : items[j].type \notin DOMAIN enum}
<1>1. DOMAIN items = 1..n /\ n \in Nat
  OBVIOUS
<1>2. Strange \in SUBSET Nat /\ Strange \subseteq 1..n
  BY <1>1
<1> HIDE DEF n
<1>3. PICK a \in 0..n : /\ \A j \in 1..a : j \notin Strange
                        /\ a < n => a + 1 \in Strange
  <2>1. CASE Strange = {}
    <3>1. n \in 0..n
      BY <1>1
    <3> HIDE DEF Strange
    <3> QED
      BY <1>1, <2>1, <3>1
  <2>2. CASE Strange # {}
    <3> DEFINE b == Least(Strange)
    <3> HIDE DEF Strange
    <3>1. b \in Strange /\ \A j \in Strange : b <= j
      BY <1>2, <2>2, LeastExists
    <3> HIDE DEF b
    <3>2. b \in 1..n /\ b - 1 \in 0..n /\ (b - 1) + 1 = b /\ \A j \in 1..(b - 1) : ~ (b <= j)
      BY <1>1, <1>2, <3>1
    <3> QED
      BY <3>1, <3>2
  <2> QED
    BY <2>1, <2>2
<1>4. \A j \in 1..a : items[j].type \in DOMAIN enum
  BY <1>1, <1>3
<1>5. ASSUME NEW i \in 1..a
      PROVE  i \in Prefix(items, enum)
  <2>1. i \in 1..n /\ 1..i \subseteq 1..a
    BY <1>1
  <2> QED
    BY <1>1, <1>4, <2>1 DEF Prefix
<1>6. ASSUME NEW i \in Prefix(items, enum), i \notin 1..a
      PROVE  FALSE
  <2>1. i \in 1..n /\ \A j \in 1..i : items[j].type \in DOMAIN enum
    BY <1>1 DEF Prefix
  <2>2. a < n /\ a + 1 \in 1..i
    BY <1>1, <1>6, <2>1
  <2>3. a + 1 \in Strange
    BY <1>3, <2>2
  <2> QED
    BY <2>1, <2>2, <2>3
<1> QED
  BY <1>4, <1>5, <1>6 DEF n

\* r is merged up to its a-th node and its b-th edge.
Reaches(r, a, b) ==
  /\ NodesKnown(r, a) /\ NodeItems(r) = 1..a
  /\ EdgeItems(r) = 1..b
  /\ b # 0 => EdgesKnown(r, b)
  /\ b \in Nat

LEMMA ProposalReaches ==
  ASSUME NEW r \in Message, r.rpc = "MergeHypothesis"
  PROVE  \E a, b \in Nat : Reaches(r, a, b)
<1>1. r.nodes \in Seq(ProtoNode) /\ r.edges \in Seq(ProtoEdge)
  BY MessageForms
<1>2. /\ DOMAIN r.nodes = 1..Len(r.nodes) /\ Len(r.nodes) \in Nat
      /\ DOMAIN r.edges = 1..Len(r.edges) /\ Len(r.edges) \in Nat
  BY <1>1
<1>3. PICK a \in 0..Len(r.nodes) :
        /\ Prefix(r.nodes, NodeType) = 1..a
        /\ \A j \in 1..a : r.nodes[j].type \in DOMAIN NodeType
  BY <1>1, PrefixIsInterval
<1>4. a \in Nat /\ a <= Len(r.nodes)
  BY <1>2
<1>5. NodesKnown(r, a) /\ NodeItems(r) = 1..a
  BY <1>3, <1>4 DEF NodesKnown, NodeItems
<1>6. CASE NodeItems(r) = DOMAIN r.nodes
  <2>1. PICK b \in 0..Len(r.edges) :
          /\ Prefix(r.edges, EdgeType) = 1..b
          /\ \A j \in 1..b : r.edges[j].type \in DOMAIN EdgeType
    BY <1>1, PrefixIsInterval
  <2>2. b \in Nat /\ b <= Len(r.edges) /\ EdgeItems(r) = 1..b
    BY <1>2, <1>6, <2>1 DEF EdgeItems
  <2>3. a = Len(r.nodes)
    BY <1>2, <1>4, <1>5, <1>6
  <2>4. EdgesKnown(r, b)
    BY <1>5, <2>1, <2>2, <2>3 DEF EdgesKnown
  <2> QED
    BY <1>4, <1>5, <2>2, <2>4 DEF Reaches
<1>7. CASE NodeItems(r) # DOMAIN r.nodes
  <2>1. EdgeItems(r) = 1..0
    BY <1>7 DEF EdgeItems
  <2> QED
    BY <1>4, <1>5, <2>1 DEF Reaches
<1> QED
  BY <1>6, <1>7

-----------------------------------------------------------------------------
(* What one proposal does to the store and to the lattice.                 *)

LEMMA AccumulateType ==
  ASSUME NEW old, IsProvenance(old), NEW lists, NEW I \in SUBSET Nat,
         \A i \in I : lists[i].provenance \in Seq(ProtoProvenance)
  PROVE  /\ IsProvenance(Accumulate(old, lists, I))
         /\ DOMAIN Accumulate(old, lists, I)
              = DOMAIN old \cup UNION {Identities(lists[i].provenance) : i \in I}
<1> DEFINE new == UNION {Identities(lists[i].provenance) : i \in I}
           A == Accumulate(old, lists, I)
<1>1. /\ A = [k \in DOMAIN old \cup new |->
                IF k \in DOMAIN old THEN old[k] ELSE FirstTimestamp(lists, I, k)]
      /\ DOMAIN A = DOMAIN old \cup new
  BY DEF Accumulate
<1>2. new \subseteq ProvenanceKey
  <2> SUFFICES ASSUME NEW i \in I
               PROVE  Identities(lists[i].provenance) \subseteq ProvenanceKey
    OBVIOUS
  <2> QED
    BY CollectProvenanceType DEF IsProvenance, IsMap
<1>3. ASSUME NEW k \in new
      PROVE  FirstTimestamp(lists, I, k) \in Time
  <2> DEFINE J == {j \in I : k \in Identities(lists[j].provenance)}
             i == Least(J)
  <2>1. J \in SUBSET Nat /\ J # {}
    BY <1>3
  <2>2. i \in J
    BY <2>1, LeastExists
  <2> HIDE DEF i
  <2>3. i \in I /\ k \in Identities(lists[i].provenance)
    BY <2>2
  <2>4. CollectProvenance(lists[i].provenance)[k] \in Time
    BY <2>3, CollectProvenanceType DEF IsProvenance, IsMap
  <2> QED
    BY <2>4 DEF FirstTimestamp, i
<1> HIDE DEF new, A
<1>4. DOMAIN old \subseteq ProvenanceKey /\ \A k \in DOMAIN old : old[k] \in Time
  BY DEF IsProvenance, IsMap
<1>5. DOMAIN A \subseteq ProvenanceKey
  BY <1>1, <1>2, <1>4
<1>6. A \in [DOMAIN A -> Time]
  BY <1>1, <1>3, <1>4
<1> QED
  BY <1>1, <1>5, <1>6 DEF IsProvenance, IsMap, A, new

\* Q is a set of pairs of a key and the identities proposed for it.
Connects(E, Q) ==
  /\ DOMAIN E = {x[1] : x \in Q}
  /\ \A k \in DOMAIN E : DOMAIN E[k] = UNION ProposedFor(Q, k)

EdgesTyped(E) ==
  IsAMap(E) /\ DOMAIN E \subseteq AnyEdgeKey /\ \A k \in DOMAIN E : IsProvenance(E[k])

\* All that r proposes before its first unknown type.
NodesOf(r) == {<<r.nodes[i].id, ProtoNodeToDomain(r.nodes[i])>> : i \in NodeItems(r)}
EdgesOf(r) ==
  {<<ProtoEdgeKey(r.edges[i]), Identities(r.edges[i].provenance)>> : i \in EdgeItems(r)}

\* The identities on record for the edge k, and those that r adds.
KnownIds(s, k) == IF k \in DOMAIN s.edges THEN DOMAIN s.edges[k] ELSE {}
NewIds(r, b, k) == UNION {Identities(r.edges[i].provenance) : i \in EdgesFor(r, b, k)}
GainsIds(s, r, b, k) == DOMAIN EdgeUpTo(s, r, b, k) = KnownIds(s, k) \cup NewIds(r, b, k)

LEMMA EdgeAdded ==
  ASSUME NEW s, EdgesTyped(s.edges), NEW r \in Message, r.rpc = "MergeHypothesis",
         NEW b \in Nat, EdgeItems(r) = 1..b, NEW k
  PROVE  IsProvenance(EdgeUpTo(s, r, b, k)) /\ GainsIds(s, r, b, k)
<1> DEFINE old == IF k \in DOMAIN s.edges THEN s.edges[k] ELSE EmptyMap
<1>1. IsProvenance(old)
  BY DEF EdgesTyped, EmptyMap, IsProvenance, IsMap
<1>2. DOMAIN old = KnownIds(s, k)
  BY DEF EmptyMap, KnownIds
<1>3. EdgesFor(r, b, k) \in SUBSET Nat
  BY DEF EdgesFor
<1>4. \A i \in EdgesFor(r, b, k) : r.edges[i].provenance \in Seq(ProtoProvenance)
  <2>1. r.edges \in Seq(ProtoEdge)
    BY MessageForms
  <2>2. \A i \in EdgesFor(r, b, k) : i \in DOMAIN r.edges
    BY EdgeItemsType DEF EdgesFor
  <2>3. \A i \in EdgesFor(r, b, k) : r.edges[i] \in ProtoEdge
    BY <2>1, <2>2, ElementType
  <2> QED
    BY <2>3 DEF ProtoEdge
<1>5. EdgeUpTo(s, r, b, k) = Accumulate(old, r.edges, EdgesFor(r, b, k))
  BY DEF EdgeUpTo
<1> DEFINE I == EdgesFor(r, b, k)
           lists == r.edges
<1> HIDE DEF old, I, lists
<1>6. /\ IsProvenance(Accumulate(old, lists, I))
      /\ DOMAIN Accumulate(old, lists, I)
           = DOMAIN old \cup UNION {Identities(lists[i].provenance) : i \in I}
  BY <1>1, <1>3, <1>4, AccumulateType DEF I, lists
<1> QED
  BY <1>2, <1>5, <1>6 DEF GainsIds, NewIds, I, lists

LEMMA EdgesAdded ==
  ASSUME NEW s, EdgesTyped(s.edges), NEW r \in Message, r.rpc = "MergeHypothesis",
         NEW b \in Nat, EdgeItems(r) = 1..b, NEW Q, Connects(s.edges, Q)
  PROVE  /\ EdgesTyped(EdgesUpTo(s, r, b))
         /\ Connects(EdgesUpTo(s, r, b), Q \cup EdgesOf(r))
<1> DEFINE E == EdgesUpTo(s, r, b)
           R == EdgesOf(r)
<1>1. /\ DOMAIN E = DOMAIN s.edges \cup {ProtoEdgeKey(r.edges[i]) : i \in 1..b}
      /\ IsAMap(E) /\ \A k \in DOMAIN E : E[k] = EdgeUpTo(s, r, b, k)
  BY DEF EdgesUpTo, IsAMap
<1>2. \A i \in 1..b : ProtoEdgeKey(r.edges[i]) \in AnyEdgeKey
  BY EdgeItemsType
<1> DEFINE key(i) == ProtoEdgeKey(r.edges[i])
           ids(i) == Identities(r.edges[i].provenance)
           pair(i) == <<key(i), ids(i)>>
<1>3. \A i : pair(i)[1] = key(i) /\ pair(i)[2] = ids(i)
  OBVIOUS
<1>4. R = {pair(i) : i \in 1..b}
  BY DEF EdgesOf
<1>5. \A k : /\ EdgesFor(r, b, k) = {i \in 1..b : key(i) = k}
            /\ NewIds(r, b, k) = UNION {ids(i) : i \in EdgesFor(r, b, k)}
  BY DEF EdgesFor, NewIds
<1>6. /\ DOMAIN E = DOMAIN s.edges \cup {key(i) : i \in 1..b}
      /\ \A i \in 1..b : key(i) \in AnyEdgeKey
      /\ \A k : IsProvenance(EdgeUpTo(s, r, b, k))
  BY <1>1, <1>2, EdgeAdded
<1>7. ASSUME NEW k
      PROVE  DOMAIN EdgeUpTo(s, r, b, k) = KnownIds(s, k) \cup NewIds(r, b, k)
  <2>1. GainsIds(s, r, b, k)
    BY EdgeAdded
  <2> QED
    BY <2>1 DEF GainsIds
<1> HIDE DEF E, R, key, ids, pair
<1>8. {x[1] : x \in R} = {key(i) : i \in 1..b}
  BY <1>3, <1>4
<1>9. ASSUME NEW k
      PROVE  ProposedFor(R, k) = {ids(i) : i \in EdgesFor(r, b, k)}
  BY <1>3, <1>4, <1>5 DEF ProposedFor
<1>10. EdgesTyped(E)
  BY <1>1, <1>6 DEF EdgesTyped
<1>11. ASSUME NEW k \in DOMAIN E
       PROVE  DOMAIN E[k] = UNION ProposedFor(Q \cup R, k)
  <2>1. UNION ProposedFor(Q \cup R, k)
          = (UNION ProposedFor(Q, k)) \cup (UNION ProposedFor(R, k))
    <3>1. ProposedFor(Q \cup R, k) = ProposedFor(Q, k) \cup ProposedFor(R, k)
      BY DEF ProposedFor
    <3> QED
      BY <3>1
  <2>2. UNION ProposedFor(Q, k) = KnownIds(s, k)
    <3>1. CASE k \in DOMAIN s.edges
      BY <3>1 DEF Connects, KnownIds
    <3>2. CASE k \notin DOMAIN s.edges
      <4>1. ProposedFor(Q, k) = {}
        BY <3>2 DEF Connects, ProposedFor
      <4> QED
        BY <3>2, <4>1 DEF KnownIds
    <3> QED
      BY <3>1, <3>2
  <2>3. UNION ProposedFor(R, k) = NewIds(r, b, k)
    BY <1>5, <1>9
  <2>4. E[k] = EdgeUpTo(s, r, b, k)
    BY <1>1
  <2> QED
    BY <1>7, <2>1, <2>2, <2>3, <2>4
<1>12. DOMAIN E = {x[1] : x \in Q \cup R}
  BY <1>6, <1>8 DEF Connects
<1> QED
  BY <1>10, <1>11, <1>12 DEF Connects, E, R

\* The store s, the lattice g, and the proposals P and Q that are in them.
InStep(s, g, P, Q) ==
  /\ g = [nodes |-> g.nodes, edges |-> g.edges]
  /\ Matches(s.nodes, g.nodes) /\ JoinOf(g.nodes, P)
  /\ s.edges = g.edges /\ EdgesTyped(s.edges) /\ Connects(s.edges, Q)

LEMMA ProposalServed ==
  ASSUME NEW s, Unconflicted(s), NEW g, NEW P, NEW Q, InStep(s, g, P, Q),
         NEW r \in Message, Valid(r), r.rpc = "MergeHypothesis"
  PROVE  /\ InStep(Merged(s, r), Joined(g, r), P \cup NodesOf(r), Q \cup EdgesOf(r))
         /\ Merged(s, r) = [ nodes |-> Merged(s, r).nodes, edges |-> Merged(s, r).edges,
                             incidents |-> s.incidents ]
<1>1. PICK a \in Nat, b \in Nat : Reaches(r, a, b)
  BY ProposalReaches
<1>2. /\ NodesKnown(r, a) /\ NodeItems(r) = 1..a /\ EdgeItems(r) = 1..b
      /\ b # 0 => EdgesKnown(r, b)
  BY <1>1 DEF Reaches
<1>3. /\ s = [nodes |-> s.nodes, edges |-> s.edges, incidents |-> s.incidents]
      /\ IsState(s)
  BY DEF Unconflicted, IsState
<1>4. /\ Merged(s, r).nodes = NodesUpTo(s, r, a)
      /\ Merged(s, r).edges = EdgesUpTo(s, r, b)
      /\ Merged(s, r) = [ nodes |-> Merged(s, r).nodes, edges |-> Merged(s, r).edges,
                          incidents |-> s.incidents ]
  <2>1. Merged(s, r)
          = [s EXCEPT !.nodes = NodesUpTo(s, r, a), !.edges = EdgesUpTo(s, r, b)]
    BY <1>2, MergedUpTo
  <2> QED
    BY <1>3, <2>1
<1>5. /\ Joined(g, r) = [nodes |-> Joined(g, r).nodes, edges |-> Joined(g, r).edges]
      /\ Joined(g, r).nodes = NodesJoined(g.nodes, r)[a]
      /\ Joined(g, r).edges = EdgesJoined(g.edges, r)[b]
  <2>1. Cardinality(NodeItems(r)) = a /\ Cardinality(EdgeItems(r)) = b
    BY <1>2, FS_Interval
  <2> QED
    BY <2>1 DEF Joined
<1>6. NodesInStep(s, r, g.nodes, P, a)
  BY <1>2, NodesTaken DEF InStep
<1>7. NodesOf(r) = Proposals(r, a)
  BY <1>2 DEF NodesOf, Proposals
<1>8. EdgesJoined(s.edges, r)[b] = EdgesUpTo(s, r, b)
  <2>1. CASE b = 0
    <3>1. EdgesJoined(s.edges, r)[0] = s.edges
      BY <1>2, <2>1, EdgesJoinedSteps
    <3> QED
      BY <1>3, <2>1, <3>1, NothingUpTo
  <2>2. CASE b # 0
    BY <1>2, <1>3, <2>2, EdgesTaken
  <2> QED
    BY <2>1, <2>2
<1>9. /\ EdgesTyped(EdgesUpTo(s, r, b))
      /\ Connects(EdgesUpTo(s, r, b), Q \cup EdgesOf(r))
  BY <1>2, EdgesAdded DEF InStep
<1>10. s.edges = g.edges
  BY DEF InStep
<1> QED
  BY <1>4, <1>5, <1>6, <1>7, <1>8, <1>9, <1>10 DEF InStep, NodesInStep

-----------------------------------------------------------------------------
(* What any request does to the incidents.                                 *)

CreatedBy(S) == {q.incident_id : q \in {x \in S : x.rpc = "CreateIncident"}}
MarksOf(S, rpc, i) ==
  UNION {Names(q) : q \in {x \in S : x.rpc = rpc /\ x.incident_id = i}}

LEMMA IncidentsServed ==
  ASSUME NEW s, Keyed(s), NEW r \in Message, r.rpc \in WriteRpcs, Registered(s, r),
         NEW now \in Time
  PROVE  DOMAIN After(s, r, now).incidents = DOMAIN s.incidents \cup CreatedBy({r})
<1>1. s = [nodes |-> s.nodes, edges |-> s.edges, incidents |-> s.incidents]
  BY DEF Keyed
<1>2. CASE r.rpc = "MergeHypothesis"
  <2>1. After(s, r, now) = Merged(s, r)
    BY <1>2 DEF After, TombstoneRpcs
  <2>2. Merged(s, r).incidents = s.incidents
    BY <1>1 DEF Merged
  <2>3. CreatedBy({r}) = {}
    BY <1>2 DEF CreatedBy
  <2> QED
    BY <2>1, <2>2, <2>3
<1>3. CASE r.rpc \in TombstoneRpcs
  <2>1. After(s, r, now) = Tombstoned(s, r)
    BY <1>3 DEF After, TombstoneRpcs
  <2>2. DOMAIN Tombstoned(s, r).incidents = DOMAIN s.incidents
    BY <1>1, <1>3 DEF Tombstoned, TombstoneRpcs
  <2>3. CreatedBy({r}) = {}
    BY <1>3 DEF CreatedBy, TombstoneRpcs
  <2> QED
    BY <2>1, <2>2, <2>3
<1>4. CASE r.rpc = "CreateIncident"
  <2>1. CreatedBy({r}) = {r.incident_id}
    BY <1>4 DEF CreatedBy
  <2>2. CASE r.incident_id \in DOMAIN s.incidents
    <3>1. After(s, r, now) = s
      BY <1>4, <2>2 DEF After, TombstoneRpcs
    <3> QED
      BY <2>1, <2>2, <3>1
  <2>3. CASE r.incident_id \notin DOMAIN s.incidents
    <3>1. After(s, r, now)
            = [s EXCEPT !.incidents = Put(@, r.incident_id, NewIncident(now))]
      BY <1>4, <2>3 DEF After, TombstoneRpcs
    <3>2. After(s, r, now).incidents = Put(s.incidents, r.incident_id, NewIncident(now))
      BY <1>1, <3>1
    <3>3. DOMAIN Put(s.incidents, r.incident_id, NewIncident(now))
            = DOMAIN s.incidents \cup {r.incident_id}
      BY DEF Put
    <3> QED
      BY <2>1, <3>2, <3>3
  <2> QED
    BY <2>2, <2>3
<1> QED
  BY <1>2, <1>3, <1>4 DEF WriteRpcs

-----------------------------------------------------------------------------
(* What the callers are told of their proposals.                           *)

\* The verdict that merge_hypothesis gives on the i-th node of r.
VerdictOn(s, r, i) == IF Agrees(s, r, i) THEN "accepted" ELSE "conflict"

VerdictsGiven(s, r) == {<<r, i, VerdictOn(s, r, i)>> : i \in NodeItems(r)}

LEMMA NodeVerdict ==
  ASSUME NEW s, NEW r, NEW i
  PROVE  NodeEntry(s, r, i).outcome = "conflict" <=> ~ Agrees(s, r, i)
BY DEF NodeEntry

LEMMA AnswersGiven ==
  ASSUME NEW s, NEW r \in Message, r.rpc = "MergeHypothesis"
  PROVE  Answers(r, ReportOf(s, r)) = IF Complete(r) THEN VerdictsGiven(s, r) ELSE {}
<1>1. Registered(s, r)
  BY DEF Registered, IncidentRpcs, TombstoneRpcs
<1>2. CASE ~ Complete(r)
  BY <1>1, <1>2 DEF ReportOf, StatusOf, Answers
<1>3. CASE Complete(r)
  <2> DEFINE x == Len(r.nodes)
             y == Len(r.edges)
             S == {NodeEntry(s, r, i) : i \in 1..x} \cup {EdgeEntry(s, r, i) : i \in 1..y}
             u == [i \in 1..x |-> NodeEntry(s, r, i)]
             v == [i \in 1..y |-> EdgeEntry(s, r, i)]
             rep == u \o v
  <2>1. /\ DOMAIN r.nodes = 1..x /\ x \in Nat /\ DOMAIN r.edges = 1..y /\ y \in Nat
        /\ NodeItems(r) = 1..x
    <3>1. r.nodes \in Seq(ProtoNode) /\ r.edges \in Seq(ProtoEdge)
      BY MessageForms
    <3> QED
      BY <1>3, <3>1 DEF Complete
  <2>2. ReportOf(s, r) = rep
    <3>1. StatusOf(s, r) = "Ok"
      BY <1>1, <1>3 DEF StatusOf
    <3>2. /\ [i \in DOMAIN r.nodes |-> NodeEntry(s, r, i)] = u
          /\ [i \in DOMAIN r.edges |-> EdgeEntry(s, r, i)] = v
      BY <2>1
    <3> HIDE DEF u, v
    <3> QED
      BY <3>1, <3>2 DEF ReportOf, TombstoneRpcs
  <2>3. u \in Seq(S) /\ Len(u) = x
    <3>1. u \in [1..x -> S]
      OBVIOUS
    <3> HIDE DEF u, S
    <3> QED
      BY <2>1, <3>1
  <2>4. v \in Seq(S) /\ Len(v) = y
    <3>1. v \in [1..y -> S]
      OBVIOUS
    <3> HIDE DEF v, S
    <3> QED
      BY <2>1, <3>1
  <2>5. \A i \in 1..x : u[i] = NodeEntry(s, r, i)
    OBVIOUS
  <2> HIDE DEF u, v, S, x, y
  <2>6. /\ DOMAIN rep = 1..(x + y)
        /\ \A i \in 1..(x + y) : rep[i] = IF i <= x THEN u[i] ELSE v[i - x]
    <3>1. /\ u \o v \in Seq(S) /\ Len(u \o v) = x + y
          /\ \A i \in 1..(x + y) : (u \o v)[i] = IF i <= x THEN u[i] ELSE v[i - x]
      BY <2>1, <2>3, <2>4, ConcatProperties
    <3>2. DOMAIN (u \o v) = 1..Len(u \o v)
      BY <3>1
    <3> QED
      BY <3>1, <3>2
  <2> HIDE DEF rep
  <2>7. DOMAIN r.nodes \cap DOMAIN rep = NodeItems(r)
    BY <2>1, <2>6
  <2>8. ASSUME NEW i \in NodeItems(r)
        PROVE  (IF rep[i].outcome = "conflict" THEN "conflict" ELSE "accepted")
                 = VerdictOn(s, r, i)
    <3>1. i \in 1..(x + y) /\ i <= x /\ i \in 1..x
      BY <2>1
    <3>2. rep[i] = NodeEntry(s, r, i)
      BY <2>5, <2>6, <3>1
    <3> QED
      BY <3>2, NodeVerdict DEF VerdictOn
  <2>9. Answers(r, rep) = VerdictsGiven(s, r)
    BY <2>7, <2>8 DEF Answers, VerdictsGiven
  <2> QED
    BY <1>3, <2>2, <2>9
<1> QED
  BY <1>2, <1>3

\* The stored node l has the fields of n, and all that n says besides.
SameFields(l, n) == l.node_type = n.node_type /\ l.label = n.label
Holds(l, n) ==
  (l.hypothetical => n.hypothetical) /\ DOMAIN n.provenance \subseteq DOMAIN l.provenance

LEMMA MergeAgain ==
  ASSUME NEW l, IsNode(l), ~ HasConflict(l), NEW n, IsNode(n), ~ HasConflict(n)
  PROVE  /\ HasConflict(NodeMerge(l, n)) <=> ~ SameFields(l, n)
         /\ SameFields(l, n) /\ Holds(l, n) => NodeMerge(l, n) = l
<1>1. HasConflict(NodeMerge(l, n)) <=> ~ SameFields(l, n)
  BY DEF HasConflict, NodeMerge, ConflictMerge, SameFields
<1>2. ASSUME SameFields(l, n), Holds(l, n)
      PROVE  NodeMerge(l, n) = l
  <2>1. /\ l = [ node_type |-> l.node_type, label |-> l.label,
                 hypothetical |-> l.hypothetical, provenance |-> l.provenance ]
        /\ l.hypothetical \in BOOLEAN /\ n.hypothetical \in BOOLEAN
        /\ l.provenance = [k \in DOMAIN l.provenance |-> l.provenance[k]]
    BY DEF IsNode, IsProvenance, IsMap
  <2>2. SetUnion(l.provenance, n.provenance) = l.provenance
    BY <1>2, <2>1 DEF SetUnion, Holds
  <2>3. MinMerge(l.hypothetical, n.hypothetical) = l.hypothetical
    BY <1>2, <2>1 DEF MinMerge, Holds
  <2> QED
    BY <1>2, <2>1, <2>2, <2>3 DEF NodeMerge, ConflictMerge, SameFields
<1> QED
  BY <1>1, <1>2

\* A node that was there before r is there afterwards, with what it held.
LEMMA OldNodeAfter ==
  ASSUME NEW s, NEW r, NEW id \in DOMAIN s.nodes
  PROVE  SameFields(NodeAfter(s, r, id), s.nodes[id]) /\ Holds(NodeAfter(s, r, id), s.nodes[id])
<1>1. Anchor(s, r, id) = s.nodes[id]
  BY DEF Anchor
<1> QED
  BY <1>1 DEF NodeAfter, Accumulate, SameFields, Holds

\* What r proposes and is accepted is there afterwards.
LEMMA ItemAfter ==
  ASSUME NEW s, NEW r, NEW i \in NodeItems(r)
  PROVE  LET l == NodeAfter(s, r, r.nodes[i].id)
             n == ProtoNodeToDomain(r.nodes[i])
         IN  /\ SameFields(l, n) <=> Agrees(s, r, i)
             /\ Agrees(s, r, i) => Holds(l, n)
<1> DEFINE id == r.nodes[i].id
           n == ProtoNodeToDomain(r.nodes[i])
           l == NodeAfter(s, r, id)
           I == {j \in NodeItemsFor(r, id) : Agrees(s, r, j)}
           new == UNION {Identities(r.nodes[j].provenance) : j \in I}
<1>1. l.node_type = Anchor(s, r, id).node_type /\ l.label = Anchor(s, r, id).label
  BY DEF NodeAfter
<1>2. SameFields(l, n) <=> Agrees(s, r, i)
  BY <1>1 DEF SameFields, Agrees
<1>3. ASSUME Agrees(s, r, i)
      PROVE  Holds(l, n)
  <2>1. i \in I
    BY <1>3 DEF NodeItemsFor
  <2>2. l.hypothetical => n.hypothetical
    BY <2>1 DEF NodeAfter, ProtoNodeToDomain
  <2>3. DOMAIN n.provenance = Identities(r.nodes[i].provenance)
    BY DEF ProtoNodeToDomain, CollectProvenance
  <2>4. new \subseteq DOMAIN l.provenance
    BY DEF NodeAfter, Accumulate
  <2>5. Identities(r.nodes[i].provenance) \subseteq new
    BY <2>1
  <2> HIDE DEF new, l, n
  <2> QED
    BY <2>2, <2>3, <2>4, <2>5 DEF Holds
<1> QED
  BY <1>2, <1>3

-----------------------------------------------------------------------------
(* The inductive invariant: each replay holds what follows from the set of *)
(* the requests it has served, apart from the order they came in.          *)

ProposedBy(S) == UNION {NodesOf(q) : q \in {x \in S : x.rpc = "MergeHypothesis"}}
ConnectedBy(S) == UNION {EdgesOf(q) : q \in {x \in S : x.rpc = "MergeHypothesis"}}

\* The store s and the lattice g, when the requests S were served.
HoldsAll(s, g, S) ==
  /\ IsState(s)
  /\ InStep(s, g, ProposedBy(S), ConnectedBy(S))
  /\ DOMAIN s.incidents = CreatedBy(S)
  /\ \A i : NodeMarks(s, i) = MarksOf(S, "MergeNodeTombstones", i)
  /\ \A i : EdgeMarks(s, i) = MarksOf(S, "MergeEdgeTombstones", i)

LEMMA ServedMore ==
  ASSUME NEW S, NEW r
  PROVE  LET R == S \cup {r}
         IN  /\ r.rpc = "MergeHypothesis" =>
                  /\ ProposedBy(R) = ProposedBy(S) \cup NodesOf(r)
                  /\ ConnectedBy(R) = ConnectedBy(S) \cup EdgesOf(r)
             /\ r.rpc # "MergeHypothesis" =>
                  ProposedBy(R) = ProposedBy(S) /\ ConnectedBy(R) = ConnectedBy(S)
<1> DEFINE R == S \cup {r}
<1>1. r.rpc = "MergeHypothesis" =>
        /\ ProposedBy(R) = ProposedBy(S) \cup NodesOf(r)
        /\ ConnectedBy(R) = ConnectedBy(S) \cup EdgesOf(r)
  BY DEF ProposedBy, ConnectedBy
<1>2. r.rpc # "MergeHypothesis" =>
        ProposedBy(R) = ProposedBy(S) /\ ConnectedBy(R) = ConnectedBy(S)
  BY DEF ProposedBy, ConnectedBy
<1> QED
  BY <1>1, <1>2

LEMMA HoldsWithout ==
  ASSUME NEW s, NEW g, NEW S, HoldsAll(s, g, S)
  PROVE  Unconflicted(s) /\ Keyed(s)
BY DEF HoldsAll, InStep, Matches, Agreeing, Unconflicted, Keyed, IsState

LEMMA MarksServed ==
  ASSUME NEW s, NEW r, Registered(s, r), NEW rpc, NEW i
  PROVE  NewMarks(s, r, rpc, i) = MarksOf({r}, rpc, i)
BY DEF NewMarks, MarksOf

\* A request that is no proposal leaves the graph alone.
LEMMA GraphStands ==
  ASSUME NEW s, IsState(s), NEW r \in Message, r.rpc \in WriteRpcs,
         r.rpc # "MergeHypothesis", Registered(s, r), NEW now \in Time
  PROVE  /\ After(s, r, now).nodes = s.nodes
         /\ After(s, r, now).edges = s.edges
<1>1. s = [nodes |-> s.nodes, edges |-> s.edges, incidents |-> s.incidents]
  BY DEF IsState
<1>2. CASE r.rpc \in TombstoneRpcs
  <2>1. After(s, r, now) = Tombstoned(s, r)
    BY <1>2 DEF After, TombstoneRpcs
  <2> QED
    BY <1>1, <2>1 DEF Tombstoned
<1>3. CASE r.rpc = "CreateIncident" /\ r.incident_id \notin DOMAIN s.incidents
  <2>1. After(s, r, now) = [s EXCEPT !.incidents = Put(@, r.incident_id, NewIncident(now))]
    BY <1>3 DEF After, TombstoneRpcs
  <2> QED
    BY <1>1, <2>1
<1>4. CASE r.rpc = "CreateIncident" /\ r.incident_id \in DOMAIN s.incidents
  <2>1. After(s, r, now) = s
    BY <1>4 DEF After, TombstoneRpcs
  <2> QED
    BY <2>1
<1> QED
  BY <1>2, <1>3, <1>4 DEF WriteRpcs

LEMMA RequestServed ==
  ASSUME NEW s, NEW g, NEW S, HoldsAll(s, g, S),
         NEW r \in Message, Valid(r), r.rpc \in WriteRpcs, Registered(s, r), NEW now \in Time
  PROVE  HoldsAll(After(s, r, now), Joined(g, r), S \cup {r})
<1> DEFINE q == After(s, r, now)
           h == Joined(g, r)
           R == S \cup {r}
<1>1. Unconflicted(s) /\ Keyed(s) /\ IsState(s)
  BY HoldsWithout DEF HoldsAll
<1>2. /\ Keyed(q)
      /\ \A i : NodeMarks(q, i) = NodeMarks(s, i) \cup MarksOf({r}, "MergeNodeTombstones", i)
      /\ \A i : EdgeMarks(q, i) = EdgeMarks(s, i) \cup MarksOf({r}, "MergeEdgeTombstones", i)
  BY <1>1, AfterIncidents, MarksServed
<1>3. DOMAIN q.incidents = DOMAIN s.incidents \cup CreatedBy({r})
  BY <1>1, IncidentsServed
<1>4. InStep(q, h, ProposedBy(R), ConnectedBy(R))
  <2>1. CASE r.rpc = "MergeHypothesis"
    <3>1. q = Merged(s, r)
      BY <2>1 DEF After, TombstoneRpcs
    <3>2. InStep(Merged(s, r), h, ProposedBy(S) \cup NodesOf(r), ConnectedBy(S) \cup EdgesOf(r))
      BY <1>1, <2>1, ProposalServed DEF HoldsAll
    <3> QED
      BY <2>1, <3>1, <3>2, ServedMore
  <2>2. CASE r.rpc # "MergeHypothesis"
    <3>1. h = g
      BY <2>2 DEF Joined
    <3>2. q.nodes = s.nodes /\ q.edges = s.edges
      BY <1>1, <2>2, GraphStands
    <3>3. ProposedBy(R) = ProposedBy(S) /\ ConnectedBy(R) = ConnectedBy(S)
      BY <2>2, ServedMore
    <3> HIDE DEF q, h, R
    <3> QED
      BY <3>1, <3>2, <3>3 DEF HoldsAll, InStep
  <2> QED
    BY <2>1, <2>2
<1>5. /\ CreatedBy(R) = CreatedBy(S) \cup CreatedBy({r})
      /\ \A rpc, i : MarksOf(R, rpc, i) = MarksOf(S, rpc, i) \cup MarksOf({r}, rpc, i)
  BY DEF CreatedBy, MarksOf
<1> HIDE DEF q, h, R
<1>6. IsState(q)
  BY <1>2, <1>4 DEF InStep, Matches, Agreeing, EdgesTyped, IsAMap, Keyed, IsState
<1>7. DOMAIN q.incidents = CreatedBy(R)
  BY <1>3, <1>5 DEF HoldsAll
<1>8. ASSUME NEW i
      PROVE  /\ NodeMarks(q, i) = MarksOf(R, "MergeNodeTombstones", i)
             /\ EdgeMarks(q, i) = MarksOf(R, "MergeEdgeTombstones", i)
  <2>1. /\ NodeMarks(s, i) = MarksOf(S, "MergeNodeTombstones", i)
        /\ EdgeMarks(s, i) = MarksOf(S, "MergeEdgeTombstones", i)
    BY DEF HoldsAll
  <2> QED
    BY <1>2, <1>5, <2>1
<1>9. HoldsAll(q, h, R)
  BY <1>4, <1>6, <1>7, <1>8 DEF HoldsAll
<1> QED
  BY <1>9 DEF q, h, R

\* The verdicts in T on the i-th node of r.
VerdictsIn(T, r, i) == {x[3] : x \in {y \in T : y[1] = r /\ y[2] = i}}

\* The store s has taken the i-th node of r or contradicts it, and the verdicts
\* in T say which.
ItemTold(s, T, r, i) ==
  LET id == r.nodes[i].id
      n  == ProtoNodeToDomain(r.nodes[i])
  IN  /\ id \in DOMAIN s.nodes
      /\ SameFields(s.nodes[id], n) => Holds(s.nodes[id], n)
      /\ Complete(r) =>
           VerdictsIn(T, r, i) = {IF SameFields(s.nodes[id], n) THEN "accepted" ELSE "conflict"}

\* The verdicts T on the requests S, when the store is s.
TellsAll(s, S, T) ==
  /\ \A x \in T : x[1] \in S
  /\ \A r \in {q \in S : q.rpc = "MergeHypothesis"} :
       \A i \in NodeItems(r) : ItemTold(s, T, r, i)

LEMMA MergedNodes ==
  ASSUME NEW s, IsState(s), NEW r
  PROVE  /\ DOMAIN Merged(s, r).nodes
              = DOMAIN s.nodes \cup {r.nodes[i].id : i \in NodeItems(r)}
         /\ \A id \in DOMAIN Merged(s, r).nodes : Merged(s, r).nodes[id] = NodeAfter(s, r, id)
<1>1. s = [nodes |-> s.nodes, edges |-> s.edges, incidents |-> s.incidents]
  BY DEF IsState
<1>2. Merged(s, r).nodes
        = [id \in DOMAIN s.nodes \cup {r.nodes[i].id : i \in NodeItems(r)} |->
             NodeAfter(s, r, id)]
  BY <1>1 DEF Merged
<1> QED
  BY <1>2

\* What was told of a node stays true when more is merged.
LEMMA ToldBefore ==
  ASSUME NEW s, IsState(s), NEW r, NEW q, NEW i, NEW T, NEW new, ItemTold(s, T, q, i),
         VerdictsIn(T \cup new, q, i) = VerdictsIn(T, q, i)
  PROVE  ItemTold(Merged(s, r), T \cup new, q, i)
<1> DEFINE id == q.nodes[i].id
           n  == ProtoNodeToDomain(q.nodes[i])
           l == s.nodes[id]
           k == Merged(s, r).nodes[id]
<1>1. id \in DOMAIN s.nodes
  BY DEF ItemTold
<1>2. id \in DOMAIN Merged(s, r).nodes /\ k = NodeAfter(s, r, id)
  BY <1>1, MergedNodes
<1>3. SameFields(k, l) /\ Holds(k, l)
  BY <1>1, <1>2, OldNodeAfter
<1>4. /\ SameFields(l, n) => Holds(l, n)
      /\ Complete(q) =>
           VerdictsIn(T, q, i) = {IF SameFields(l, n) THEN "accepted" ELSE "conflict"}
  BY DEF ItemTold
<1> HIDE DEF id, n, k, l
<1>5. SameFields(k, n) <=> SameFields(l, n)
  BY <1>3 DEF SameFields
<1>6. Holds(l, n) => Holds(k, n)
  BY <1>3 DEF Holds
<1> QED
  BY <1>2, <1>4, <1>5, <1>6 DEF ItemTold, id, n, k, l

\* What is told of a node is true when the request has been served.
LEMMA ToldNow ==
  ASSUME NEW s, IsState(s), NEW r, NEW i \in NodeItems(r), NEW T,
         Complete(r) => VerdictsIn(T, r, i) = {VerdictOn(s, r, i)}
  PROVE  ItemTold(Merged(s, r), T, r, i)
<1> DEFINE id == r.nodes[i].id
           n  == ProtoNodeToDomain(r.nodes[i])
           k == Merged(s, r).nodes[id]
<1>1. id \in DOMAIN Merged(s, r).nodes /\ k = NodeAfter(s, r, id)
  BY MergedNodes
<1>2. (SameFields(k, n) <=> Agrees(s, r, i)) /\ (Agrees(s, r, i) => Holds(k, n))
  BY <1>1, ItemAfter
<1> HIDE DEF id, n, k
<1> QED
  BY <1>1, <1>2 DEF ItemTold, VerdictOn, id, n, k

\* The verdicts on one item, when those of a request are added.
LEMMA VerdictsAdded ==
  ASSUME NEW s, NEW r, NEW T, NEW i \in NodeItems(r)
  PROVE  VerdictsIn(T \cup VerdictsGiven(s, r), r, i)
           = VerdictsIn(T, r, i) \cup {VerdictOn(s, r, i)}
<1> DEFINE new == VerdictsGiven(s, r)
<1>1. \A x \in new : x[1] = r /\ x[2] \in NodeItems(r) /\ x[3] = VerdictOn(s, r, x[2])
  BY DEF VerdictsGiven
<1>2. <<r, i, VerdictOn(s, r, i)>> \in new
  BY DEF VerdictsGiven
<1>3. \A x, y, z : <<x, y, z>>[1] = x /\ <<x, y, z>>[2] = y /\ <<x, y, z>>[3] = z
  OBVIOUS
<1> HIDE DEF new
<1>4. VerdictsIn(new, r, i) = {VerdictOn(s, r, i)}
  BY <1>1, <1>2, <1>3 DEF VerdictsIn
<1>5. VerdictsIn(T \cup new, r, i) = VerdictsIn(T, r, i) \cup VerdictsIn(new, r, i)
  BY DEF VerdictsIn
<1> QED
  BY <1>4, <1>5 DEF new

LEMMA OtherVerdicts ==
  ASSUME NEW T, NEW U, NEW q, T \subseteq U, \A x \in U : x[1] = q => x \in T, NEW i
  PROVE  VerdictsIn(U, q, i) = VerdictsIn(T, q, i)
BY DEF VerdictsIn

LEMMA AnswersTold ==
  ASSUME NEW s, NEW g, NEW S, HoldsAll(s, g, S), NEW T, TellsAll(s, S, T),
         NEW r \in Message, r.rpc \in WriteRpcs, Registered(s, r), NEW now \in Time
  PROVE  TellsAll(After(s, r, now), S \cup {r}, T \cup Answers(r, ReportOf(s, r)))
<1>1. IsState(s)
  BY DEF HoldsAll
<1>2. CASE r.rpc # "MergeHypothesis"
  <2>1. Answers(r, ReportOf(s, r)) = {}
    BY <1>2 DEF Answers
  <2>2. After(s, r, now).nodes = s.nodes
    BY <1>1, <1>2, GraphStands
  <2>3. \A q, i : ItemTold(After(s, r, now), T, q, i) <=> ItemTold(s, T, q, i)
    BY <2>2 DEF ItemTold
  <2> QED
    BY <1>2, <2>1, <2>3 DEF TellsAll
<1>3. CASE r.rpc = "MergeHypothesis"
  <2> DEFINE new == Answers(r, ReportOf(s, r))
             given == VerdictsGiven(s, r)
  <2>1. new = IF Complete(r) THEN given ELSE {}
    BY <1>3, AnswersGiven
  <2>2. After(s, r, now) = Merged(s, r)
    BY <1>3 DEF After, TombstoneRpcs
  <2>3. \A x \in new : x[1] = r
    BY <2>1 DEF VerdictsGiven
  <2> HIDE DEF new
  <2>4. ASSUME NEW q \in S, q.rpc = "MergeHypothesis", q # r, NEW i \in NodeItems(q)
        PROVE  ItemTold(Merged(s, r), T \cup new, q, i)
    <3>1. VerdictsIn(T \cup new, q, i) = VerdictsIn(T, q, i)
      <4> DEFINE U == T \cup new
      <4>1. T \subseteq U /\ \A x \in U : x[1] = q => x \in T
        BY <2>3, <2>4
      <4> HIDE DEF U
      <4>2. VerdictsIn(U, q, i) = VerdictsIn(T, q, i)
        BY <4>1, OtherVerdicts
      <4> QED
        BY <4>2 DEF U
    <3>2. ItemTold(s, T, q, i)
      BY <2>4 DEF TellsAll
    <3> QED
      BY <1>1, <3>1, <3>2, ToldBefore
  <2>5. ASSUME NEW i \in NodeItems(r)
        PROVE  ItemTold(Merged(s, r), T \cup new, r, i)
    <3>1. Complete(r) => VerdictsIn(T, r, i) \subseteq {VerdictOn(s, r, i)}
      <4>1. CASE r \in S
        <5>1. ItemTold(s, T, r, i)
          BY <1>3, <4>1 DEF TellsAll
        <5>2. r.nodes[i].id \in DOMAIN s.nodes
          BY <5>1 DEF ItemTold
        <5>3. SameFields(s.nodes[r.nodes[i].id], ProtoNodeToDomain(r.nodes[i]))
                <=> Agrees(s, r, i)
          BY <5>2 DEF SameFields, Agrees, Anchor
        <5> QED
          BY <5>1, <5>3 DEF ItemTold, VerdictOn
      <4>2. CASE r \notin S
        BY <4>2 DEF TellsAll, VerdictsIn
      <4> QED
        BY <4>1, <4>2
    <3>2. Complete(r) => VerdictsIn(T \cup new, r, i) = {VerdictOn(s, r, i)}
      <4>1. VerdictsIn(T \cup given, r, i) = VerdictsIn(T, r, i) \cup {VerdictOn(s, r, i)}
        BY VerdictsAdded
      <4> QED
        BY <2>1, <3>1, <4>1
    <3> QED
      BY <1>1, <3>2, ToldNow
  <2>6. \A x \in T \cup new : x[1] \in S \cup {r}
    BY <2>3 DEF TellsAll
  <2>7. \A q \in {x \in S \cup {r} : x.rpc = "MergeHypothesis"} :
          \A i \in NodeItems(q) : ItemTold(Merged(s, r), T \cup new, q, i)
    BY <2>4, <2>5
  <2>8. TellsAll(Merged(s, r), S \cup {r}, T \cup new)
    BY <2>6, <2>7 DEF TellsAll
  <2> QED
    BY <2>2, <2>8 DEF new
<1> QED
  BY <1>2, <1>3

-----------------------------------------------------------------------------
(* Replays that have served the same requests agree.                       *)

LEMMA SameNodes ==
  ASSUME NEW S, NEW s, NEW g, HoldsAll(s, g, S), NEW t, NEW h, HoldsAll(t, h, S)
  PROVE  /\ DOMAIN s.nodes = DOMAIN t.nodes
         /\ Disputes(g.nodes) = Disputes(h.nodes)
         /\ \A id \in DOMAIN s.nodes \ Disputes(g.nodes) :
              Timeless(s.nodes[id]) = Timeless(t.nodes[id])
<1> DEFINE M == g.nodes
           N == h.nodes
           P == ProposedBy(S)
<1>1. /\ Matches(s.nodes, M) /\ JoinOf(M, P)
      /\ Matches(t.nodes, N) /\ JoinOf(N, P)
  BY DEF HoldsAll, InStep
<1> HIDE DEF M, N, P
<1>2. /\ DOMAIN M = {x[1] : x \in P} /\ DOMAIN N = {x[1] : x \in P}
      /\ DOMAIN s.nodes = DOMAIN M /\ DOMAIN t.nodes = DOMAIN N
  BY <1>1 DEF Matches, JoinOf
<1>3. DOMAIN M = DOMAIN N
  BY <1>2
<1>4. ASSUME NEW id \in DOMAIN M
      PROVE  HasConflict(M[id]) = HasConflict(N[id]) /\ Timeless(M[id]) = Timeless(N[id])
  <2>1. /\ IsNode(M[id]) /\ IsJoin(M[id], ProposedFor(P, id))
        /\ IsNode(N[id]) /\ IsJoin(N[id], ProposedFor(P, id))
    BY <1>1, <1>2, <1>3 DEF Matches, Agreeing, JoinOf
  <2> QED
    BY <2>1, JoinIsUnique
<1>5. Disputes(M) = Disputes(N)
  BY <1>3, <1>4 DEF Disputes
<1>6. ASSUME NEW id \in DOMAIN M \ Disputes(M)
      PROVE  Timeless(s.nodes[id]) = Timeless(t.nodes[id])
  <2>1. ~ HasConflict(M[id]) /\ ~ HasConflict(N[id])
    BY <1>3, <1>5, <1>6 DEF Disputes
  <2>2. s.nodes[id] = M[id] /\ t.nodes[id] = N[id]
    BY <1>1, <1>2, <1>3, <2>1 DEF Matches, Agreeing
  <2> QED
    BY <1>4, <2>2
<1> QED
  BY <1>2, <1>3, <1>5, <1>6 DEF M, N

LEMMA SameEdges ==
  ASSUME NEW S, NEW s, NEW g, HoldsAll(s, g, S), NEW t, NEW h, HoldsAll(t, h, S)
  PROVE  /\ DOMAIN s.edges = DOMAIN t.edges
         /\ \A k \in DOMAIN s.edges : DOMAIN s.edges[k] = DOMAIN t.edges[k]
BY DEF HoldsAll, InStep, Connects

LEMMA SameIncidents ==
  ASSUME NEW S, NEW s, NEW g, HoldsAll(s, g, S), NEW t, NEW h, HoldsAll(t, h, S)
  PROVE  /\ DOMAIN s.incidents = DOMAIN t.incidents
         /\ \A i \in DOMAIN s.incidents :
              /\ s.incidents[i].node_tombstones = t.incidents[i].node_tombstones
              /\ s.incidents[i].edge_tombstones = t.incidents[i].edge_tombstones
<1>1. DOMAIN s.incidents = DOMAIN t.incidents
  BY DEF HoldsAll
<1>2. \A i : NodeMarks(s, i) = NodeMarks(t, i) /\ EdgeMarks(s, i) = EdgeMarks(t, i)
  BY DEF HoldsAll
<1> QED
  BY <1>1, <1>2 DEF NodeMarks, EdgeMarks

-----------------------------------------------------------------------------
(* The theorems.                                                           *)

Shaped ==
  /\ store = [p \in Replay |-> store[p]] /\ join = [p \in Replay |-> join[p]]
  /\ served = [p \in Replay |-> served[p]] /\ told = [p \in Replay |-> told[p]]

OrderForgotten ==
  /\ Shaped
  /\ \A p \in Replay : served[p] \subseteq Requests
  /\ \A p \in Replay : HoldsAll(store[p], join[p], served[p])
  /\ \A p \in Replay : TellsAll(store[p], served[p], told[p])

LEMMA NewReplay == HoldsAll(NewState, NewGraph, {}) /\ TellsAll(NewState, {}, {})
<1> DEFINE s == NewState
           g == NewGraph
<1>1. /\ s = [nodes |-> s.nodes, edges |-> s.edges, incidents |-> s.incidents]
      /\ g = [nodes |-> g.nodes, edges |-> g.edges]
      /\ s.nodes = EmptyMap /\ s.edges = EmptyMap /\ s.incidents = EmptyMap
      /\ g.nodes = EmptyMap /\ g.edges = EmptyMap
  BY DEF NewState, NewGraph
<1>2. /\ DOMAIN EmptyMap = {} /\ EmptyMap = [k \in DOMAIN EmptyMap |-> EmptyMap[k]]
      /\ IsMap(EmptyMap, Text, IncidentState)
  BY DEF EmptyMap, IsMap
<1>3. /\ ProposedBy({}) = {} /\ ConnectedBy({}) = {} /\ CreatedBy({}) = {}
      /\ \A rpc, i : MarksOf({}, rpc, i) = {}
  BY DEF ProposedBy, ConnectedBy, CreatedBy, MarksOf
<1> HIDE DEF s, g
<1>4. IsState(s)
  BY <1>1, <1>2 DEF IsState
<1>5. InStep(s, g, {}, {})
  <2>1. Matches(EmptyMap, EmptyMap) /\ JoinOf(EmptyMap, {})
    BY <1>2 DEF Matches, IsAMap, JoinOf
  <2>2. EdgesTyped(EmptyMap) /\ Connects(EmptyMap, {})
    BY <1>2 DEF EdgesTyped, IsAMap, Connects
  <2> QED
    BY <1>1, <2>1, <2>2 DEF InStep
<1>6. \A i : NodeMarks(s, i) = {} /\ EdgeMarks(s, i) = {}
  BY <1>1, <1>2 DEF NodeMarks, EdgeMarks
<1>7. HoldsAll(s, g, {})
  BY <1>1, <1>2, <1>3, <1>4, <1>5, <1>6 DEF HoldsAll
<1>8. TellsAll(s, {}, {})
  BY DEF TellsAll
<1> QED
  BY <1>7, <1>8 DEF s, g

LEMMA ServeKeeps ==
  ASSUME OrderForgotten, NEW p \in Replay, NEW r \in Requests, Serve(p, r)
  PROVE  OrderForgotten'
<1>1. r \in Message /\ Valid(r) /\ r.rpc \in WriteRpcs
  BY WriteAssumption
<1>2. Registered(store[p], r)
  BY DEF Serve, StatusOf
<1>3. PICK now \in Time : store' = [store EXCEPT ![p] = After(store[p], r, now)]
  BY DEF Serve, OrderForgotten, Shaped
<1>4. /\ served' = [served EXCEPT ![p] = served[p] \cup {r}]
      /\ join' = [join EXCEPT ![p] = Joined(join[p], r)]
      /\ told' = [told EXCEPT ![p] = told[p] \cup Answers(r, ReportOf(store[p], r))]
  BY DEF Serve, OrderForgotten, Shaped
<1>5. Shaped'
  BY <1>3, <1>4 DEF OrderForgotten, Shaped
<1>6. /\ store'[p] = After(store[p], r, now) /\ served'[p] = served[p] \cup {r}
      /\ join'[p] = Joined(join[p], r)
      /\ told'[p] = told[p] \cup Answers(r, ReportOf(store[p], r))
      /\ \A q \in Replay : q # p => /\ store'[q] = store[q] /\ served'[q] = served[q]
                                    /\ join'[q] = join[q] /\ told'[q] = told[q]
  BY <1>3, <1>4 DEF OrderForgotten, Shaped
<1>7. HoldsAll(store[p], join[p], served[p]) /\ TellsAll(store[p], served[p], told[p])
  BY DEF OrderForgotten
<1>8. HoldsAll(store'[p], join'[p], served'[p])
  BY <1>1, <1>2, <1>6, <1>7, RequestServed
<1>9. TellsAll(store'[p], served'[p], told'[p])
  BY <1>1, <1>2, <1>6, <1>7, AnswersTold
<1>10. ASSUME NEW q \in Replay
       PROVE  /\ served'[q] \subseteq Requests
              /\ HoldsAll(store'[q], join'[q], served'[q])
              /\ TellsAll(store'[q], served'[q], told'[q])
  BY <1>6, <1>8, <1>9 DEF OrderForgotten
<1> QED
  BY <1>5, <1>10 DEF OrderForgotten

\* Whatever the order, the repetitions and the requests that stopped half way,
\* each replay is determined by the set of requests that took effect in it.
LEMMA OrderIsForgotten == Spec => []OrderForgotten
<1>1. Init => OrderForgotten
  BY NewReplay DEF Init, OrderForgotten, Shaped
<1>2. OrderForgotten /\ [Next]_vars => OrderForgotten'
  <2> SUFFICES ASSUME OrderForgotten, [Next]_vars
               PROVE  OrderForgotten'
    OBVIOUS
  <2>1. CASE Next
    BY <2>1, ServeKeeps DEF Next
  <2>2. CASE UNCHANGED vars
    BY <2>2 DEF vars, OrderForgotten, Shaped
  <2> QED
    BY <2>1, <2>2
<1> QED
  BY <1>1, <1>2, PTL DEF Spec

\* Strong convergence: replays that have served the same requests agree on all
\* that is not disputed, and on what is disputed (merge_hypothesis and the
\* tombstone merges of memory.rs; CRDT_Safe.md).
THEOREM Converges == Spec => []StrongConvergence
<1>1. OrderForgotten => StrongConvergence
  <2> SUFFICES ASSUME OrderForgotten, NEW p \in Replay, NEW q \in Replay,
                      served[p] = served[q]
               PROVE  Settled(p) = Settled(q)
    BY DEF StrongConvergence
  <2> DEFINE s == store[p]
             t == store[q]
  <2>1. /\ HoldsAll(s, join[p], served[p])
        /\ HoldsAll(t, join[q], served[p])
    BY DEF OrderForgotten
  <2>2. Disputed(p) = Disputes(join[p].nodes) /\ Disputed(q) = Disputes(join[q].nodes)
    BY DEF Disputed, Disputes
  <2> HIDE DEF s, t
  <2>3. /\ DOMAIN s.nodes = DOMAIN t.nodes /\ Disputed(p) = Disputed(q)
        /\ \A id \in DOMAIN s.nodes \ Disputed(p) :
             Timeless(s.nodes[id]) = Timeless(t.nodes[id])
    BY <2>1, <2>2, SameNodes
  <2>4. Nodes(p, DOMAIN s.nodes \ Disputed(p)) = Nodes(q, DOMAIN t.nodes \ Disputed(q))
    BY <2>3 DEF Nodes, s, t
  <2>5. [k \in DOMAIN s.edges |-> DOMAIN s.edges[k]]
          = [k \in DOMAIN t.edges |-> DOMAIN t.edges[k]]
    BY <2>1, SameEdges
  <2>6. [i \in DOMAIN s.incidents |->
           <<s.incidents[i].node_tombstones, s.incidents[i].edge_tombstones>>]
          = [i \in DOMAIN t.incidents |->
               <<t.incidents[i].node_tombstones, t.incidents[i].edge_tombstones>>]
    BY <2>1, SameIncidents
  <2> QED
    BY <2>3, <2>4, <2>5, <2>6 DEF Settled, s, t
<1> QED
  BY <1>1, OrderIsForgotten, PTL

\* First-write-wins and the composite lattice of domain/graph.rs agree: the
\* store is the join of all proposals wherever that join is no conflict.
THEOREM StoreEqualsJoin == Spec => []StoreIsJoin
<1>1. OrderForgotten => StoreIsJoin
  <2> SUFFICES ASSUME OrderForgotten, NEW p \in Replay
               PROVE  /\ store[p].edges = join[p].edges
                      /\ DOMAIN store[p].nodes = DOMAIN join[p].nodes
                      /\ \A id \in DOMAIN store[p].nodes :
                           LET l == store[p].nodes[id]
                               k == join[p].nodes[id]
                           IN  /\ ~ HasConflict(k) => l = k
                               /\ ~ HasConflict(l)
                               /\ k.hypothetical => l.hypothetical
                               /\ DOMAIN l.provenance \subseteq DOMAIN k.provenance
    BY DEF StoreIsJoin, Disputed
  <2>1. Matches(store[p].nodes, join[p].nodes) /\ store[p].edges = join[p].edges
    BY DEF OrderForgotten, HoldsAll, InStep
  <2> QED
    BY <2>1 DEF Matches, Agreeing
<1> QED
  BY <1>1, OrderIsForgotten, PTL

\* No hypothesis is dropped in silence: every node that was proposed is wholly in
\* the store or contradicts what is there, and, unless the request that proposed
\* it failed itself, its callers were told which (memory.rs, MergeConflict).
THEOREM NoSilentDrop == Spec => []DisputesAreTold
<1>1. OrderForgotten => DisputesAreTold
  <2> SUFFICES ASSUME OrderForgotten, NEW p \in Replay,
                      NEW r \in served[p], r.rpc = "MergeHypothesis", NEW i \in NodeItems(r)
               PROVE  LET l == store[p].nodes[r.nodes[i].id]
                          merged == NodeMerge(l, ProtoNodeToDomain(r.nodes[i]))
                      IN  /\ HasConflict(merged) \/ merged = l
                          /\ Complete(r) =>
                               Verdicts(p, r, i)
                                 = {IF HasConflict(merged) THEN "conflict" ELSE "accepted"}
    BY DEF DisputesAreTold
  <2> DEFINE l == store[p].nodes[r.nodes[i].id]
             n == ProtoNodeToDomain(r.nodes[i])
  <2>1. r \in Message
    BY WriteAssumption DEF OrderForgotten
  <2>2. ItemTold(store[p], told[p], r, i)
    BY DEF OrderForgotten, TellsAll
  <2>3. /\ r.nodes[i].id \in DOMAIN store[p].nodes
        /\ SameFields(l, n) => Holds(l, n)
        /\ Complete(r) =>
             Verdicts(p, r, i) = {IF SameFields(l, n) THEN "accepted" ELSE "conflict"}
    BY <2>2 DEF ItemTold, VerdictsIn, Verdicts
  <2>4. IsNode(l) /\ ~ HasConflict(l)
    BY <2>3 DEF OrderForgotten, HoldsAll, InStep, Matches, Agreeing
  <2>5. IsNode(n) /\ ~ HasConflict(n)
    BY <2>1, NodeProposed
  <2> HIDE DEF l, n
  <2>6. /\ HasConflict(NodeMerge(l, n)) <=> ~ SameFields(l, n)
        /\ SameFields(l, n) /\ Holds(l, n) => NodeMerge(l, n) = l
    BY <2>4, <2>5, MergeAgain
  <2> QED
    BY <2>3, <2>6 DEF l, n
<1> QED
  BY <1>1, OrderIsForgotten, PTL
-----------------------------------------------------------------------------
(* The laws of the merges: what CRDT_Safe.md:5 calls associative,          *)
(* commutative and idempotent.                                             *)

LEMMA SetUnionLaws ==
  ASSUME NEW p, NEW q, NEW r, IsAMap(p), IsAMap(q), IsAMap(r)
  PROVE  /\ SetUnion(p, p) = p
         /\ SetUnion(SetUnion(p, q), r) = SetUnion(p, SetUnion(q, r))
         /\ DOMAIN SetUnion(p, q) = DOMAIN SetUnion(q, p)
<1>1. SetUnion(p, p) = p
  BY DEF SetUnion, IsAMap
<1>2. SetUnion(SetUnion(p, q), r) = SetUnion(p, SetUnion(q, r))
  <2> DEFINE D == DOMAIN p \cup DOMAIN q \cup DOMAIN r
             v == [k \in D |-> IF k \in DOMAIN p THEN p[k]
                               ELSE IF k \in DOMAIN q THEN q[k] ELSE r[k]]
  <2>1. SetUnion(SetUnion(p, q), r) = v
    BY DEF SetUnion
  <2>2. SetUnion(p, SetUnion(q, r)) = v
    BY DEF SetUnion
  <2> QED
    BY <2>1, <2>2
<1>3. DOMAIN SetUnion(p, q) = DOMAIN SetUnion(q, p)
  BY DEF SetUnion
<1> QED
  BY <1>1, <1>2, <1>3

LEMMA ConflictMergeLaws ==
  ASSUME NEW x, NEW y, NEW z
  PROVE  /\ ConflictMerge(x, x) = x
         /\ ConflictMerge(x, y) = ConflictMerge(y, x)
         /\ ConflictMerge(ConflictMerge(x, y), z) = ConflictMerge(x, ConflictMerge(y, z))
BY DEF ConflictMerge

\* NodeLattice::merge is idempotent and associative, and it is commutative but
\* for the timestamps, of which the one on the left stays.
THEOREM NodeMergeLaws ==
  ASSUME NEW a, NEW b, NEW c, IsNode(a), IsNode(b), IsNode(c)
  PROVE  /\ NodeMerge(a, a) = a
         /\ NodeMerge(NodeMerge(a, b), c) = NodeMerge(a, NodeMerge(b, c))
         /\ Timeless(NodeMerge(a, b)) = Timeless(NodeMerge(b, a))
<1>1. /\ IsAMap(a.provenance) /\ IsAMap(b.provenance) /\ IsAMap(c.provenance)
      /\ a.hypothetical \in BOOLEAN /\ b.hypothetical \in BOOLEAN /\ c.hypothetical \in BOOLEAN
      /\ a = [ node_type |-> a.node_type, label |-> a.label,
               hypothetical |-> a.hypothetical, provenance |-> a.provenance ]
  BY DEF IsNode, IsProvenance, IsMap, IsAMap
<1>2. /\ MinMerge(a.hypothetical, a.hypothetical) = a.hypothetical
      /\ MinMerge(a.hypothetical, b.hypothetical) = MinMerge(b.hypothetical, a.hypothetical)
      /\ MinMerge(MinMerge(a.hypothetical, b.hypothetical), c.hypothetical)
           = MinMerge(a.hypothetical, MinMerge(b.hypothetical, c.hypothetical))
  BY <1>1 DEF MinMerge
<1>3. NodeMerge(a, a) = a
  <2>1. SetUnion(a.provenance, a.provenance) = a.provenance
    BY <1>1, SetUnionLaws
  <2>2. /\ ConflictMerge(a.node_type, a.node_type) = a.node_type
        /\ ConflictMerge(a.label, a.label) = a.label
    BY ConflictMergeLaws
  <2> QED
    BY <1>1, <1>2, <2>1, <2>2 DEF NodeMerge
<1>4. NodeMerge(NodeMerge(a, b), c) = NodeMerge(a, NodeMerge(b, c))
  <2>1. SetUnion(SetUnion(a.provenance, b.provenance), c.provenance)
          = SetUnion(a.provenance, SetUnion(b.provenance, c.provenance))
    BY <1>1, SetUnionLaws
  <2>2. /\ ConflictMerge(ConflictMerge(a.node_type, b.node_type), c.node_type)
             = ConflictMerge(a.node_type, ConflictMerge(b.node_type, c.node_type))
        /\ ConflictMerge(ConflictMerge(a.label, b.label), c.label)
             = ConflictMerge(a.label, ConflictMerge(b.label, c.label))
    BY ConflictMergeLaws
  <2> QED
    BY <1>2, <2>1, <2>2 DEF NodeMerge
<1>5. Timeless(NodeMerge(a, b)) = Timeless(NodeMerge(b, a))
  <2>1. DOMAIN SetUnion(a.provenance, b.provenance) = DOMAIN SetUnion(b.provenance, a.provenance)
    BY <1>1, SetUnionLaws
  <2>2. /\ ConflictMerge(a.node_type, b.node_type) = ConflictMerge(b.node_type, a.node_type)
        /\ ConflictMerge(a.label, b.label) = ConflictMerge(b.label, a.label)
    BY ConflictMergeLaws
  <2> QED
    BY <1>2, <2>1, <2>2 DEF NodeMerge, Timeless
<1> QED
  BY <1>3, <1>4, <1>5

\* Merging the maps of domain/graph.rs is idempotent and associative: how
\* proposals are grouped into requests, and whether one comes twice in a row,
\* makes no difference to the lattice.
THEOREM NodeMapLaws ==
  ASSUME NEW l, NEW m, NEW n, IsAMap(l), IsAMap(m), IsAMap(n),
         \A id \in DOMAIN l : IsNode(l[id]),
         \A id \in DOMAIN m : IsNode(m[id]),
         \A id \in DOMAIN n : IsNode(n[id])
  PROVE  /\ NodeMapMerge(l, l) = l
         /\ NodeMapMerge(NodeMapMerge(l, m), n) = NodeMapMerge(l, NodeMapMerge(m, n))
<1> DEFINE At(x, y, id) == IF id \in DOMAIN x \cap DOMAIN y THEN NodeMerge(x[id], y[id])
                           ELSE IF id \in DOMAIN x THEN x[id] ELSE y[id]
           Both(x, y) == [id \in DOMAIN x \cup DOMAIN y |-> At(x, y, id)]
<1>1. \A x, y : NodeMapMerge(x, y) = Both(x, y)
  BY DEF NodeMapMerge, MapUnion
<1>2. Both(l, l) = l
  <2>1. \A id \in DOMAIN l : At(l, l, id) = l[id]
    BY NodeMergeLaws
  <2> HIDE DEF At
  <2> QED
    BY <2>1 DEF IsAMap
<1>3. Both(Both(l, m), n) = Both(l, Both(m, n))
  <2>1. \A x, y : DOMAIN Both(x, y) = DOMAIN x \cup DOMAIN y
    OBVIOUS
  <2>2. \A x, y : \A id \in DOMAIN x \cup DOMAIN y : Both(x, y)[id] = At(x, y, id)
    OBVIOUS
  <2>3. ASSUME NEW id \in DOMAIN l \cup DOMAIN m \cup DOMAIN n
        PROVE  At(Both(l, m), n, id) = At(l, Both(m, n), id)
    <3> DEFINE u == Both(l, m)
               v == Both(m, n)
    <3>1. /\ DOMAIN u = DOMAIN l \cup DOMAIN m
          /\ id \in DOMAIN l \cup DOMAIN m => u[id] = At(l, m, id)
      BY <2>1, <2>2
    <3>2. /\ DOMAIN v = DOMAIN m \cup DOMAIN n
          /\ id \in DOMAIN m \cup DOMAIN n => v[id] = At(m, n, id)
      BY <2>1, <2>2
    <3> HIDE DEF u, v, Both
    <3>3. CASE id \in DOMAIN l /\ id \in DOMAIN m /\ id \in DOMAIN n
      <4>1. NodeMerge(NodeMerge(l[id], m[id]), n[id]) = NodeMerge(l[id], NodeMerge(m[id], n[id]))
        BY <3>3, NodeMergeLaws
      <4>2. u[id] = NodeMerge(l[id], m[id]) /\ v[id] = NodeMerge(m[id], n[id])
        BY <3>1, <3>2, <3>3
      <4>3. At(u, n, id) = NodeMerge(u[id], n[id]) /\ At(l, v, id) = NodeMerge(l[id], v[id])
        BY <3>1, <3>2, <3>3
      <4> QED
        BY <4>1, <4>2, <4>3 DEF u, v
    <3>4. CASE ~ (id \in DOMAIN l /\ id \in DOMAIN m /\ id \in DOMAIN n)
      <4>1. At(u, n, id) = At(l, v, id)
        BY <2>3, <3>1, <3>2, <3>4
      <4> QED
        BY <4>1 DEF u, v
    <3> QED
      BY <3>3, <3>4
  <2>4. DOMAIN Both(Both(l, m), n) = DOMAIN Both(l, Both(m, n))
    BY <2>1
  <2> QED
    BY <2>1, <2>3, <2>4
<1> HIDE DEF Both
<1> QED
  BY <1>1, <1>2, <1>3
=============================================================================
