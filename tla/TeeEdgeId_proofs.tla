---------------------------- MODULE TeeEdgeId_proofs ---------------------------
(***************************************************************************)
(* For which names the text ids of merge results can be told apart.        *)
(***************************************************************************)
EXTENDS TeeEdgeId, SequenceTheorems, TLAPS

-----------------------------------------------------------------------------
(* The characters of an edge's id.                                         *)

\* The text u is s followed by t, all of characters in C.
TwoParts(C, u, s, t) == s \in Seq(C) /\ t \in Seq(C) /\ u = s \o t

\* Their characters are in their places in u.
SideBySide(C, u, s, t) ==
  /\ u \in Seq(C) /\ Len(u) = Len(s) + Len(t)
  /\ \A i \in 1..Len(s) : u[i] = s[i]
  /\ \A i \in 1..Len(t) : u[Len(s) + i] = t[i]

LEMMA TwoTexts ==
  ASSUME NEW C, NEW u, NEW s, NEW t, TwoParts(C, u, s, t)
  PROVE  SideBySide(C, u, s, t)
<1> USE DEF TwoParts
<1>1. Len(s) \in Nat /\ Len(t) \in Nat
  OBVIOUS
<1>2. /\ u \in Seq(C) /\ Len(u) = Len(s) + Len(t)
      /\ \A i \in 1..(Len(s) + Len(t)) : u[i] = IF i <= Len(s) THEN s[i] ELSE t[i - Len(s)]
  BY ConcatProperties
<1>3. \A i \in 1..Len(s) : u[i] = s[i]
  BY <1>1, <1>2
<1>4. ASSUME NEW i \in 1..Len(t)
      PROVE  u[Len(s) + i] = t[i]
  <2>1. /\ Len(s) + i \in 1..(Len(s) + Len(t)) /\ ~ (Len(s) + i <= Len(s))
        /\ (Len(s) + i) - Len(s) = i
    BY <1>1
  <2> QED
    BY <1>2, <2>1
<1> QED
  BY <1>2, <1>3, <1>4 DEF SideBySide

\* The text w consists of four texts, the second and the last of two characters.
FourParts(C, w, s, a, t, e) ==
  /\ s \in Seq(C) /\ a \in Seq(C) /\ t \in Seq(C) /\ e \in Seq(C)
  /\ Len(a) = 2 /\ Len(e) = 2
  /\ w = s \o a \o t \o e

\* Their characters are in their places in w.
InPlace(w, s, a, t, e) ==
  /\ Len(w) = Len(s) + Len(t) + 4
  /\ \A i \in 1..Len(s) : w[i] = s[i]
  /\ w[Len(s) + 1] = a[1] /\ w[Len(s) + 2] = a[2]
  /\ \A i \in 1..Len(t) : w[Len(s) + 2 + i] = t[i]
  /\ w[Len(s) + Len(t) + 4] = e[2]

LEMMA FourTexts ==
  ASSUME NEW C, NEW w, NEW s, NEW a, NEW t, NEW e, FourParts(C, w, s, a, t, e)
  PROVE  InPlace(w, s, a, t, e)
<1> USE DEF FourParts
<1> DEFINE u == s \o a
           v == u \o t
<1>1. Len(s) \in Nat /\ Len(t) \in Nat
  OBVIOUS
<1>2. w = v \o e
  OBVIOUS
<1> HIDE DEF v
<1>3. v = u \o t
  BY DEF v
<1> HIDE DEF u
<1>4. u = s \o a
  BY DEF u
<1>5. /\ u \in Seq(C) /\ Len(u) = Len(s) + 2
      /\ \A i \in 1..Len(s) : u[i] = s[i]
      /\ \A i \in 1..Len(a) : u[Len(s) + i] = a[i]
  <2>1. /\ u \in Seq(C) /\ Len(u) = Len(s) + Len(a)
        /\ \A i \in 1..Len(s) : u[i] = s[i]
        /\ \A i \in 1..Len(a) : u[Len(s) + i] = a[i]
    <3>1. TwoParts(C, u, s, a)
      BY <1>4 DEF TwoParts
    <3>2. SideBySide(C, u, s, a)
      BY <3>1, TwoTexts
    <3> QED
      BY <3>2 DEF SideBySide
  <2> QED
    BY <2>1
<1>6. /\ v \in Seq(C) /\ Len(v) = Len(u) + Len(t)
      /\ \A i \in 1..Len(u) : v[i] = u[i]
      /\ \A i \in 1..Len(t) : v[Len(u) + i] = t[i]
  <2>1. TwoParts(C, v, u, t)
    BY <1>3, <1>5 DEF TwoParts
  <2>2. SideBySide(C, v, u, t)
    BY <2>1, TwoTexts
  <2> QED
    BY <2>2 DEF SideBySide
<1>7. /\ Len(w) = Len(v) + Len(e)
      /\ \A i \in 1..Len(v) : w[i] = v[i]
      /\ \A i \in 1..Len(e) : w[Len(v) + i] = e[i]
  <2>1. TwoParts(C, w, v, e)
    BY <1>2, <1>6 DEF TwoParts
  <2>2. SideBySide(C, w, v, e)
    BY <2>1, TwoTexts
  <2> QED
    BY <2>2 DEF SideBySide
<1>8. Len(u) = Len(s) + 2 /\ Len(v) = Len(s) + 2 + Len(t) /\ Len(w) = Len(s) + Len(t) + 4
  BY <1>1, <1>5, <1>6, <1>7
<1>9. ASSUME NEW i \in 1..Len(s)
      PROVE  w[i] = s[i]
  <2>1. i \in 1..Len(u) /\ i \in 1..Len(v)
    BY <1>1, <1>8
  <2> QED
    BY <1>5, <1>6, <1>7, <2>1
<1>10. w[Len(s) + 1] = a[1]
  <2>1. Len(s) + 1 \in 1..Len(u) /\ Len(s) + 1 \in 1..Len(v) /\ 1 \in 1..Len(a)
    BY <1>1, <1>8
  <2>2. u[Len(s) + 1] = a[1]
    BY <1>5, <2>1
  <2> QED
    BY <1>6, <1>7, <2>1, <2>2
<1>11. w[Len(s) + 2] = a[2]
  <2>1. Len(s) + 2 \in 1..Len(u) /\ Len(s) + 2 \in 1..Len(v) /\ 2 \in 1..Len(a)
    BY <1>1, <1>8
  <2>2. u[Len(s) + 2] = a[2]
    BY <1>5, <2>1
  <2> QED
    BY <1>6, <1>7, <2>1, <2>2
<1>12. ASSUME NEW i \in 1..Len(t)
       PROVE  w[Len(s) + 2 + i] = t[i]
  <2>1. Len(s) + 2 + i \in 1..Len(v) /\ Len(s) + 2 + i = Len(u) + i
    BY <1>1, <1>8
  <2> QED
    BY <1>6, <1>7, <2>1
<1>13. w[Len(s) + Len(t) + 4] = e[2]
  <2>1. Len(s) + Len(t) + 4 = Len(v) + 2 /\ 2 \in 1..Len(e)
    BY <1>1, <1>8
  <2> QED
    BY <1>7, <2>1
<1> QED
  BY <1>8, <1>9, <1>10, <1>11, <1>12, <1>13 DEF InPlace

LEMMA PairOfCharacters ==
  ASSUME NEW C, NEW a \in C, NEW b \in C, NEW s, s = <<a, b>>
  PROVE  s \in Seq(C) /\ Len(s) = 2 /\ s[1] = a /\ s[2] = b
<1>1. Len(<<a, b>>) = 2 /\ <<a, b>>[1] = a /\ <<a, b>>[2] = b
  OBVIOUS
<1>2. <<a, b>> \in Seq(C)
  OBVIOUS
<1> QED
  BY <1>1, <1>2

\* The characters -> do not stand next to each other in the text s.
ArrowFree(s) == \A i \in 1..(Len(s) - 1) : ~ (s[i] = "-" /\ s[i + 1] = ">")

\* The key of an edge whose names, of characters in C, have no arrow.
PlainKey(C, k) ==
  /\ k.source \in Seq(C) /\ k.target \in Seq(C) /\ k.type \in C
  /\ ArrowFree(k.source) /\ ArrowFree(k.target)

\* The text w is the id of the edge k, whose names have no arrow.
Names(C, w, k) ==
  {"-", ">", ":"} \subseteq C /\ PlainKey(C, k) /\ w = EdgeId(k)

\* The characters of w are those of the edge k, in their places.
Spells(w, k) ==
  /\ Len(w) = Len(k.source) + Len(k.target) + 4
  /\ \A i \in 1..Len(k.source) : w[i] = k.source[i]
  /\ w[Len(k.source) + 1] = "-" /\ w[Len(k.source) + 2] = ">"
  /\ \A i \in 1..Len(k.target) : w[Len(k.source) + 2 + i] = k.target[i]
  /\ w[Len(k.source) + Len(k.target) + 4] = k.type

LEMMA EdgeIdText ==
  ASSUME NEW C, NEW w, NEW k, Names(C, w, k)
  PROVE  Spells(w, k)
<1> DEFINE arrow == <<"-", ">">>
           end == <<":", k.type>>
<1>1. arrow \in Seq(C) /\ Len(arrow) = 2 /\ arrow[1] = "-" /\ arrow[2] = ">"
  BY PairOfCharacters DEF Names, PlainKey
<1>2. end \in Seq(C) /\ Len(end) = 2 /\ end[2] = k.type
  BY PairOfCharacters DEF Names, PlainKey
<1>3. w = k.source \o arrow \o k.target \o end
  BY DEF Names, EdgeId
<1> HIDE DEF arrow, end
<1>4. FourParts(C, w, k.source, arrow, k.target, end)
  BY <1>1, <1>2, <1>3 DEF FourParts, Names, PlainKey
<1>5. /\ Len(w) = Len(k.source) + Len(k.target) + 4
      /\ \A i \in 1..Len(k.source) : w[i] = k.source[i]
      /\ w[Len(k.source) + 1] = arrow[1] /\ w[Len(k.source) + 2] = arrow[2]
      /\ \A i \in 1..Len(k.target) : w[Len(k.source) + 2 + i] = k.target[i]
      /\ w[Len(k.source) + Len(k.target) + 4] = end[2]
  <2>1. InPlace(w, k.source, arrow, k.target, end)
    BY <1>4, FourTexts
  <2> QED
    BY <2>1 DEF InPlace
<1> QED
  BY <1>1, <1>2, <1>5 DEF Spells

-----------------------------------------------------------------------------
(* Without an arrow in the names the ids are apart.                        *)

LEMMA NameIsNoEdgeId ==
  ASSUME NEW C, NEW k, NEW n, Names(C, n, k), ArrowFree(n)
  PROVE  FALSE
<1> DEFINE i == Len(k.source) + 1
<1>1. Len(k.source) \in Nat /\ Len(k.target) \in Nat
  BY DEF Names, PlainKey
<1>2. /\ n[Len(k.source) + 1] = "-" /\ n[Len(k.source) + 2] = ">"
      /\ Len(n) = Len(k.source) + Len(k.target) + 4
  <2>1. Spells(n, k)
    BY EdgeIdText
  <2> QED
    BY <2>1 DEF Spells
<1>3. i \in 1..(Len(n) - 1) /\ i + 1 = Len(k.source) + 2
  <2> DEFINE a == Len(k.source)
             b == Len(k.target)
             c == Len(n)
  <2>1. a \in Nat /\ b \in Nat /\ c = a + b + 4
    BY <1>1, <1>2
  <2> HIDE DEF a, b, c
  <2>2. a + 1 \in 1..(c - 1) /\ (a + 1) + 1 = a + 2
    BY <2>1
  <2> QED
    BY <2>2 DEF a, b, c
<1> QED
  BY <1>2, <1>3 DEF ArrowFree

\* The arrow of one id is where that of an equal one is.
LEMMA SourcesNoLonger ==
  ASSUME NEW C, NEW w, NEW k, NEW l, Names(C, w, k), Names(C, w, l)
  PROVE  ~ (Len(k.source) < Len(l.source))
<1> SUFFICES ASSUME Len(k.source) < Len(l.source)
             PROVE  FALSE
  OBVIOUS
<1> DEFINE i == Len(k.source) + 1
<1>0. Spells(w, k) /\ Spells(w, l)
  BY EdgeIdText
<1>1. Len(k.source) \in Nat /\ Len(l.source) \in Nat
  BY DEF Names, PlainKey
<1>2. w[i] = "-" /\ w[i + 1] = ">"
  <2>1. i + 1 = Len(k.source) + 2
    BY <1>1
  <2> QED
    BY <1>0, <2>1 DEF Spells
<1>3. /\ \A j \in 1..Len(l.source) : w[j] = l.source[j]
      /\ w[Len(l.source) + 1] = "-"
  BY <1>0 DEF Spells
<1>4. CASE i = Len(l.source)
  BY <1>2, <1>3, <1>4
<1>5. CASE i # Len(l.source)
  <2>1. i \in 1..(Len(l.source) - 1) /\ i \in 1..Len(l.source) /\ i + 1 \in 1..Len(l.source)
    BY <1>1, <1>5
  <2> QED
    BY <1>2, <1>3, <2>1 DEF Names, PlainKey, ArrowFree
<1> QED
  BY <1>4, <1>5

LEMMA EdgeIdsApart ==
  ASSUME NEW C, NEW w, NEW k, NEW l, Names(C, w, k), Names(C, w, l)
  PROVE  k.source = l.source /\ k.target = l.target /\ k.type = l.type
<1> DEFINE m == Len(k.source)
           n == Len(k.target)
<1>0. Spells(w, k) /\ Spells(w, l)
  BY EdgeIdText
<1>1. /\ m \in Nat /\ Len(l.source) \in Nat /\ n \in Nat /\ Len(l.target) \in Nat
      /\ k.source \in Seq(C) /\ l.source \in Seq(C)
      /\ k.target \in Seq(C) /\ l.target \in Seq(C)
  BY DEF Names, PlainKey
<1>2. Len(l.source) = m
  BY <1>1, SourcesNoLonger
<1>3. /\ Len(w) = m + n + 4 /\ w[m + n + 4] = k.type
      /\ \A i \in 1..m : w[i] = k.source[i]
      /\ \A i \in 1..n : w[m + 2 + i] = k.target[i]
  BY <1>0 DEF Spells
<1>4. /\ Len(w) = m + Len(l.target) + 4 /\ w[m + Len(l.target) + 4] = l.type
      /\ \A i \in 1..m : w[i] = l.source[i]
      /\ \A i \in 1..Len(l.target) : w[m + 2 + i] = l.target[i]
  <2>1. /\ Len(w) = Len(l.source) + Len(l.target) + 4
        /\ w[Len(l.source) + Len(l.target) + 4] = l.type
        /\ \A i \in 1..Len(l.source) : w[i] = l.source[i]
        /\ \A i \in 1..Len(l.target) : w[Len(l.source) + 2 + i] = l.target[i]
    BY <1>0 DEF Spells
  <2> HIDE DEF m
  <2> QED
    BY <1>2, <2>1
<1> HIDE DEF m, n
<1>5. Len(l.target) = n
  <2> DEFINE o == Len(l.target)
  <2>1. m \in Nat /\ n \in Nat /\ o \in Nat /\ m + n + 4 = m + o + 4
    BY <1>1, <1>3, <1>4
  <2> HIDE DEF o
  <2>2. o = n
    BY <2>1
  <2> QED
    BY <2>2 DEF o
<1>6. k.source = l.source
  <2>1. \A i \in 1..m : k.source[i] = l.source[i]
    BY <1>3, <1>4
  <2> QED
    BY <1>1, <1>2, <2>1, SeqEqual DEF m
<1>7. k.target = l.target
  <2>1. \A i \in 1..n : k.target[i] = l.target[i]
    BY <1>3, <1>4, <1>5
  <2> QED
    BY <1>1, <1>5, <2>1, SeqEqual DEF n
<1> QED
  BY <1>3, <1>4, <1>5, <1>6, <1>7

-----------------------------------------------------------------------------
(* The theorem.                                                            *)

\* Only names and keys that agents sent are stored.
OnlySent == nodes \subseteq Name /\ edges \subseteq Keys

\* For names without an arrow an id that is reported as created is not the id of
\* anything that was stored before (memory.rs:117, the edge_id of the answer).
THEOREM PlainNamesSuffice ==
  ASSUME NEW C, {"-", ">", ":"} \cup Type \subseteq C, Name \subseteq Seq(C),
         \A s \in Name : ArrowFree(s)
  PROVE  Spec => CreatedMeansNew
<1>1. Init => OnlySent
  BY DEF Init, OnlySent
<1>2. OnlySent /\ [Next]_vars => OnlySent'
  BY DEF OnlySent, Next, MergeNode, MergeEdge, vars
<1>3. \A k \in Keys : \A w : w = EdgeId(k) => Names(C, w, k)
  <2>1. \A k \in Keys : PlainKey(C, k)
    BY DEF Keys, PlainKey
  <2> QED
    BY <2>1 DEF Names
<1>4. ASSUME OnlySent, Next, result'.outcome = "created"
      PROVE  result'.id \notin nodes \cup {EdgeId(k) : k \in edges}
  <2>1. CASE \E id \in Name : MergeNode(id)
    <3>1. PICK id \in Name : MergeNode(id)
      BY <2>1
    <3>2. result'.id = id /\ id \notin nodes
      BY <1>4, <3>1 DEF MergeNode, Report
    <3>3. ASSUME NEW k \in edges, id = EdgeId(k)
          PROVE  FALSE
      <4>1. Names(C, id, k) /\ ArrowFree(id)
        BY <1>3, <1>4, <3>3 DEF OnlySent
      <4> QED
        BY <4>1, NameIsNoEdgeId
    <3> QED
      BY <3>2, <3>3
  <2>2. CASE \E k \in Keys : MergeEdge(k)
    <3>1. PICK k \in Keys : MergeEdge(k)
      BY <2>2
    <3>2. result'.id = EdgeId(k) /\ k \notin edges
      BY <1>4, <3>1 DEF MergeEdge, Report
    <3>3. ASSUME NEW n \in nodes, n = EdgeId(k)
          PROVE  FALSE
      <4>1. Names(C, n, k) /\ ArrowFree(n)
        BY <1>3, <1>4, <3>3 DEF OnlySent
      <4> QED
        BY <4>1, NameIsNoEdgeId
    <3>4. ASSUME NEW l \in edges, EdgeId(k) = EdgeId(l)
          PROVE  FALSE
      <4>1. k.source = l.source /\ k.target = l.target /\ k.type = l.type
        <5>1. Names(C, EdgeId(k), k) /\ Names(C, EdgeId(k), l)
          BY <1>3, <1>4, <3>4 DEF OnlySent
        <5> QED
          BY <5>1, EdgeIdsApart
      <4>2. /\ k \in [source : Name, target : Name, type : Type]
            /\ l \in [source : Name, target : Name, type : Type]
        BY <1>4 DEF OnlySent, Keys
      <4>3. k = l
        BY <4>1, <4>2
      <4> QED
        BY <3>2, <4>3
    <3> QED
      BY <3>2, <3>3, <3>4
  <2> QED
    BY <1>4, <2>1, <2>2 DEF Next
<1>5. OnlySent /\ [Next]_vars
        => [result'.outcome = "created" =>
              result'.id \notin nodes \cup {EdgeId(k) : k \in edges}]_vars
  BY <1>4
<1> QED
  BY <1>1, <1>2, <1>5, PTL DEF Spec, CreatedMeansNew
=============================================================================
