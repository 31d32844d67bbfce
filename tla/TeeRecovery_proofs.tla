--------------------------- MODULE TeeRecovery_proofs --------------------------
(***************************************************************************)
(* What CMBS knows after a recovery, for any tasks, any requests of the    *)
(* agents and any eliminations.                                            *)
(***************************************************************************)
EXTENDS TeeRecovery, TeeBatch_proofs, FiniteSetTheorems

Below(x, y) == x.nodes \subseteq y.nodes /\ x.edges \subseteq y.edges

\* The eliminations of the incident that s holds, in the form of the messages.
Marked(s) ==
  [ nodes |-> NodeMarks(s, Incident),
    edges |-> {EdgeTombstoneEntryOf(k) : k \in EdgeMarks(s, Incident)} ]

\* What a live view shows has nothing of what is eliminated.
Apart(live, dead) ==
  /\ live.nodes \cap dead.nodes = {}
  /\ live.edges \cap dead.edges = {}
  /\ \A e \in live.edges : {e.source, e.target} \cap dead.nodes = {}

\* What Learn makes of a live view.
Shown(view) == [nodes |-> {n.id : n \in view.nodes}, edges |-> Entries(view.edges)]

LEMMA BelowTransitive ==
  ASSUME NEW x, NEW y, NEW z, Below(x, y), Below(y, z)
  PROVE  Below(x, z)
BY DEF Below

LEMMA BothBelow ==
  ASSUME NEW x, NEW y, NEW z, Below(x, z), Below(y, z)
  PROVE  Below(Both(x, y), z)
BY DEF Below, Both

LEMMA NothingBelow == \A x : Below(Nothing, x)
BY DEF Below, Nothing

\* What is eliminated stays so.
LEMMA MarkedGrows ==
  ASSUME NEW s, Keyed(s), NEW r \in Message, NEW now \in Time
  PROVE  Below(Marked(s), Marked(After(s, r, now)))
BY AfterIncidents DEF Below, Marked

-----------------------------------------------------------------------------
(* The answers.                                                            *)

\* An elimination that is answered with success is stored.
LEMMA EliminationStored ==
  ASSUME NEW s, Keyed(s), NEW r \in Message, NEW now \in Time,
         r.rpc \in TombstoneRpcs, r.incident_id = Incident, StatusOf(s, r) = "Ok"
  PROVE  Below(Eliminated(r), Marked(After(s, r, now)))
<1>1. Registered(s, r) /\ Complete(r)
  BY DEF StatusOf
<1>2. CASE r.rpc = "MergeNodeTombstones"
  <2>1. Eliminated(r).nodes = Names(r) /\ Eliminated(r).edges = {}
    BY <1>2 DEF Eliminated, Nothing, Names, Named
  <2>2. Names(r) \subseteq NodeMarks(After(s, r, now), Incident)
    BY <1>1, <1>2, AfterIncidents DEF NewMarks
  <2> QED
    BY <2>1, <2>2 DEF Below, Marked
<1>3. CASE r.rpc = "MergeEdgeTombstones"
  <2>1. EntryItems(r) = DOMAIN r.entries
    BY <1>1, <1>3 DEF Complete
  <2>2. r.entries \in Seq(EdgeTombstoneEntry)
    BY <1>3, MessageForms
  <2>3. Names(r) \subseteq EdgeMarks(After(s, r, now), Incident)
    BY <1>1, <1>3, AfterIncidents DEF NewMarks
  <2>4. ASSUME NEW j \in DOMAIN r.entries
        PROVE  r.entries[j] \in Marked(After(s, r, now)).edges
    <3>1. EdgeTombstoneEntryOf(ProtoEdgeKey(r.entries[j])) = r.entries[j]
      BY <1>3, <2>1, <2>2, NamesType, ElementType, EntryRoundTrip
    <3>2. ProtoEdgeKey(r.entries[j]) \in Names(r)
      BY <1>3, <2>1 DEF Names, Named
    <3> QED
      BY <2>3, <3>1, <3>2 DEF Marked
  <2>5. /\ Eliminated(r).nodes = {}
        /\ Eliminated(r).edges = {r.entries[j] : j \in DOMAIN r.entries}
    BY <1>3 DEF Eliminated, Nothing
  <2> QED
    BY <2>4, <2>5 DEF Below
<1> QED
  BY <1>2, <1>3 DEF TombstoneRpcs

\* The context of the incident is what is eliminated.
LEMMA ContextIsMarked ==
  ASSUME NEW s, NEW r, r = OfIncident("GetIncidentContext"), StatusOf(s, r) = "Ok"
  PROVE  ViewOf(s, r).nodes = Marked(s).nodes /\ ViewOf(s, r).edges = Marked(s).edges
<1>1. r.rpc = "GetIncidentContext" /\ r.incident_id = Incident
  BY DEF OfIncident
<1>2. Incident \in DOMAIN s.incidents
  BY <1>1 DEF StatusOf, Registered, IncidentRpcs
<1> QED
  BY <1>1, <1>2 DEF ViewOf, View, NodesRead, EdgesRead, Marked, NodeMarks, EdgeMarks,
     WriteRpcs, TombstoneRpcs

\* The live view shows nothing that is eliminated.
LEMMA LiveViewIsApart ==
  ASSUME NEW s, Keyed(s), NEW r, r = OfIncident("GetLiveView"), StatusOf(s, r) = "Ok"
  PROVE  Apart(Shown(ViewOf(s, r)), Marked(s))
<1> DEFINE v == ViewOf(s, r)
<1>1. r.rpc = "GetLiveView" /\ r.incident_id = Incident
  BY DEF OfIncident
<1>2. Incident \in DOMAIN s.incidents
  BY <1>1 DEF StatusOf, Registered, IncidentRpcs
<1>3. /\ v.nodes = {DomainNodeToProto(id, s.nodes[id]) : id \in LiveNodes(s, Incident)}
      /\ v.edges = {DomainEdgeToProto(k, s.edges[k]) : k \in LiveEdges(s, Incident)}
  BY <1>1 DEF ViewOf, View, NodesRead, EdgesRead, WriteRpcs, TombstoneRpcs
<1>4. Shown(v).nodes = LiveNodes(s, Incident)
  <2>1. \A id : DomainNodeToProto(id, s.nodes[id]).id = id
    BY DEF DomainNodeToProto
  <2> HIDE DEF v
  <2>2. Shown(v).nodes = {n.id : n \in v.nodes}
    BY DEF Shown
  <2> QED
    BY <1>3, <2>1, <2>2
<1>5. Shown(v).edges = {EdgeTombstoneEntryOf(k) : k \in LiveEdges(s, Incident)}
  <2> DEFINE entry(e) == [source |-> e.source, target |-> e.target, type |-> e.type]
  <2>1. \A k : entry(DomainEdgeToProto(k, s.edges[k])) = EdgeTombstoneEntryOf(k)
    BY DEF DomainEdgeToProto, EdgeTombstoneEntryOf
  <2> HIDE DEF v
  <2>2. Shown(v).edges = {entry(e) : e \in v.edges}
    BY DEF Shown, Entries
  <2> HIDE DEF entry
  <2> QED
    BY <1>3, <2>1, <2>2
<1> HIDE DEF v
<1>6. /\ LiveEdges(s, Incident) \subseteq AnyEdgeKey
      /\ EdgeMarks(s, Incident) \subseteq AnyEdgeKey
  BY <1>2 DEF LiveEdges, EdgeMarks, Keyed, IsMap, IncidentState
<1>7. Shown(v).nodes \cap Marked(s).nodes = {}
  BY <1>2, <1>4 DEF LiveNodes, Marked, NodeMarks
<1>8. LiveEdges(s, Incident) \cap EdgeMarks(s, Incident) = {}
  BY <1>2 DEF LiveEdges, EdgeMarks
<1>9. Shown(v).edges \cap Marked(s).edges = {}
  BY <1>5, <1>6, <1>8, EntriesDiffer DEF Marked
<1>10. ASSUME NEW e \in Shown(v).edges
       PROVE  {e.source, e.target} \cap Marked(s).nodes = {}
  <2>1. PICK k \in LiveEdges(s, Incident) : e = EdgeTombstoneEntryOf(k)
    BY <1>5
  <2> QED
    BY <1>2, <2>1 DEF LiveEdges, EdgeTombstoneEntryOf, Marked, NodeMarks
<1> QED
  BY <1>7, <1>9, <1>10 DEF Apart, v

-----------------------------------------------------------------------------
(* The inductive invariant.                                                *)

IsAtomicCall(c) ==
  /\ c = [pc |-> c.pc, req |-> c.req, report |-> c.report, view |-> c.view]
  /\ c.pc # "idle" => c.req \in Message

Shape ==
  /\ Keyed(state)
  /\ call = [t \in Task |-> call[t]] /\ \A t \in Task : IsAtomicCall(call[t])
  /\ belief = [phase |-> belief.phase, eliminated |-> belief.eliminated, live |-> belief.live]
  /\ belief.phase \in {"down", "context", "up"}

\* What CMBS was told and what it believes is eliminated is eliminated.
Sound ==
  Below(acknowledged, Marked(state)) /\ Below(belief.eliminated, Marked(state))

\* What the answer c says when CMBS hears it, be that long after it was given:
\* the elimination is stored; the context has all that was acknowledged and no
\* more than what is stored; the live view has nothing that CMBS knows to be
\* eliminated.
Answer(c) ==
  c.pc = "Ok" =>
    /\ c.req.rpc \in TombstoneRpcs => Below(Eliminated(c.req), Marked(state))
    /\ c.req.rpc = "GetIncidentContext" =>
         Below(acknowledged, c.view) /\ Below(c.view, Marked(state))
    /\ c.req.rpc = "GetLiveView" => Apart(Shown(c.view), belief.eliminated)

Asked ==
  waiting # None =>
    /\ waiting \in Task /\ call[waiting].pc # "idle"
    /\ call[waiting].req \in Wanted
    /\ Answer(call[waiting])

Recovered == RecoveryIsComplete /\ NothingResurrected

RecoveryInv == Shape /\ Sound /\ Asked /\ Recovered

LEMMA RecoveredForms ==
  /\ RecoveryIsComplete <=> (belief.phase # "down" => Below(acknowledged, belief.eliminated))
  /\ NothingResurrected <=> (belief.phase = "up" => Apart(belief.live, belief.eliminated))
BY DEF RecoveryIsComplete, NothingResurrected, Below, Apart

LEMMA WantedMessages ==
  ASSUME Shape, NEW r \in Wanted
  PROVE  /\ r \in Message
         /\ belief.phase = "down" => r = OfIncident("GetIncidentContext")
         /\ belief.phase = "context" => r = OfIncident("GetLiveView")
         /\ belief.phase = "up" => r.rpc \in TombstoneRpcs /\ r.incident_id = Incident
<1>1. belief.phase \in {"down", "context", "up"}
  BY DEF Shape
<1>2. \A rpc \in {"GetIncidentContext", "GetLiveView"} : OfIncident(rpc) \in Message
  BY IncidentAssumption DEF OfIncident, Message, IncidentRequest, Text
<1> QED
  BY <1>1, <1>2, RequestsAssumption DEF Wanted, Eliminations

\* What the steps of Tee do to the calls.
LEMMA StartEffect ==
  ASSUME Shape, NEW t \in Task, NEW r \in Message, Start(t, r)
  PROVE  /\ call' = [u \in Task |-> call'[u]] /\ \A u \in Task : IsAtomicCall(call'[u])
         /\ call[t].pc = "idle"
         /\ call'[t].pc \in {"pending", "InvalidArgument"} /\ call'[t].req = r
         /\ \A u \in Task \ {t} : call'[u] = call[u]
         /\ state' = state
<1> DEFINE p == IF Valid(r) THEN "pending" ELSE "InvalidArgument"
           c == Called(p, r)
<1>1. call' = [call EXCEPT ![t] = c] /\ call[t].pc = "idle" /\ state' = state
  BY DEF Start
<1>2. p \in {"pending", "InvalidArgument"}
  OBVIOUS
<1> HIDE DEF p
<1>3. IsAtomicCall(c) /\ c.pc \in {"pending", "InvalidArgument"} /\ c.req = r
  BY <1>2 DEF IsAtomicCall, Called
<1> HIDE DEF c
<1> QED
  BY <1>1, <1>3 DEF Shape

LEMMA FinishEffect ==
  ASSUME Shape, NEW t \in Task, Finish(t)
  PROVE  /\ call' = [u \in Task |-> call'[u]] /\ \A u \in Task : IsAtomicCall(call'[u])
         /\ call[t].pc # "idle"
         /\ \A u \in Task \ {t} : call'[u] = call[u]
         /\ state' = state
<1>1. call' = [call EXCEPT ![t] = NoCall] /\ call[t].pc # "idle" /\ state' = state
  BY DEF Finish
<1>2. IsAtomicCall(NoCall)
  BY DEF NoCall, Called, IsAtomicCall
<1> QED
  BY <1>1, <1>2 DEF Shape

LEMMA ServeEffect ==
  ASSUME Shape, NEW t \in Task, Serve(t)
  PROVE  /\ call' = [u \in Task |-> call'[u]] /\ \A u \in Task : IsAtomicCall(call'[u])
         /\ call[t].pc = "pending" /\ call[t].req \in Message
         /\ call'[t].pc = StatusOf(state, call[t].req) /\ call'[t].pc # "idle"
         /\ call'[t].req = call[t].req
         /\ call'[t].report = ReportOf(state, call[t].req)
         /\ call'[t].view = ViewOf(state, call[t].req)
         /\ \A u \in Task \ {t} : call'[u] = call[u]
         /\ \E now \in Time : state' = After(state, call[t].req, now)
<1> DEFINE r == call[t].req
           c == [ pc |-> StatusOf(state, r), req |-> r, report |-> ReportOf(state, r),
                  view |-> ViewOf(state, r) ]
<1>1. IsAtomicCall(call[t]) /\ call[t].pc = "pending" /\ r \in Message
  BY DEF Shape, Serve, IsAtomicCall
<1>2. call' = [call EXCEPT ![t] = c]
  BY DEF Serve
<1>3. IsAtomicCall(c)
  BY <1>1 DEF IsAtomicCall
<1>4. c.pc = StatusOf(state, r) /\ c.req = r /\ c.report = ReportOf(state, r)
      /\ c.view = ViewOf(state, r)
  OBVIOUS
<1>5. StatusOf(state, r) # "idle"
  BY DEF StatusOf
<1>6. \E now \in Time : state' = After(state, r, now)
  BY DEF Serve
<1> HIDE DEF c
<1>7. /\ call' = [u \in Task |-> call'[u]] /\ \A u \in Task : IsAtomicCall(call'[u])
      /\ call'[t] = c
      /\ \A u \in Task \ {t} : call'[u] = call[u]
  BY <1>2, <1>3 DEF Shape
<1> QED
  BY <1>1, <1>4, <1>5, <1>6, <1>7

-----------------------------------------------------------------------------
(* The steps.                                                              *)

LEMMA SendStep ==
  ASSUME RecoveryInv, NEW t \in Task, Send(t)
  PROVE  RecoveryInv'
<1>1. PICK r \in Wanted : Start(t, r)
  BY DEF Send
<1>2. /\ waiting = None /\ waiting' = t /\ belief' = belief /\ acknowledged' = acknowledged
      /\ r \in Message
  BY WantedMessages DEF Send, RecoveryInv
<1>3. /\ call' = [u \in Task |-> call'[u]] /\ \A u \in Task : IsAtomicCall(call'[u])
      /\ call'[t].pc \in {"pending", "InvalidArgument"} /\ call'[t].req = r
      /\ state' = state
  BY <1>1, <1>2, StartEffect DEF RecoveryInv
<1>4. Wanted' = Wanted
  BY <1>2 DEF Wanted
<1>5. Asked'
  BY <1>1, <1>2, <1>3, <1>4 DEF Asked, Answer
<1> QED
  BY <1>2, <1>3, <1>5 DEF RecoveryInv, Shape, Sound, Recovered, RecoveryIsComplete,
     NothingResurrected

LEMMA AgentStep ==
  ASSUME RecoveryInv, NEW t \in Task, Agent(t)
  PROVE  RecoveryInv'
<1>1. /\ t # waiting /\ waiting' = waiting /\ belief' = belief
      /\ acknowledged' = acknowledged
  BY DEF Agent
<1>2. /\ call' = [u \in Task |-> call'[u]] /\ \A u \in Task : IsAtomicCall(call'[u])
      /\ \A u \in Task \ {t} : call'[u] = call[u]
      /\ state' = state
  <2>1. CASE Finish(t)
    BY <2>1, FinishEffect DEF RecoveryInv
  <2>2. ASSUME NEW r \in Requests, Start(t, r)
        PROVE  /\ call' = [u \in Task |-> call'[u]]
               /\ \A u \in Task : IsAtomicCall(call'[u])
               /\ \A u \in Task \ {t} : call'[u] = call[u]
               /\ state' = state
    BY <2>2, RequestsAssumption, StartEffect DEF RecoveryInv
  <2> QED
    BY <2>1, <2>2 DEF Agent
<1>3. Wanted' = Wanted
  BY <1>1 DEF Wanted
<1>4. Asked'
  BY <1>1, <1>2, <1>3 DEF RecoveryInv, Asked, Answer
<1> QED
  BY <1>1, <1>2, <1>4 DEF RecoveryInv, Shape, Sound, Recovered, RecoveryIsComplete,
     NothingResurrected

\* Tee serves the call that CMBS waits for.
LEMMA AnswerGiven ==
  ASSUME RecoveryInv, NEW t \in Task, Serve(t), call[t].req \in Wanted,
         belief' = belief, acknowledged' = acknowledged
  PROVE  Answer(call[t])'
<1> DEFINE r == call[t].req
           v == ViewOf(state, r)
<1>1. /\ r \in Message /\ call'[t].pc = StatusOf(state, r)
      /\ call'[t].req = r /\ call'[t].view = v
      /\ Keyed(state)
  BY ServeEffect DEF RecoveryInv, Shape
<1>2. PICK now \in Time : state' = After(state, r, now)
  BY ServeEffect DEF RecoveryInv
<1>3. Below(Marked(state), Marked(state'))
  BY <1>1, <1>2, MarkedGrows
<1> SUFFICES ASSUME StatusOf(state, r) = "Ok"
             PROVE  /\ r.rpc \in TombstoneRpcs => Below(Eliminated(r), Marked(state'))
                    /\ r.rpc = "GetIncidentContext" =>
                         Below(acknowledged, v) /\ Below(v, Marked(state'))
                    /\ r.rpc = "GetLiveView" => Apart(Shown(v), belief.eliminated)
  BY <1>1 DEF Answer
<1>4. /\ r.rpc \in TombstoneRpcs => r.incident_id = Incident
      /\ r.rpc = "GetIncidentContext" => r = OfIncident("GetIncidentContext")
      /\ r.rpc = "GetLiveView" => r = OfIncident("GetLiveView")
  BY WantedMessages DEF RecoveryInv, Shape, OfIncident, TombstoneRpcs
<1>5. ASSUME r.rpc \in TombstoneRpcs
      PROVE  Below(Eliminated(r), Marked(state'))
  BY <1>1, <1>2, <1>4, <1>5, EliminationStored
<1>6. ASSUME r.rpc = "GetIncidentContext"
      PROVE  Below(acknowledged, v) /\ Below(v, Marked(state'))
  <2>1. v.nodes = Marked(state).nodes /\ v.edges = Marked(state).edges
    BY <1>4, <1>6, ContextIsMarked
  <2> HIDE DEF v
  <2> QED
    BY <1>3, <2>1 DEF RecoveryInv, Sound, Below
<1>7. ASSUME r.rpc = "GetLiveView"
      PROVE  Apart(Shown(v), belief.eliminated)
  <2>1. Apart(Shown(v), Marked(state))
    BY <1>1, <1>4, <1>7, LiveViewIsApart
  <2> HIDE DEF v
  <2> QED
    BY <2>1 DEF RecoveryInv, Sound, Below, Apart
<1> QED
  BY <1>5, <1>6, <1>7

LEMMA WorkStep ==
  ASSUME RecoveryInv, NEW t \in Task, Work(t)
  PROVE  RecoveryInv'
<1>1. /\ Serve(t) /\ waiting' = waiting /\ belief' = belief /\ acknowledged' = acknowledged
      /\ Shape
  BY DEF Work, RecoveryInv
<1>2. PICK now \in Time : state' = After(state, call[t].req, now)
  BY <1>1, ServeEffect
<1>3. Keyed(state') /\ Below(Marked(state), Marked(state'))
  BY <1>1, <1>2, ServeEffect, AfterIncidents, MarkedGrows DEF Shape
<1>4. Wanted' = Wanted
  BY <1>1 DEF Wanted
<1>5. Shape'
  BY <1>1, <1>3, ServeEffect DEF Shape
<1>6. Sound'
  BY <1>1, <1>3, BelowTransitive DEF RecoveryInv, Sound
<1>7. ASSUME waiting # None
      PROVE  /\ waiting \in Task /\ call'[waiting].pc # "idle"
             /\ call'[waiting].req \in Wanted /\ Answer(call[waiting])'
  <2>1. waiting \in Task /\ call[waiting].pc # "idle" /\ call[waiting].req \in Wanted
    BY <1>7 DEF RecoveryInv, Asked
  <2>2. CASE waiting = t
    <3>1. call'[t].pc # "idle" /\ call'[t].req = call[t].req
      BY <1>1, ServeEffect
    <3> QED
      BY <1>1, <2>1, <2>2, <3>1, AnswerGiven
  <2>3. CASE waiting # t
    <3>1. call'[waiting] = call[waiting] /\ Answer(call[waiting])
      BY <1>1, <1>7, <2>1, <2>3, ServeEffect DEF RecoveryInv, Asked
    <3> QED
      BY <1>1, <1>3, <2>1, <3>1, BelowTransitive DEF Answer
  <2> QED
    BY <2>2, <2>3
<1>8. Asked'
  BY <1>1, <1>4, <1>7 DEF Asked
<1> QED
  BY <1>1, <1>5, <1>6, <1>8 DEF RecoveryInv, Recovered, RecoveryIsComplete,
     NothingResurrected

\* CMBS hears the answer.
LEMMA LearnKeeps ==
  ASSUME RecoveryInv, waiting # None, NEW b, b = Learn(belief, call[waiting]),
         NEW a, a = IF /\ call[waiting].pc = "Ok"
                       /\ call[waiting].req.rpc \in TombstoneRpcs
                    THEN Both(acknowledged, Eliminated(call[waiting].req))
                    ELSE acknowledged
  PROVE  /\ b = [phase |-> b.phase, eliminated |-> b.eliminated, live |-> b.live]
         /\ b.phase \in {"down", "context", "up"}
         /\ Below(a, Marked(state)) /\ Below(b.eliminated, Marked(state))
         /\ b.phase # "down" => Below(a, b.eliminated)
         /\ b.phase = "up" => Apart(b.live, b.eliminated)
<1> DEFINE c == call[waiting]
<1>1. /\ belief = [ phase |-> belief.phase, eliminated |-> belief.eliminated,
                    live |-> belief.live ]
      /\ belief.phase \in {"down", "context", "up"}
      /\ Below(acknowledged, Marked(state)) /\ Below(belief.eliminated, Marked(state))
      /\ belief.phase # "down" => Below(acknowledged, belief.eliminated)
      /\ belief.phase = "up" => Apart(belief.live, belief.eliminated)
  BY RecoveredForms DEF RecoveryInv, Shape, Sound, Recovered
<1>2. c.req \in Wanted /\ Answer(c)
  BY DEF RecoveryInv, Asked
<1>3. /\ belief.phase = "down" => c.req = OfIncident("GetIncidentContext")
      /\ belief.phase = "context" => c.req = OfIncident("GetLiveView")
      /\ belief.phase = "up" => c.req.rpc \in TombstoneRpcs
  BY <1>2, WantedMessages DEF RecoveryInv
<1> HIDE DEF c
<1>4. CASE c.pc # "Ok"
  BY <1>1, <1>4 DEF Learn, c
<1>5. CASE c.pc = "Ok" /\ belief.phase = "down"
  <2>1. c.req.rpc = "GetIncidentContext"
    BY <1>3, <1>5 DEF OfIncident
  <2>2. a = acknowledged
    BY <2>1 DEF c, TombstoneRpcs
  <2>3. Below(acknowledged, c.view) /\ Below(c.view, Marked(state))
    BY <1>2, <1>5, <2>1 DEF Answer
  <2>4. b = [ belief EXCEPT !.phase = "context",
                !.eliminated = [nodes |-> c.view.nodes, edges |-> c.view.edges] ]
    BY <1>5, <2>1 DEF Learn, c, TombstoneRpcs
  <2>5. /\ b = [phase |-> b.phase, eliminated |-> b.eliminated, live |-> b.live]
        /\ b.phase = "context"
        /\ b.eliminated = [nodes |-> c.view.nodes, edges |-> c.view.edges]
    BY <1>1, <2>4
  <2> QED
    BY <1>1, <2>2, <2>3, <2>5 DEF Below
<1>6. CASE c.pc = "Ok" /\ belief.phase = "context"
  <2>1. c.req.rpc = "GetLiveView"
    BY <1>3, <1>6 DEF OfIncident
  <2>2. a = acknowledged
    BY <2>1 DEF c, TombstoneRpcs
  <2>3. Apart(Shown(c.view), belief.eliminated)
    BY <1>2, <1>6, <2>1 DEF Answer
  <2>4. b = [belief EXCEPT !.phase = "up", !.live = Shown(c.view)]
    BY <1>6, <2>1 DEF Learn, c, TombstoneRpcs, Shown
  <2>5. /\ b = [phase |-> b.phase, eliminated |-> b.eliminated, live |-> b.live]
        /\ b.phase = "up" /\ b.eliminated = belief.eliminated
        /\ b.live = Shown(c.view)
    BY <1>1, <2>4
  <2> QED
    BY <1>1, <1>6, <2>2, <2>3, <2>5
<1>7. CASE c.pc = "Ok" /\ belief.phase = "up"
  <2> DEFINE d == Both(belief.eliminated, Eliminated(c.req))
  <2>1. c.req.rpc \in TombstoneRpcs
    BY <1>3, <1>7
  <2>2. a = Both(acknowledged, Eliminated(c.req))
    BY <1>7, <2>1 DEF c
  <2>3. Below(Eliminated(c.req), Marked(state))
    BY <1>2, <1>7, <2>1 DEF Answer
  <2>4. b = [belief EXCEPT !.phase = "context", !.eliminated = d, !.live = Nothing]
    BY <1>7, <2>1 DEF Learn, c, TombstoneRpcs
  <2> HIDE DEF d
  <2>5. /\ b = [phase |-> b.phase, eliminated |-> b.eliminated, live |-> b.live]
        /\ b.phase = "context" /\ b.eliminated = d
    BY <1>1, <2>4
  <2>6. Below(a, Marked(state)) /\ Below(d, Marked(state))
    BY <1>1, <2>2, <2>3, BothBelow DEF d
  <2>7. Below(a, d)
    BY <1>1, <1>7, <2>2 DEF d, Below, Both
  <2> QED
    BY <2>5, <2>6, <2>7
<1> QED
  BY <1>1, <1>4, <1>5, <1>6, <1>7

LEMMA HearStep ==
  ASSUME RecoveryInv, Hear
  PROVE  RecoveryInv'
<1>1. /\ waiting # None /\ waiting' = None /\ Finish(waiting)
      /\ waiting \in Task /\ Shape
  BY DEF Hear, RecoveryInv, Asked
<1>2. /\ call' = [u \in Task |-> call'[u]] /\ \A u \in Task : IsAtomicCall(call'[u])
      /\ state' = state
  BY <1>1, FinishEffect
<1>3. /\ belief' = Learn(belief, call[waiting])
      /\ acknowledged' = IF /\ call[waiting].pc = "Ok"
                            /\ call[waiting].req.rpc \in TombstoneRpcs
                         THEN Both(acknowledged, Eliminated(call[waiting].req))
                         ELSE acknowledged
  BY DEF Hear
<1>4. /\ belief' = [ phase |-> belief'.phase, eliminated |-> belief'.eliminated,
                     live |-> belief'.live ]
      /\ belief'.phase \in {"down", "context", "up"}
      /\ Below(acknowledged', Marked(state)) /\ Below(belief'.eliminated, Marked(state))
      /\ belief'.phase # "down" => Below(acknowledged', belief'.eliminated)
      /\ belief'.phase = "up" => Apart(belief'.live, belief'.eliminated)
  BY <1>1, <1>3, LearnKeeps
<1>5. Shape'
  BY <1>1, <1>2, <1>4 DEF Shape
<1>6. Sound'
  BY <1>2, <1>4 DEF Sound
<1>7. Asked'
  BY <1>1 DEF Asked
<1>8. Recovered'
  BY <1>4 DEF Recovered, RecoveryIsComplete, NothingResurrected, Below, Apart
<1> QED
  BY <1>5, <1>6, <1>7, <1>8 DEF RecoveryInv

LEMMA GiveUpStep ==
  ASSUME RecoveryInv, GiveUp \/ UNCHANGED clientVars
  PROVE  RecoveryInv'
<1>1. /\ state' = state /\ call' = call /\ belief' = belief /\ acknowledged' = acknowledged
      /\ waiting' = None \/ waiting' = waiting
  BY DEF GiveUp, vars, clientVars
<1>2. Asked'
  BY <1>1 DEF RecoveryInv, Asked, Answer, Wanted
<1> QED
  BY <1>1, <1>2 DEF RecoveryInv, Shape, Sound, Recovered, RecoveryIsComplete,
     NothingResurrected

LEMMA CrashStep ==
  ASSUME RecoveryInv, Crash
  PROVE  RecoveryInv'
<1>1. /\ state' = state /\ call' = call /\ belief' = Unknown
      /\ acknowledged' = acknowledged /\ waiting' = None
  BY DEF Crash, vars
<1>2. /\ belief'.phase = "down" /\ belief'.eliminated = Nothing
      /\ belief' = [ phase |-> belief'.phase, eliminated |-> belief'.eliminated,
                     live |-> belief'.live ]
  BY <1>1 DEF Unknown
<1>3. Shape'
  BY <1>1, <1>2 DEF RecoveryInv, Shape
<1>4. Sound'
  BY <1>1, <1>2, NothingBelow DEF RecoveryInv, Sound
<1>5. Asked' /\ Recovered'
  BY <1>1, <1>2 DEF Asked, Recovered, RecoveryIsComplete, NothingResurrected
<1> QED
  BY <1>3, <1>4, <1>5 DEF RecoveryInv

LEMMA RecoveryStart == ClientInit => RecoveryInv
<1> SUFFICES ASSUME ClientInit
             PROVE  RecoveryInv
  OBVIOUS
<1>1. /\ state = NewState /\ call = [t \in Task |-> NoCall] /\ waiting = None
      /\ belief = Unknown /\ acknowledged = Nothing
  BY DEF ClientInit, Init
<1>2. Keyed(NewState) /\ IsAtomicCall(NoCall)
  BY DEF Keyed, NewState, EmptyMap, IsMap, IsAtomicCall, NoCall, Called
<1>3. Shape
  BY <1>1, <1>2 DEF Shape, Unknown
<1>4. Sound
  BY <1>1, NothingBelow DEF Sound, Unknown
<1>5. Asked /\ Recovered
  BY <1>1 DEF Asked, Recovered, RecoveryIsComplete, NothingResurrected, Unknown
<1> QED
  BY <1>3, <1>4, <1>5 DEF RecoveryInv

LEMMA RecoveryInvariant == ClientSpec => []RecoveryInv
<1>1. RecoveryInv /\ [ClientNext]_clientVars => RecoveryInv'
  BY SendStep, AgentStep, WorkStep, HearStep, GiveUpStep, CrashStep DEF ClientNext
<1> QED
  BY <1>1, RecoveryStart, PTL DEF ClientSpec

\* Recovery forgets nothing: with the context of its incident CMBS has every
\* elimination that any earlier life of it was told is stored, whatever calls
\* of its earlier lives are still under way.
THEOREM NothingForgotten == ClientSpec => []RecoveryIsComplete
BY RecoveryInvariant, PTL DEF RecoveryInv, Recovered

\* Recovery resurrects nothing: the live view, read by a second call, shows
\* nothing that CMBS knows to be eliminated.
THEOREM DeadStayDead == ClientSpec => []NothingResurrected
BY RecoveryInvariant, PTL DEF RecoveryInv, Recovered

-----------------------------------------------------------------------------
(* Credits.                                                                *)

Item(rpc, i, id) == <<rpc, i, id>>

\* CreditsAddUp is inductive in this form: each credit is for one tombstone
\* that is stored, and no stored node tombstone is without its credit.
CreditsInv ==
  /\ \A x \in DOMAIN credits : credits[x] = 1
  /\ \A x \in DOMAIN credits : \E i, id :
       \/ x = Item("MergeNodeTombstones", i, id) /\ id \in NodeMarks(state, i)
       \/ x = Item("MergeEdgeTombstones", i, id) /\ id \in EdgeMarks(state, i)
  /\ \A i : \A id \in NodeMarks(state, i) :
       Item("MergeNodeTombstones", i, id) \in DOMAIN credits

LEMMA CreditsInvSuffices == CreditsInv => CreditsAddUp
<1> SUFFICES ASSUME CreditsInv, NEW i \in DOMAIN state.incidents
             PROVE  LET credited(rpc) == {x[3] : x \in {y \in DOMAIN credits :
                                                         y[1] = rpc /\ y[2] = i}}
                    IN  /\ credited("MergeNodeTombstones") = state.incidents[i].node_tombstones
                        /\ credited("MergeEdgeTombstones")
                             \subseteq state.incidents[i].edge_tombstones
  BY DEF CreditsAddUp, CreditsInv
<1> DEFINE credited(rpc) == {x[3] : x \in {y \in DOMAIN credits : y[1] = rpc /\ y[2] = i}}
<1>1. /\ NodeMarks(state, i) = state.incidents[i].node_tombstones
      /\ EdgeMarks(state, i) = state.incidents[i].edge_tombstones
  BY DEF NodeMarks, EdgeMarks
<1>2. ASSUME NEW x \in DOMAIN credits, x[2] = i
      PROVE  /\ x[1] = "MergeNodeTombstones" => x[3] \in NodeMarks(state, i)
             /\ x[1] = "MergeEdgeTombstones" => x[3] \in EdgeMarks(state, i)
  <2>1. PICK j, id :
          \/ x = Item("MergeNodeTombstones", j, id) /\ id \in NodeMarks(state, j)
          \/ x = Item("MergeEdgeTombstones", j, id) /\ id \in EdgeMarks(state, j)
    BY DEF CreditsInv
  <2>2. x[2] = j /\ x[3] = id /\ j = i
    BY <1>2, <2>1 DEF Item
  <2>3. x[1] = "MergeNodeTombstones" => x = Item("MergeNodeTombstones", j, id)
    BY <2>1 DEF Item
  <2>4. x[1] = "MergeEdgeTombstones" => x = Item("MergeEdgeTombstones", j, id)
    BY <2>1 DEF Item
  <2>5. Item("MergeNodeTombstones", j, id) # Item("MergeEdgeTombstones", j, id)
    BY DEF Item
  <2> QED
    BY <2>1, <2>2, <2>3, <2>4, <2>5
<1>3. ASSUME NEW id \in NodeMarks(state, i)
      PROVE  id \in credited("MergeNodeTombstones")
  <2>1. Item("MergeNodeTombstones", i, id) \in DOMAIN credits
    BY DEF CreditsInv
  <2> QED
    BY <2>1 DEF Item
<1> QED
  BY <1>1, <1>2, <1>3

\* Of the positions of a list, those that name something for the first time
\* that is not in M: each such thing has one.
First(n, M) == {j \in DOMAIN n : n[j] \notin M \cup {n[l] : l \in 1..(j - 1)}}

LEMMA FirstMentions ==
  ASSUME NEW N \in Nat, NEW n, DOMAIN n = 1..N, NEW M, NEW first, first = First(n, M)
  PROVE  /\ \A j, k \in first : n[j] = n[k] => j = k
         /\ {n[j] : j \in first} = {n[j] : j \in DOMAIN n} \ M
<1>1. ASSUME NEW j \in first, NEW k \in first, n[j] = n[k], j < k
      PROVE  FALSE
  <2>1. j \in 1..(k - 1)
    BY <1>1 DEF First
  <2> QED
    BY <1>1, <2>1 DEF First
<1>2. ASSUME NEW x \in {n[j] : j \in DOMAIN n} \ M
      PROVE  x \in {n[j] : j \in first}
  <2> DEFINE S == {j \in 1..N : n[j] = x}
             k == Least(S)
  <2>1. S # {} /\ S \in SUBSET Nat
    BY <1>2
  <2>2. k \in S /\ \A j \in S : k <= j
    BY <2>1, LeastExists
  <2> HIDE DEF k
  <2>3. \A l \in 1..(k - 1) : n[l] # x
    BY <2>2
  <2>4. k \in first
    BY <1>2, <2>2, <2>3 DEF First
  <2> QED
    BY <2>2, <2>4
<1>3. \A j, k \in first : n[j] = n[k] => j = k
  BY <1>1 DEF First
<1> QED
  BY <1>2, <1>3 DEF First

FirstTime == {"applied", "unmatched"}

LEMMA MarkingFirst ==
  ASSUME NEW x, NEW M, NEW known
  PROVE  Marking(x, M, known) \in FirstTime <=> x \notin M
BY DEF Marking, FirstTime

\* What an elimination is credited with: each new tombstone, once.
LEMMA EliminationCredits ==
  ASSUME NEW s, Keyed(s), NEW r \in Message, r.rpc \in TombstoneRpcs,
         StatusOf(s, r) = "Ok", NEW M,
         M = IF r.rpc = "MergeNodeTombstones" THEN NodeMarks(s, r.incident_id)
             ELSE EdgeMarks(s, r.incident_id)
  PROVE  LET c == Credited(r, ReportOf(s, r))
         IN  /\ DOMAIN c = {Item(r.rpc, r.incident_id, id) : id \in Names(r) \ M}
             /\ \A x \in DOMAIN c : c[x] = 1
<1> DEFINE n == Named(r)
           rep == ReportOf(s, r)
           i == r.incident_id
           first == {j \in DOMAIN rep : rep[j].outcome \in {"applied", "unmatched"}}
           item(j) == <<r.rpc, i, rep[j].id>>
           c == Credited(r, rep)
<1>1. Registered(s, r) /\ Complete(r)
  BY DEF StatusOf
<1>2. i \in DOMAIN s.incidents
  BY <1>1 DEF Registered, IncidentRpcs
<1>3. PICK N \in Nat : DOMAIN n = 1..N
  <2>1. CASE r.rpc = "MergeNodeTombstones"
    <3>1. r.node_ids \in Seq(Text) /\ n = r.node_ids
      BY <2>1, MessageForms DEF Named
    <3> HIDE DEF n
    <3> QED
      BY <3>1
  <2>2. CASE r.rpc = "MergeEdgeTombstones"
    <3>1. r.entries \in Seq(EdgeTombstoneEntry) /\ EntryItems(r) = DOMAIN r.entries
      BY <1>1, <2>2, MessageForms DEF Complete
    <3>2. DOMAIN n = EntryItems(r)
      BY <2>2 DEF Named
    <3> HIDE DEF n
    <3> QED
      BY <3>1, <3>2
  <2> QED
    BY <2>1, <2>2 DEF TombstoneRpcs
<1>4. rep = [j \in DOMAIN n |-> TombstoneEntry(s, r, j)]
  BY DEF ReportOf, TombstoneRpcs
<1>5. ASSUME NEW j \in DOMAIN n
      PROVE  /\ rep[j].id = n[j]
             /\ rep[j].outcome \in FirstTime <=> n[j] \notin M \cup {n[l] : l \in 1..(j - 1)}
  <2>1. rep[j] = TombstoneEntry(s, r, j)
    BY <1>4
  <2>2. /\ NodeMarks(s, i) = s.incidents[i].node_tombstones
        /\ EdgeMarks(s, i) = s.incidents[i].edge_tombstones
    BY <1>2 DEF NodeMarks, EdgeMarks
  <2> DEFINE old == M \cup {n[l] : l \in 1..(j - 1)}
             known == IF r.rpc = "MergeNodeTombstones" THEN DOMAIN s.nodes
                      ELSE DOMAIN s.edges
  <2>3. TombstoneEntry(s, r, j) = [id |-> n[j], outcome |-> Marking(n[j], old, known)]
    BY <2>2 DEF TombstoneEntry
  <2> HIDE DEF n, rep, old
  <2>4. rep[j].id = n[j] /\ rep[j].outcome = Marking(n[j], old, known)
    BY <2>1, <2>3
  <2> QED
    BY <2>4, MarkingFirst DEF old
<1>6. first = First(n, M)
  <2> HIDE DEF n
  <2>1. DOMAIN rep = DOMAIN n
    BY <1>4
  <2> HIDE DEF rep
  <2> QED
    BY <1>5, <2>1 DEF FirstTime, First
<1>7. /\ \A j, k \in first : n[j] = n[k] => j = k
      /\ {n[j] : j \in first} = Names(r) \ M
  <2> HIDE DEF first, n
  <2>1. /\ \A j, k \in first : n[j] = n[k] => j = k
        /\ {n[j] : j \in first} = {n[j] : j \in DOMAIN n} \ M
    BY <1>3, <1>6, FirstMentions
  <2> QED
    BY <2>1 DEF Names, n
<1>8. \A j \in first : item(j) = Item(r.rpc, i, n[j])
  BY <1>4, <1>5 DEF Item
<1>9. c = [x \in {item(j) : j \in first} |-> Cardinality({j \in first : item(j) = x})]
  BY DEF Credited
<1> HIDE DEF first, item, n, rep, c, i
<1>10. DOMAIN c = {Item(r.rpc, i, id) : id \in Names(r) \ M}
  BY <1>7, <1>8, <1>9
<1>11. ASSUME NEW x \in DOMAIN c
       PROVE  c[x] = 1
  <2>1. PICK k \in first : x = item(k)
    BY <1>9
  <2>2. \A j \in first : item(j) = x => j = k
    BY <1>7, <1>8, <2>1 DEF Item
  <2>3. {j \in first : item(j) = x} = {k}
    BY <2>1, <2>2
  <2> QED
    BY <1>9, <2>3, FS_Singleton
<1> QED
  BY <1>10, <1>11 DEF c, rep, i

\* Nothing else is credited.
LEMMA OtherCredits ==
  ASSUME NEW s, NEW r \in Message, ~ (r.rpc \in TombstoneRpcs /\ StatusOf(s, r) = "Ok")
  PROVE  DOMAIN Credited(r, ReportOf(s, r)) = {}
<1> DEFINE rep == ReportOf(s, r)
<1> SUFFICES ASSUME NEW j \in DOMAIN rep
             PROVE  rep[j].outcome \notin {"applied", "unmatched"}
  BY DEF Credited
<1>1. CASE StatusOf(s, r) # "Ok"
  BY <1>1 DEF ReportOf
<1>2. CASE StatusOf(s, r) = "Ok" /\ r.rpc = "MergeHypothesis"
  <2> DEFINE S == {NodeEntry(s, r, i) : i \in DOMAIN r.nodes}
             T == {EdgeEntry(s, r, i) : i \in DOMAIN r.edges}
             x == [i \in DOMAIN r.nodes |-> NodeEntry(s, r, i)]
             y == [i \in DOMAIN r.edges |-> EdgeEntry(s, r, i)]
  <2>1. r.nodes \in Seq(ProtoNode) /\ r.edges \in Seq(ProtoEdge)
    BY <1>2, MessageForms
  <2>2. PICK a \in Nat, b \in Nat : DOMAIN r.nodes = 1..a /\ DOMAIN r.edges = 1..b
    BY <2>1
  <2>3. x \in Seq(S) /\ y \in Seq(T)
    BY <2>2
  <2>4. rep = x \o y
    BY <1>2 DEF ReportOf, TombstoneRpcs
  <2>5. \A e \in S \cup T : e.outcome \notin {"applied", "unmatched"}
    <3>1. \A i : NodeEntry(s, r, i).outcome \notin {"applied", "unmatched"}
      BY DEF NodeEntry
    <3>2. \A i : EdgeEntry(s, r, i).outcome \notin {"applied", "unmatched"}
      BY DEF EdgeEntry
    <3> QED
      BY <3>1, <3>2
  <2> HIDE DEF S, T, x, y, rep
  <2>6. rep \in Seq(S \cup T)
    BY <2>3, <2>4
  <2> QED
    BY <2>5, <2>6, ElementType
<1>3. CASE r.rpc = "CreateIncident"
  BY <1>3 DEF ReportOf, TombstoneRpcs
<1>4. CASE r.rpc \notin WriteRpcs
  BY <1>4 DEF ReportOf, WriteRpcs, TombstoneRpcs
<1> QED
  BY <1>1, <1>2, <1>3, <1>4 DEF WriteRpcs

\* A bag of single copies that is given single copies of other things.
LEMMA SinglesAdd ==
  ASSUME NEW B, NEW C, DOMAIN B \cap DOMAIN C = {},
         \A x \in DOMAIN B : B[x] = 1, \A x \in DOMAIN C : C[x] = 1
  PROVE  /\ DOMAIN (B (+) C) = DOMAIN B \cup DOMAIN C
         /\ \A x \in DOMAIN (B (+) C) : (B (+) C)[x] = 1
BY DEF (+)

LEMMA CreditsUnchanged ==
  ASSUME CreditsInv, credits' = credits, state' = state
  PROVE  CreditsInv'
BY DEF CreditsInv

LEMMA CreditsWork ==
  ASSUME Shape, CreditsInv, NEW t \in Task, Work(t)
  PROVE  CreditsInv'
<1> DEFINE r == call[t].req
           i == r.incident_id
           c == Credited(r, ReportOf(state, r))
           M == IF r.rpc = "MergeNodeTombstones" THEN NodeMarks(state, i)
                ELSE EdgeMarks(state, i)
           ok == r.rpc \in TombstoneRpcs /\ StatusOf(state, r) = "Ok"
<1>1. /\ r \in Message /\ Keyed(state) /\ Serve(t)
      /\ call'[t].report = ReportOf(state, r)
  BY ServeEffect DEF Work, Shape
<1>2. PICK now \in Time : state' = After(state, r, now)
  BY <1>1, ServeEffect
<1>3. /\ \A j : NodeMarks(state', j)
                 = NodeMarks(state, j) \cup NewMarks(state, r, "MergeNodeTombstones", j)
      /\ \A j : EdgeMarks(state', j)
                 = EdgeMarks(state, j) \cup NewMarks(state, r, "MergeEdgeTombstones", j)
  BY <1>1, <1>2, AfterIncidents
<1>4. credits' = credits (+) c
  BY <1>1 DEF Work
<1>5. /\ ok => DOMAIN c = {Item(r.rpc, i, id) : id \in Names(r) \ M}
      /\ ok => \A x \in DOMAIN c : c[x] = 1
      /\ ~ ok => DOMAIN c = {}
  <2>1. ASSUME ok
        PROVE  /\ DOMAIN c = {Item(r.rpc, i, id) : id \in Names(r) \ M}
               /\ \A x \in DOMAIN c : c[x] = 1
    BY <1>1, <2>1, EliminationCredits
  <2>2. ASSUME ~ ok
        PROVE  DOMAIN c = {}
    BY <1>1, <2>2, OtherCredits
  <2> QED
    BY <2>1, <2>2
<1> HIDE DEF c
<1>6. ASSUME NEW x \in DOMAIN credits, x \in DOMAIN c
      PROVE  FALSE
  <2>1. PICK id \in Names(r) \ M : x = Item(r.rpc, i, id)
    BY <1>5, <1>6
  <2>2. PICK j, y :
          \/ x = Item("MergeNodeTombstones", j, y) /\ y \in NodeMarks(state, j)
          \/ x = Item("MergeEdgeTombstones", j, y) /\ y \in EdgeMarks(state, j)
    BY DEF CreditsInv
  <2> HIDE DEF r, i
  <2>3. j = i /\ y = id
    BY <2>1, <2>2 DEF Item
  <2>4. \/ r.rpc = "MergeNodeTombstones" /\ id \in NodeMarks(state, i)
        \/ r.rpc = "MergeEdgeTombstones" /\ id \in EdgeMarks(state, i)
    BY <2>1, <2>2, <2>3 DEF Item
  <2> QED
    BY <2>1, <2>4
<1>7. /\ DOMAIN credits' = DOMAIN credits \cup DOMAIN c
      /\ \A x \in DOMAIN credits' : credits'[x] = 1
  <2>1. DOMAIN credits \cap DOMAIN c = {}
    BY <1>6
  <2>2. \A x \in DOMAIN c : c[x] = 1
    BY <1>5
  <2>3. \A x \in DOMAIN credits : credits[x] = 1
    BY DEF CreditsInv
  <2> QED
    BY <1>4, <2>1, <2>2, <2>3, SinglesAdd
<1>8. ASSUME ok
      PROVE  /\ Registered(state, r)
             /\ r.rpc = "MergeNodeTombstones" \/ r.rpc = "MergeEdgeTombstones"
  BY <1>8 DEF StatusOf, TombstoneRpcs
<1>9. ASSUME NEW x \in DOMAIN credits'
      PROVE  \E j, id :
               \/ x = Item("MergeNodeTombstones", j, id) /\ id \in NodeMarks(state', j)
               \/ x = Item("MergeEdgeTombstones", j, id) /\ id \in EdgeMarks(state', j)
  <2>1. CASE x \in DOMAIN credits
    BY <1>3, <2>1 DEF CreditsInv
  <2>2. CASE x \in DOMAIN c
    <3>1. ok
      BY <1>5, <2>2
    <3>2. PICK id \in Names(r) : x = Item(r.rpc, i, id)
      BY <1>5, <2>2, <3>1
    <3>3. /\ r.rpc = "MergeNodeTombstones" => id \in NodeMarks(state', i)
          /\ r.rpc = "MergeEdgeTombstones" => id \in EdgeMarks(state', i)
      BY <1>3, <1>8, <3>1 DEF NewMarks
    <3> QED
      BY <1>8, <3>1, <3>2, <3>3
  <2> QED
    BY <1>7, <2>1, <2>2
<1>10. ASSUME NEW j, NEW id \in NodeMarks(state', j)
       PROVE  Item("MergeNodeTombstones", j, id) \in DOMAIN credits'
  <2>1. CASE id \in NodeMarks(state, j)
    BY <1>7, <2>1 DEF CreditsInv
  <2>2. CASE id \notin NodeMarks(state, j)
    <3>1. /\ Registered(state, r) /\ r.rpc = "MergeNodeTombstones" /\ j = i
          /\ id \in Names(r)
      BY <1>3, <2>2 DEF NewMarks
    <3>2. ok
      BY <3>1 DEF StatusOf, Complete, TombstoneRpcs
    <3> QED
      BY <1>5, <1>7, <2>2, <3>1, <3>2
  <2> QED
    BY <2>1, <2>2
<1> QED
  BY <1>7, <1>9, <1>10 DEF CreditsInv

LEMMA CreditsStart == ClientInit => CreditsInv
BY DEF ClientInit, Init, CreditsInv, NodeMarks, EdgeMarks, NewState, EmptyMap, EmptyBag,
   SetToBag

LEMMA CreditsKept ==
  ASSUME RecoveryInv, CreditsInv, [ClientNext]_clientVars
  PROVE  CreditsInv'
<1>1. CASE \E t \in Task : Work(t)
  BY <1>1, CreditsWork DEF RecoveryInv
<1>2. CASE ~ \E t \in Task : Work(t)
  <2>1. ASSUME NEW t \in Task, Send(t) \/ Agent(t)
        PROVE  credits' = credits /\ state' = state
    BY <2>1 DEF Send, Agent, Start, Finish
  <2>2. Hear \/ GiveUp \/ Crash \/ UNCHANGED clientVars
          => credits' = credits /\ state' = state
    BY DEF Hear, GiveUp, Crash, Finish, vars, clientVars
  <2>3. credits' = credits /\ state' = state
    BY <1>2, <2>1, <2>2 DEF ClientNext
  <2> QED
    BY <2>3, CreditsUnchanged
<1> QED
  BY <1>1, <1>2

\* Credits add up: over all calls, repeated and given up ones included, every
\* node tombstone of an incident is named as new exactly once, every edge
\* tombstone at most once, and nothing that is not stored.
THEOREM CreditsBalance == ClientSpec => []CreditsAddUp
<1>1. ClientSpec => []CreditsInv
  BY CreditsStart, CreditsKept, RecoveryInvariant, PTL DEF ClientSpec
<1> QED
  BY <1>1, CreditsInvSuffices, PTL
=============================================================================
