------------------------------ MODULE TeeRecovery ------------------------------
(***************************************************************************)
(* CMBS as a client of Tee, beside agents that write at any time.  CMBS    *)
(* keeps nothing: after a crash it recovers what it believes about an      *)
(* incident from two calls, GetIncidentContext and GetLiveView, and reads  *)
(* the live view again after each elimination.  It may stop waiting for an *)
(* answer; Tee may then still serve the call, now or after the recovery.   *)
(*                                                                         *)
(* Tee is TeeAtomic, which the service implements (TeeHistory).  CMBS is   *)
(* outside the repository and modelled from the messages it is offered.    *)
(***************************************************************************)
EXTENDS TeeAtomic, Bags, FiniteSets

CONSTANT Incident   \* the incident that CMBS supervises

ASSUME IncidentAssumption == Incident \in Str

VARIABLES
  waiting,       \* the task whose answer CMBS waits for, or None
  belief,        \* what CMBS has learnt since it started
  acknowledged,  \* history: the eliminations that CMBS was ever told are stored
  credits        \* history: how often Tee has credited a call with each elimination

clientVars == <<vars, waiting, belief, acknowledged, credits>>

Nothing == [nodes |-> {}, edges |-> {}]

Unknown == [phase |-> "down", eliminated |-> Nothing, live |-> Nothing]

Both(x, y) == [nodes |-> x.nodes \cup y.nodes, edges |-> x.edges \cup y.edges]

Entries(edges) ==
  {[source |-> e.source, target |-> e.target, type |-> e.type] : e \in edges}

\* What an answered elimination is known to have stored.
Eliminated(r) ==
  IF r.rpc = "MergeNodeTombstones"
  THEN [Nothing EXCEPT !.nodes = {r.node_ids[i] : i \in DOMAIN r.node_ids}]
  ELSE [Nothing EXCEPT !.edges = {r.entries[i] : i \in DOMAIN r.entries}]

Learn(b, c) ==
  CASE c.pc # "Ok" -> b
    [] c.pc = "Ok" /\ c.req.rpc = "GetIncidentContext" ->
         [ b EXCEPT !.phase = "context",
                    !.eliminated = [nodes |-> c.view.nodes, edges |-> c.view.edges] ]
    [] c.pc = "Ok" /\ c.req.rpc = "GetLiveView" ->
         [ b EXCEPT !.phase = "up",
                    !.live = [ nodes |-> {n.id : n \in c.view.nodes},
                               edges |-> Entries(c.view.edges) ] ]
    [] c.pc = "Ok" /\ c.req.rpc \in TombstoneRpcs ->
         [ b EXCEPT !.phase = "context",
                    !.eliminated = Both(@, Eliminated(c.req)), !.live = Nothing ]

Eliminations ==
  {r \in Requests : r.rpc \in TombstoneRpcs /\ r.incident_id = Incident}

OfIncident(rpc) == [rpc |-> rpc, incident_id |-> Incident]

\* What CMBS asks next.
Wanted ==
  CASE belief.phase = "down"    -> {OfIncident("GetIncidentContext")}
    [] belief.phase = "context" -> {OfIncident("GetLiveView")}
    [] belief.phase = "up"      -> Eliminations

ClientInit ==
  /\ Init
  /\ waiting = None /\ belief = Unknown
  /\ acknowledged = Nothing /\ credits = EmptyBag

Send(t) ==
  /\ waiting = None
  /\ \E r \in Wanted : Start(t, r)
  /\ waiting' = t
  /\ UNCHANGED <<belief, acknowledged, credits>>

Hear ==
  /\ waiting # None
  /\ call[waiting].pc # "pending"
  /\ Finish(waiting)
  /\ waiting' = None
  /\ belief' = Learn(belief, call[waiting])
  /\ acknowledged' =
       IF call[waiting].pc = "Ok" /\ call[waiting].req.rpc \in TombstoneRpcs
       THEN Both(acknowledged, Eliminated(call[waiting].req)) ELSE acknowledged
  /\ UNCHANGED credits

\* A deadline passes; the call goes its way without CMBS.
GiveUp ==
  /\ waiting # None
  /\ waiting' = None
  /\ UNCHANGED <<vars, belief, acknowledged, credits>>

Crash ==
  /\ belief # Unknown
  /\ waiting' = None /\ belief' = Unknown
  /\ UNCHANGED <<vars, acknowledged, credits>>

\* Agents call, are answered, or go away.
Agent(t) ==
  /\ t # waiting
  /\ (\E r \in Requests : Start(t, r)) \/ Finish(t)
  /\ UNCHANGED <<waiting, belief, acknowledged, credits>>

Credited(r, report) ==
  LET first == {j \in DOMAIN report : report[j].outcome \in {"applied", "unmatched"}}
      item(j) == <<r.rpc, r.incident_id, report[j].id>>
  IN  [ x \in {item(j) : j \in first} |->
          Cardinality({j \in first : item(j) = x}) ]

Work(t) ==
  /\ Serve(t)
  /\ credits' = credits (+) Credited(call[t].req, call'[t].report)
  /\ UNCHANGED <<waiting, belief, acknowledged>>

ClientNext ==
  \/ \E t \in Task : Send(t) \/ Agent(t) \/ Work(t)
  \/ Hear \/ GiveUp \/ Crash

ClientSpec == ClientInit /\ [][ClientNext]_clientVars

-----------------------------------------------------------------------------
(* Properties.                                                             *)

\* Recovery forgets no elimination (docs/architecture-overview.md, "No
\* elimination data is lost"): once CMBS has read the incident's context it
\* knows every elimination that any earlier life of it was told is stored.
RecoveryIsComplete ==
  belief.phase # "down" =>
    /\ acknowledged.nodes \subseteq belief.eliminated.nodes
    /\ acknowledged.edges \subseteq belief.eliminated.edges

\* No belief is resurrected: the context and the live view are read by two
\* calls with other calls between them, and still the live view shows nothing
\* that CMBS knows to be eliminated, no edge whose end is.
NothingResurrected ==
  belief.phase = "up" =>
    /\ belief.live.nodes \cap belief.eliminated.nodes = {}
    /\ belief.live.edges \cap belief.eliminated.edges = {}
    /\ \A e \in belief.live.edges :
         {e.source, e.target} \cap belief.eliminated.nodes = {}

\* applied_ids and unmatched_ids add up (README "Why typed merge results
\* matter"): over all calls, those repeated or given up included, Tee names
\* every node tombstone of an incident exactly once as new, and an edge
\* tombstone at most once (none when the call ended with an error).
CreditsAddUp ==
  /\ \A x \in DOMAIN credits : credits[x] = 1
  /\ \A i \in DOMAIN state.incidents :
       LET credited(rpc) == {x[3] : x \in {y \in DOMAIN credits : y[1] = rpc /\ y[2] = i}}
       IN  /\ credited("MergeNodeTombstones") = state.incidents[i].node_tombstones
           /\ credited("MergeEdgeTombstones") \subseteq state.incidents[i].edge_tombstones
=============================================================================
