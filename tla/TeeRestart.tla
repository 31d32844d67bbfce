------------------------------- MODULE TeeRestart ------------------------------
(***************************************************************************)
(* Restarts of the Tee process: main (src/src/main.rs) creates an empty    *)
(* InMemoryStore and serves it, so a new process knows nothing of the one  *)
(* before it.  Clients reconnect without noticing.                         *)
(***************************************************************************)
EXTENDS TeeRecovery

\* The calls in flight die with the process; CMBS is told that its call failed.
Restart ==
  /\ state' = NewState
  /\ call' = [t \in Task |-> NoCall]
  /\ waiting' = None
  /\ UNCHANGED <<belief, acknowledged, credits>>

RestartSpec == ClientInit /\ [][ClientNext \/ Restart]_clientVars

\* docs/architecture-overview.md:75, "Tee itself holds no state ... If Tee
\* restarts, nothing is lost": an elimination that was acknowledged is there
\* whenever the incident is.
NothingIsLost ==
  Incident \in DOMAIN state.incidents =>
    acknowledged.nodes \subseteq state.incidents[Incident].node_tombstones
=============================================================================
