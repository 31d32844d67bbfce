------------------------------ MODULE TeeHistory ------------------------------
(***************************************************************************)
(* TeeService with a history variable: the store as of the last moment no  *)
(* write was under way.  With it every behaviour of the service maps to a  *)
(* behaviour of TeeAtomic: a call takes effect when it releases the lock.  *)
(***************************************************************************)
EXTENDS TeeService

VARIABLE committed

historyVars == <<vars, committed>>

\* Some call that writes holds the lock.
WriteUnderWay == \E t \in Holders : Writing(t)

HistoryInit == Init /\ committed = state

HistoryNext ==
  Next /\ committed' = IF WriteUnderWay' THEN committed ELSE state'

HistorySpec == HistoryInit /\ [][HistoryNext]_historyVars

\* What a caller can tell of a task.
Observed(t) ==
  [ pc |-> IF task[t].pc \in {"queued", "running"} THEN "pending" ELSE task[t].pc,
    req |-> task[t].req,
    report |-> IF task[t].pc \in Status THEN task[t].report ELSE <<>>,
    view |-> IF task[t].pc \in Status THEN task[t].view ELSE NoView ]

Atomic ==
  INSTANCE TeeAtomic WITH state <- committed, call <- [t \in Task |-> Observed(t)]

-----------------------------------------------------------------------------
\* The loops of the handlers, run one iteration at a time beside other calls,
\* change the store and answer exactly as the whole request would in one
\* instant, also when a request repeats an id, contradicts itself or the
\* store, or fails half way.
Linearizable == Atomic!Spec

\* README:108, "Every Tee write executes inside a Neo4j transaction": a write
\* that is answered with an error has left the store as it was before it.
FailedWritesAreUndone ==
  [][\A t \in Task :
       (task[t].pc = "running" /\ task'[t].pc = "Internal")
         => committed' = committed]_historyVars
=============================================================================
