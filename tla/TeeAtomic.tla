------------------------------- MODULE TeeAtomic ------------------------------
(***************************************************************************)
(* Tee as its callers may think of it: every call takes effect at one      *)
(* instant between its start and its answer, as a whole, on a store that   *)
(* no other call is changing.                                              *)
(***************************************************************************)
EXTENDS TeeBatch

CONSTANTS Task, Requests

ASSUME RequestsAssumption == Requests \subseteq Message

VARIABLES
  state,  \* the store
  call    \* for each task the status of its call, the request and the answer

vars == <<state, call>>

Called(pc, r) == [pc |-> pc, req |-> r, report |-> <<>>, view |-> NoView]

NoCall == Called("idle", None)

Init == state = NewState /\ call = [t \in Task |-> NoCall]

Start(t, r) ==
  /\ call[t].pc = "idle"
  /\ call' = [call EXCEPT ![t] =
                Called(IF Valid(r) THEN "pending" ELSE "InvalidArgument", r)]
  /\ UNCHANGED state

\* The one step that changes the store.
Serve(t) ==
  /\ call[t].pc = "pending"
  /\ \E now \in Time : state' = After(state, call[t].req, now)
  /\ LET r == call[t].req
     IN  call' = [call EXCEPT ![t] =
                    [ pc |-> StatusOf(state, r), req |-> r,
                      report |-> ReportOf(state, r), view |-> ViewOf(state, r) ]]

\* A call that is withdrawn has had no effect; an answered one is forgotten.
Finish(t) ==
  /\ call[t].pc # "idle"
  /\ call' = [call EXCEPT ![t] = NoCall]
  /\ UNCHANGED state

Next ==
  \E t \in Task : (\E r \in Requests : Start(t, r)) \/ Serve(t) \/ Finish(t)

Spec == Init /\ [][Next]_vars
=============================================================================
