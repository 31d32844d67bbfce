------------------------------ MODULE MCTeeEdgeId ------------------------------
(* A small instance of TeeEdgeId, with names that hold an arrow.           *)
EXTENDS TeeEdgeId

MCType == {"1", "2"}

\* Two services and what agents call the path from one to the other.
ArrowName ==
  {<<"a">>, <<"b">>, <<"a", "-", ">", "b">>, <<"b", "-", ">", "a">>}
=============================================================================
