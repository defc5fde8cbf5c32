---------------------------- MODULE MCCyclersRun ----------------------------
(* Instances of CyclersRun for TLC. *)
EXTENDS CyclersRun, TLC

CONSTANTS d1, d2, a, b

\* Both drivers have source streams inside sink streams, d2's even inside its
\* own: the shape of an echo.
MCCyclic == d1 :> {d2} @@ d2 :> {d1, d2}
=============================================================================
