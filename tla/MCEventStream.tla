---------------------------- MODULE MCEventStream ----------------------------
(* Finite instances of EventStream for TLC. *)
EXTENDS EventStream, TLC

CONSTANTS coordinator, judge, superseder

\* The coordinator announces a view while the judge goroutine announces its
\* start; then comes done.  A later request sends one supersede notice.
CountDef == [w \in Writers |-> IF w = judge THEN 2 ELSE 1]

\* The same with the judge's verdict between its start and done.
VerdictCountDef == [w \in Writers |-> IF w = judge THEN 3 ELSE 1]

\* The statement of the view's event may fail.
FragileDef == {Ev(coordinator, 1)}

StreamSymmetry == Permutations(Streams)
=============================================================================
