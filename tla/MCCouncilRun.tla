---------------------------- MODULE MCCouncilRun ----------------------------
(* Finite instances of CouncilRun for TLC. *)
EXTENDS CouncilRunRefinement, TLC

\* No definition distinguishes one of the requests.
RequestSymmetry == Permutations(Requests)
=============================================================================
