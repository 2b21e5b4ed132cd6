--------------------------- MODULE MCPackLifecycle ---------------------------
(* Finite instances of PackLifecycle for TLC. *)
EXTENDS PackLifecycle, TLC

\* No definition distinguishes one command from another.
CommandSymmetry == Permutations(Commands)
=============================================================================
