--------------------------- MODULE SharedDatabase ----------------------------
(***************************************************************************)
(* The commands that run on one database, and what can go wrong with each: *)
(* a statement returns an error, a process is killed.  There is no lock    *)
(* between processes and the statements used here are each on their own,   *)
(* outside a transaction (internal/store).                                 *)
(***************************************************************************)
EXTENDS Naturals, Sequences, FiniteSets

CONSTANTS
  Commands,
  MaxFaults \* bound on failed statements and killed processes together

ASSUME FaultsConstant == MaxFaults \in Nat

VARIABLES
  faults, \* statements that failed
  killed  \* commands whose process was killed

Runs(c) == c \notin killed

AnotherFault == faults + Cardinality(killed) < MaxFaults

\* A statement succeeds, or fails where the bound leaves a fault.
Attempt(ok) == /\ ok \/ AnotherFault
               /\ faults' = IF ok THEN faults ELSE faults + 1
=============================================================================
