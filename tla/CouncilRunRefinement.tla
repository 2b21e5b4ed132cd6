------------------------ MODULE CouncilRunRefinement ------------------------
(***************************************************************************)
(* CouncilRun implements RequestLifecycle.  The client's picture of a      *)
(* request is read off the events published for it: a view_complete is a   *)
(* seat heard, a view_failed or view_late a seat missed, the judge event   *)
(* the verdict and done the end.  Reading events rather than rows makes    *)
(* the mapping hold through failing statements and crashes.                *)
(***************************************************************************)
EXTENDS CouncilRun

Heard(r)  == {s \in Seats : Announced(r, "view_complete", s)}
Missed(r) == {s \in Seats : \/ Announced(r, "view_failed", s)
                            \/ Announced(r, "view_late", s)}

Answered(r)   == Announced(r, "judge_complete", Judge)
Unanswered(r) == Announced(r, "judge_failed", Judge)

PhaseOf(r) == IF Announced(r, "done", None) THEN "over"
              ELSE IF Answered(r) \/ Unanswered(r) THEN "decided"
              ELSE IF RowExists(r) THEN "open" ELSE "none"

VerdictOf(r) == IF Unanswered(r) THEN "unanswered"
                ELSE IF ~Answered(r) THEN "none"
                ELSE IF Heard(r) = Seats THEN "full" ELSE "partial"

Lifecycle == INSTANCE RequestLifecycle WITH
  phase   <- [r \in Requests |-> PhaseOf(r)],
  heard   <- [r \in Requests |-> Heard(r)],
  missed  <- [r \in Requests |-> Missed(r)],
  verdict <- [r \in Requests |-> VerdictOf(r)]

\* Every behaviour of the runner is one the client was promised, with failing
\* statements and crashes included (safety part).
ImplementsLifecycle == Lifecycle!Spec
=============================================================================
