---------------------------- MODULE MCEvaluation -----------------------------
(***************************************************************************)
(* Two commands and two jobs.                                              *)
(*   Screens: two processes screen a candidate each, for the second time,  *)
(*     and meet in the incumbent's response and in its grade.              *)
(*   Sentinel: the rotation has picked one case twice, the pool has one    *)
(*     slot, both responses are compared with their baseline by two        *)
(*     graders.                                                            *)
(*   Refused: a candidate is screened afresh while another process screens *)
(*     one whose model is refused.                                         *)
(*   Same: a candidate has the incumbent's configuration, so that one      *)
(*     command grades one response twice.                                  *)
(***************************************************************************)
EXTENDS Evaluation

CONSTANTS a, b, j1, j2, incumbent, cand1, cand2, refused, g1, g2, f1, f2

JobsDef == {j1, j2}
CommandsDef == {a, b}
(***************************************************************************)
(* Replies: scores as asked for, with two flags; a criterion named twice,  *)
(* in a shape of its own; and no JSON.                                     *)
(***************************************************************************)

Plain(n) == [is |-> "number", n |-> n]
Wrapped(n) == [is |-> "object", n |-> n]

\* An entry for each criterion.
Entries(scores, Value(_)) ==
  [i \in Criteria |-> [name |-> Distinctive[i], value |-> Value(scores[i])]]

Empty == [json |-> TRUE, containers |-> <<>>, own |-> <<>>, notes |-> <<>>,
          garbled |-> FALSE, raised |-> {}]

Holding(name, form, entries) ==
  [Empty EXCEPT !.containers = name :> [form |-> form, entries |-> entries]]

Asked1 == <<3, 3, 3, 3, 3>>

Flagged == [Holding("scores", "object", Entries(Asked1, Plain)) EXCEPT
  !.notes = "notes_check" :> TRUE, !.raised = {f1, f2}]

Twice == [Holding("evaluation", "object",
                  Append(Entries(Asked1, Plain), [name |-> {"insight"}, value |-> Plain(1)])) EXCEPT
  !.notes = "acceptance_notes" :> TRUE]

RepliesDef == {Flagged, Twice, [Empty EXCEPT !.json = FALSE]}

\* decodeScores: how a grader nests its scores makes no difference, and a score
\* out of range is never read, in any shape.
ShapesAgree ==
  \A n \in 0..5 :
    LET scores == <<n, 1, 3, 1, 3>>
        said == IF n <= 4 THEN {scores} ELSE {Rejected}
    IN /\ \A form \in {"object", "list"} :
            said = DecodeScores([form |-> form, entries |-> Entries(scores, Wrapped)])
       /\ said = DecodeScores([form |-> "object", entries |-> Entries(scores, Plain)])
       /\ \A shape \in {GraderInputShapes[i] : i \in DOMAIN GraderInputShapes} :
            said = ParseAbsoluteGrade(
                     [IF shape[1] = Root THEN [Empty EXCEPT !.own = [i \in Criteria |-> Wrapped(scores[i])]]
                      ELSE Holding(shape[1], "list", Entries(scores, Wrapped))
                      EXCEPT !.notes = shape[2] :> TRUE])

ASSUME ShapesAgree


Cached(p) == [prompt |-> p, fresh |-> FALSE]
Fresh(p) == [prompt |-> p, fresh |-> TRUE]

Each(x, y) == (a :> x) @@ (b :> y)
OfJobs(x, y) == (j1 :> x) @@ (j2 :> y)

Left(p, k) == [prompt |-> p, rep |-> 0, by |-> "earlier", kind |-> k]

Screens ==
  [cmd |-> OfJobs(a, b),
   script |-> OfJobs(<<Cached(cand1), Cached(incumbent)>>, <<Cached(cand2), Cached(incumbent)>>),
   graders |-> Each(<<g1>>, <<g1>>), comparing |-> Each(<<>>, <<>>),
   earlier |-> {{Left(cand1, "ok"), Left(cand2, "ok")}}]

Sentinel ==
  [cmd |-> OfJobs(a, a),
   script |-> OfJobs(<<Fresh(incumbent)>>, <<Fresh(incumbent)>>),
   graders |-> Each(<<>>, <<>>), comparing |-> Each(<<g1, g2>>, <<>>),
   earlier |-> {{}, {Left(incumbent, "ok")}}]

Refused ==
  [cmd |-> OfJobs(a, b),
   script |-> OfJobs(<<Fresh(cand1), Fresh(incumbent)>>, <<Cached(refused), Cached(incumbent)>>),
   graders |-> Each(<<g1>>, <<g1>>), comparing |-> Each(<<>>, <<>>),
   earlier |-> {{Left(incumbent, "timeout")}}]

Same ==
  [cmd |-> OfJobs(a, b),
   script |-> OfJobs(<<Cached(incumbent), Cached(incumbent)>>, <<Cached(refused)>>),
   graders |-> Each(<<g1>>, <<g1>>), comparing |-> Each(<<>>, <<>>),
   earlier |-> {{Left(incumbent, "ok")}}]

PlansDef == {Screens, Sentinel, Refused, Same}
=============================================================================
