---------------------------- MODULE MCHarnessRun -----------------------------
(***************************************************************************)
(* Two commands on one database, doing what one of these plans says.       *)
(*   Weekly: every step for one candidate; a grader is calibrated again    *)
(*     meanwhile.                                                          *)
(*   TwoOfAWeek: two candidates, one after the other, without a sentinel.  *)
(*   Skipped: no candidates, then candidates that cannot be read; a        *)
(*     graders file with a bad role.                                       *)
(*   Meeting: a comparison and two downstream commands meet in a row.      *)
(*   Unasked: a weekly run of downstream alone, while the graders file     *)
(*     replaces a grader.                                                  *)
(*   Screens: two candidates, one forced.                                  *)
(*   Tagged: a sentinel with three cases to choose.                        *)
(*   TwoCases: a comparison and downstream of two cases, drift tolerated.  *)
(*   Refused: candidates of the family of a grader.                        *)
(*   Pending: the substitute has not been admitted.                        *)
(***************************************************************************)
EXTENDS HarnessRun

CONSTANTS a, b

CommandsDef == {a, b}
Each(x, y) == (a :> x) @@ (b :> y)

SeatsDef == <<"view", "judge">>
IncumbentFamilyDef == [view |-> "C", judge |-> "B"]

\* Two selection graders, the substitute, a screening grader, and what the
\* edited file makes of the second.
HashesDef == 1..5
FamilyOfDef == <<"A", "B", "C", "D", "D">>
StrictDef == 1..4

Good == [kind |-> "graded", reversals |-> 0]
Grader(key, role, admitted) ==
  [key |-> key, role |-> role, admitted |-> admitted,
   calibration |-> IF admitted THEN Good ELSE [kind |-> "none"]]

Rows(substitute) ==
  <<Grader(1, "selection", TRUE), Grader(2, "selection", TRUE), Grader(3, "substitute", substitute),
    Grader(4, "screening", TRUE)>>

Entry(hash, key, role) == [hash |-> hash, key |-> key, role |-> role]

Family(split, tags, planted, bundles) ==
  [split |-> split, tags |-> tags, seats |-> {"view", "judge"}, planted |-> planted, bundles |-> bundles]

\* One family is safety and control, one only control; a case may have a saved
\* bundle.
Pack(cases) == <<
  Family("selection", {"sentinel", "safety", "control", "hard", "priority"}, TRUE, cases),
  Family("development", {"sentinel", "control"}, FALSE, <<0>>)>>

\* An easy case decides nothing but the net of Downstream.
Easy == <<
  Family("selection", {"sentinel", "safety"}, FALSE, <<1>>),
  Family("development", {"sentinel", "control"}, FALSE, <<0>>)>>

Spec2(key, seat, family) == [key |-> key, seat |-> seat, family |-> family, finalist |-> "auto"]
ViewA == Spec2("k", "view", "A")
ViewD == [Spec2("m", "view", "D") EXCEPT !.finalist = "force"]
JudgeD == Spec2("j", "judge", "D")

Invoke(kind, listed, key, steps) ==
  [kind |-> kind, file |-> <<>>, only |-> EveryKey, candidates |-> listed, readable |-> TRUE,
   key |-> key, steps |-> steps, week |-> 2]

All == {"sentinel", "screen", "compare", "downstream", "report"}

Plan(x, y, substitute, pack) ==
  [script |-> Each(x, y), configs |-> Rows(substitute), pack |-> pack, block |-> TRUE]

Sentinel == Invoke("sentinel", <<>>, "", {})
Compare(s) == Invoke("compare", <<s>>, s.key, {})
Downstream(s) == Invoke("downstream", <<s>>, s.key, {})
Calibrate == [Invoke("calibrate", <<>>, "", {}) EXCEPT
  !.file = <<Entry(1, 1, "selection"), Entry(5, 2, "selection")>>]
Status == [Calibrate EXCEPT !.kind = "status", !.file = <<Entry(1, 1, "nobody")>>]

Recalibrate == [Calibrate EXCEPT !.only = 1]

Weekly == Plan(<<Invoke("weekly", <<ViewD>>, "", All)>>, <<Recalibrate>>, TRUE, Easy)
TwoOfAWeek == Plan(<<Invoke("weekly", <<ViewD, JudgeD>>, "", All \ {"sentinel"})>>, <<>>, TRUE, Easy)
Skipped == Plan(<<Invoke("weekly", <<>>, "", All),
                  [Invoke("weekly", <<>>, "", {"report"}) EXCEPT !.readable = FALSE]>>,
                <<Status>>, TRUE, Easy)
Meeting == Plan(<<Compare(ViewD), Downstream(ViewD)>>, <<Downstream(ViewD)>>, TRUE, Easy)
Unasked == Plan(<<Invoke("weekly", <<ViewD>>, "", {"downstream", "report"})>>, <<Calibrate>>, TRUE, Easy)
Screens == Plan(<<Invoke("screen", <<ViewA, ViewD>>, "", {})>>, <<Status>>, TRUE, Pack(<<1, 0>>))
Tagged == Plan(<<Sentinel>>, <<>>, TRUE, Pack(<<1, 0>>))
TwoCases == [Plan(<<Compare(ViewD), Downstream(ViewD)>>, <<>>, TRUE, Pack(<<1, 0>>)) EXCEPT !.block = FALSE]
Refused == Plan(<<Compare(ViewA)>>, <<Compare(JudgeD)>>, TRUE, Pack(<<1>>))
Pending == Plan(<<Compare(JudgeD)>>, <<Calibrate>>, FALSE, Easy)

PlansDef == {Weekly, TwoOfAWeek, Skipped, Meeting, Unasked, Screens, Tagged, TwoCases, Refused, Pending}
=============================================================================
