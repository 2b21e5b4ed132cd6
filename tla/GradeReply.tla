----------------------------- MODULE GradeReply ------------------------------
(***************************************************************************)
(* What parseAbsoluteGrade (internal/grading/absolute.go) makes of a reply *)
(* of a grader.  Models nest the scores in other ways than they are asked  *)
(* to and misspell the names of the criteria: the parser tries the shapes  *)
(* it knows, one after the other.                                          *)
(*                                                                         *)
(* A reply is a record:                                                    *)
(*   json       whether it has a JSON object                               *)
(*   containers per name of a container it has, [form, entries], where an  *)
(*              entry is [name, value]                                     *)
(*   own        the values of the criteria that are keys of the reply      *)
(*              itself, by the name the rubric has for them                *)
(*   notes      per name of the notes' key it has, whether they can be read*)
(*   garbled    whether the passages or the flags cannot be read           *)
(*   raised     the flags it raises                                        *)
(* A name is the set of the distinctive words in it; a value is            *)
(* [is, n], a number, an object with a score n, or something else.         *)
(*                                                                         *)
(* Go visits the keys of an object in any order, so parsing has a set of   *)
(* outcomes: the scores, or Rejected.                                      *)
(***************************************************************************)
EXTENDS Integers, Sequences

Rejected == <<>>

\* The rubric's criteria, each by the words that tell it.
Distinctive ==
  <<{"grounding"}, {"context", "fidelity", "values"}, {"insight", "decision"},
    {"robustness", "practical"}, {"role", "execution"}>>

Criteria == DOMAIN Distinctive

NoCriterion == 0

\* normalizeCriterionKey: the first criterion that has one of the words.
CriterionOf(name) ==
  LET fits == {i \in Criteria : Distinctive[i] \cap name # {}}
  IN IF fits = {} THEN NoCriterion ELSE CHOOSE i \in fits : \A k \in fits : i <= k

ValidScores(s) == \A i \in Criteria : s[i] \in 0..4

(***************************************************************************)
(* Scores.  A set of at most one number is what a value comes to.          *)
(***************************************************************************)

\* Read as an int: null is 0.
FlatScore(value) ==
  CASE value.is = "number" -> {value.n} [] value.is = "null" -> {0} [] OTHER -> {}

\* Read as an object with a pointer: null and an object without a score are none.
WrappedScore(value) == IF value.is = "object" THEN {value.n} ELSE {}

RootScore(value) == IF FlatScore(value) # {} THEN FlatScore(value) ELSE WrappedScore(value)

Score(value, as) == IF as = "flat" THEN FlatScore(value) ELSE WrappedScore(value)

AllRead(entries, as) ==
  \A k \in DOMAIN entries : CriterionOf(entries[k].name) # NoCriterion /\ Score(entries[k].value, as) # {}

\* A score for every criterion, out of those it has; none if one has none.
OneOfEach(of) ==
  {s \in [Criteria -> UNION {of[i] : i \in Criteria}] : \A i \in Criteria : s[i] \in of[i]}

\* Every criterion by one of its entries, whichever is visited last.
Merges(entries, as) ==
  OneOfEach([i \in Criteria |->
            UNION {Score(entries[k].value, as) :
                     k \in {k \in DOMAIN entries : CriterionOf(entries[k].name) = i}}])

Outcomes(merges) ==
  {IF ValidScores(s) THEN s ELSE Rejected : s \in merges} \cup (IF merges = {} THEN {Rejected} ELSE {})

\* In a list the last entry of a criterion counts.
LastOfEach(entries) ==
  LET last(k) == \A l \in k+1..Len(entries) :
                   CriterionOf(entries[l].name) # CriterionOf(entries[k].name)
  IN [k \in {k \in DOMAIN entries : last(k)} |-> entries[k]]

DecodeScores(container) ==
  LET entries == container.entries
      object == container.form = "object"
  IN CASE object /\ AllRead(entries, "flat") -> Outcomes(Merges(entries, "flat"))
       [] object /\ ~AllRead(entries, "flat") /\ AllRead(entries, "wrapped") ->
            Outcomes(Merges(entries, "wrapped"))
       [] container.form = "list" /\ AllRead(entries, "wrapped") ->
            Outcomes(Merges(LastOfEach(entries), "wrapped"))
       [] OTHER -> {Rejected}

\* At the root only the rubric's own names count.
DecodeScoresAtRoot(reply) ==
  Outcomes(OneOfEach([i \in Criteria |->
    IF i \in DOMAIN reply.own THEN RootScore(reply.own[i]) ELSE {}]))

(***************************************************************************)
(* The rest of a grade.                                                    *)
(***************************************************************************)

\* An object, a string or strings; missing ones are no notes.
DecodeNotes(reply, key) == key \in DOMAIN reply.notes => reply.notes[key]

\* At the root of the reply.
Root == "root"

\* graderInputShapes: where the scores are and what the notes are called.
GraderInputShapes == <<
  <<"scores", "notes_check">>, <<"scores", "acceptance_notes">>,
  <<"criteria", "notes_check">>, <<"criteria", "acceptance_notes">>,
  <<"assessment", "acceptance_notes">>, <<"scores", "notes">>,
  <<"rubric_scores", "acceptance_notes">>, <<"rubric_scores", "notes_check">>,
  <<"rubric_evaluation", "acceptance_notes">>, <<"evaluation", "acceptance_notes">>,
  <<"why_scores", "acceptance_notes">>, <<Root, "acceptance_notes">>, <<Root, "notes_check">> >>

\* decodeAbsoluteGrade.
DecodeAs(reply, shape) ==
  IF /\ ~reply.garbled /\ DecodeNotes(reply, shape[2])
     /\ shape[1] \in {Root} \cup DOMAIN reply.containers
  THEN IF shape[1] = Root THEN DecodeScoresAtRoot(reply) ELSE DecodeScores(reply.containers[shape[1]])
  ELSE {Rejected}

\* The shapes of the notes that are there, or all if there are none.
ShapesFor(reply) ==
  LET present == SelectSeq(GraderInputShapes, LAMBDA shape : shape[2] \in DOMAIN reply.notes)
  IN IF present = <<>> THEN GraderInputShapes ELSE present

\* The first shape that fits; one that may be rejected lets a later one decide.
ParseAbsoluteGrade(reply) ==
  IF ~reply.json THEN {Rejected}
  ELSE LET shapes == ShapesFor(reply)
           mayReject(i) == Rejected \in DecodeAs(reply, shapes[i])
           reached(i) == \A k \in 1..(i - 1) : mayReject(k)
       IN (UNION {DecodeAs(reply, shapes[i]) \ {Rejected} : i \in {i \in DOMAIN shapes : reached(i)}})
          \cup (IF \A i \in DOMAIN shapes : mayReject(i) THEN {Rejected} ELSE {})
=============================================================================
