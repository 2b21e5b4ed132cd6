------------------------------- MODULE Grading -------------------------------
(***************************************************************************)
(* Service.Grade (internal/grading/absolute.go) and Service.Compare        *)
(* (internal/grading/pairwise.go) with the statements they make            *)
(* (internal/store/grades.go, internal/store/pairwise.go).                 *)
(*                                                                         *)
(* A command calls them one at a time: service[c] holds the call that c is *)
(* in.  A step is one statement or one call of the model; commands meet in *)
(* the tables.  The rubric is the same throughout, so that a grade's cache *)
(* key is its response and its grader.                                     *)
(***************************************************************************)
EXTENDS SharedDatabase, GradeReply

CONSTANTS
  Graders,
  Flags,    \* flags a grader can raise against a response
  Replies   \* what a grader may reply, see GradeReply

ASSUME RepliesConstant == \A reply \in Replies : reply.raised \subseteq Flags

VARIABLES
  grades,   \* rows: [resp, grader, scores, flagged, by], unique in (resp, grader)
  flagRows, \* rows: [resp, grader, flag, by], unique in (resp, grader, flag)
  service   \* per command: the call of Grade or Compare it is in

gradingVars == <<grades, flagRows, service>>

Idle == [at |-> "idle"]

NoGrade == [scores |-> Rejected, flagged |-> {}]

GradingAt(c, step) == service[c].at = step

GradingGo(c, step) == service' = [service EXCEPT ![c].at = step]

Letters == {"A", "B"}

OtherLetter(l) == IF l = "A" THEN "B" ELSE "A"

(***************************************************************************)
(* Grade.                                                                  *)
(***************************************************************************)

GradesOf(resp, g) == {r \in grades : r.resp = resp /\ r.grader = g}

FlagsOf(resp, g) == {f.flag : f \in {r \in flagRows : r.resp = resp /\ r.grader = g}}

Call(c) == service[c]

\* stored is a history variable: the call has inserted its grade.
Grade(c, resp, g) ==
  service' = [service EXCEPT ![c] =
    [at |-> "lookup", resp |-> resp, grader |-> g, found |-> NoGrade, toFile |-> {},
     retried |-> FALSE, stored |-> FALSE, row |-> NoGrade, flags |-> {}]]

\* Any error of the lookup, not just a missing row, leads to the model.
LookupGrade(c) ==
  /\ GradingAt(c, "lookup")
  /\ \E ok \in BOOLEAN :
       /\ Attempt(ok)
       /\ \/ ok /\ \E row \in GradesOf(Call(c).resp, Call(c).grader) :
                service' = [service EXCEPT ![c].at = "listing", ![c].row = row]
          \/ /\ ~ok \/ GradesOf(Call(c).resp, Call(c).grader) = {}
             /\ GradingGo(c, "asking")
  /\ UNCHANGED <<grades, flagRows>>

\* The flags of a stored grade are those of the table, whatever its row says.
ListFlags(c) ==
  /\ GradingAt(c, "listing")
  /\ \E ok \in BOOLEAN :
       /\ Attempt(ok)
       /\ IF ok
          THEN service' = [service EXCEPT ![c].at = "graded",
                             ![c].flags = FlagsOf(Call(c).resp, Call(c).grader)]
          ELSE GradingGo(c, "error")
  /\ UNCHANGED <<grades, flagRows>>

\* parseAbsoluteGrade of each reply, worked out once.
Parsed == [reply \in Replies |-> ParseAbsoluteGrade(reply)]

Accept(c, reply) ==
  \E scores \in Parsed[reply] \ {Rejected} :
    service' = [service EXCEPT ![c].at = "inserting", ![c].retried = FALSE,
                               ![c].found = [scores |-> scores, flagged |-> reply.raised]]

\* Mutant: the reply is asked for as often as it takes.
AskGraderAgain(c) ==
  /\ GradingAt(c, "asking")
  /\ \/ \E reply \in Replies :
          \/ Accept(c, reply)
          \/ Rejected \in Parsed[reply] /\ service' = [service EXCEPT ![c].retried = ~@]
     \/ GradingGo(c, "error")
  /\ UNCHANGED <<grades, flagRows, faults>>

\* graderChat: a reply that is rejected is asked for again, once.  Grade parses
\* anew what graderChat has accepted, and the second reply for the first time;
\* what it rejects then ends the call, as any error of the gateway does.
AskGrader(c) ==
  /\ GradingAt(c, "asking")
  /\ \/ \E reply \in Replies :
          \/ Accept(c, reply)
          \/ Rejected \in Parsed[reply] /\ ~Call(c).retried /\ service' = [service EXCEPT ![c].retried = TRUE]
     \/ GradingGo(c, "error")
  /\ UNCHANGED <<grades, flagRows, faults>>

\* Mutant: the lost row is returned in place of the stored one.
InsertGradeOwn(c) ==
  /\ GradingAt(c, "inserting")
  /\ \E ok \in BOOLEAN :
       /\ Attempt(ok)
       /\ LET key == GradesOf(Call(c).resp, Call(c).grader)
              new == [resp |-> Call(c).resp, grader |-> Call(c).grader, by |-> c,
                      scores |-> Call(c).found.scores, flagged |-> Call(c).found.flagged]
          IN \/ /\ ok /\ key = {}
                /\ grades' = grades \cup {new}
                /\ service' = [service EXCEPT ![c].at = "reconciling", ![c].stored = TRUE, ![c].row = new]
             \/ /\ ok
                /\ key # {}
                /\ service' = [service EXCEPT ![c].at = "reconciling", ![c].row = new]
                /\ UNCHANGED grades
             \/ ~ok /\ GradingGo(c, "error") /\ UNCHANGED grades
  /\ UNCHANGED <<flagRows>>

\* The word count and the row; a row with the key is taken in its place.
InsertGrade(c) ==
  /\ GradingAt(c, "inserting")
  /\ \E ok \in BOOLEAN :
       /\ Attempt(ok)
       /\ LET key == GradesOf(Call(c).resp, Call(c).grader)
              new == [resp |-> Call(c).resp, grader |-> Call(c).grader, by |-> c,
                      scores |-> Call(c).found.scores, flagged |-> Call(c).found.flagged]
          IN \/ /\ ok /\ key = {}
                /\ grades' = grades \cup {new}
                /\ service' = [service EXCEPT ![c].at = "reconciling", ![c].stored = TRUE, ![c].row = new]
             \/ /\ ok
                /\ \E row \in key :
                     service' = [service EXCEPT ![c].at = "reconciling", ![c].row = row]
                /\ UNCHANGED grades
             \/ ~ok /\ GradingGo(c, "error") /\ UNCHANGED grades
  /\ UNCHANGED <<flagRows>>

\* Flags that are there already, by a call that lost or won the race, are the
\* result; if there are none, or they cannot be listed, this call files its own.
Reconcile(c) ==
  /\ GradingAt(c, "reconciling")
  /\ \E ok \in BOOLEAN :
       /\ Attempt(ok)
       /\ LET stored == FlagsOf(Call(c).resp, Call(c).grader) IN
          IF ok /\ stored # {}
          THEN service' = [service EXCEPT ![c].at = "graded", ![c].flags = stored]
          ELSE service' = [service EXCEPT ![c].at = IF Call(c).found.flagged = {} THEN "graded" ELSE "filing",
                                          ![c].toFile = Call(c).found.flagged]
  /\ UNCHANGED <<grades, flagRows>>

\* A flag that is there already is left as it is.
WithFlag(c, flag) ==
  flagRows \cup
    (IF flag \in FlagsOf(Call(c).resp, Call(c).grader) THEN {}
     ELSE {[resp |-> Call(c).resp, grader |-> Call(c).grader, flag |-> flag, by |-> c]})

\* Mutant: one flag is enough.
FileOneFlag(c) ==
  /\ GradingAt(c, "filing")
  /\ \E flag \in Call(c).toFile, ok \in BOOLEAN :
       /\ Attempt(ok)
       /\ flagRows' = WithFlag(c, flag) \/ (~ok /\ UNCHANGED flagRows)
       /\ IF ok
          THEN service' = [service EXCEPT
                    ![c].at = "graded",
                    ![c].toFile = @ \ {flag},
                    ![c].flags = @ \cup {flag}]
          ELSE GradingGo(c, "error")
  /\ UNCHANGED <<grades>>

\* InsertFlag inserts and reads back: one that fails may have left the row.
FileFlag(c) ==
  /\ GradingAt(c, "filing")
  /\ \E flag \in Call(c).toFile, ok \in BOOLEAN :
       /\ Attempt(ok)
       /\ flagRows' = WithFlag(c, flag) \/ (~ok /\ UNCHANGED flagRows)
       /\ IF ok
          THEN service' = [service EXCEPT
                    ![c].at = IF Call(c).toFile = {flag} THEN "graded" ELSE "filing",
                    ![c].toFile = @ \ {flag},
                    ![c].flags = @ \cup {flag}]
          ELSE GradingGo(c, "error")
  /\ UNCHANGED <<grades>>

(***************************************************************************)
(* Compare, by two graders one after the other.  A verdict names a letter, *)
(* shown is the letter under which the left response is shown.             *)
(***************************************************************************)

Verdicts == Letters \cup {"tie", "unable"}

Sides == {"left", "right"}

\* rows are those of the current grader in the pairwise table: no call reads
\* the table again, so the others' are left out.
PairRow == [shown : Letters, verdict : Verdicts, side : Sides \cup {"tie", "unable"},
            reversal : BOOLEAN, final : BOOLEAN]

Compare(c, graders) ==
  service' = [service EXCEPT ![c] =
    [at |-> "comparing", graders |-> graders, sides |-> <<>>, rows |-> <<>>, retried |-> FALSE]]

\* Mutant: a tie with a clear margin stands.
NeedsReversalIfClose(verdict, margin) == margin = "close"

NeedsReversal(verdict, margin) == verdict \in {"tie", "unable"} \/ margin = "close"

\* Mutant: the letter A is taken for the left response whatever was shown.
NormaliseLetter(verdict, shown) ==
  CASE verdict = "A" -> "left" [] verdict = "B" -> "right" [] OTHER -> verdict

Normalise(verdict, shown) ==
  CASE verdict = "A" -> IF shown = "A" THEN "left" ELSE "right"
    [] verdict = "B" -> IF shown = "B" THEN "left" ELSE "right"
    [] OTHER -> verdict

\* A pairwise reply that is no verdict: asked for again once, then an error, as
\* any error of the gateway.
PairwiseBad(c) ==
  /\ Call(c).at \in {"comparing", "reversing"}
  /\ \/ ~Call(c).retried /\ service' = [service EXCEPT ![c].retried = TRUE]
     \/ GradingGo(c, "error")
  /\ UNCHANGED <<grades, flagRows, faults>>

StoreRow(c, row) ==
  \E ok \in BOOLEAN :
    /\ Attempt(ok)
    /\ IF ok
       THEN service' = [service EXCEPT
              ![c].at = IF row.final THEN "decided" ELSE "reversing",
              ![c].rows = Append(@, row),
              ![c].retried = FALSE]
       ELSE GradingGo(c, "error")

\* The coin is flipped, the grader asked, its row inserted.
CompareFirst(c) ==
  /\ GradingAt(c, "comparing")
  /\ \E shown \in Letters, verdict \in Verdicts, margin \in {"clear", "close"} :
       StoreRow(c, [shown |-> shown, verdict |-> verdict, side |-> Normalise(verdict, shown),
                    reversal |-> FALSE, final |-> ~NeedsReversal(verdict, margin)])
  /\ UNCHANGED <<grades, flagRows>>

\* The same pair in the other order: a side wins only if both calls name it.
CompareReversed(c) ==
  /\ GradingAt(c, "reversing")
  /\ \E verdict \in Verdicts :
       LET first == Call(c).rows[1]
           shown == OtherLetter(first.shown)
           both == first.side = Normalise(verdict, shown) /\ first.side \in Sides
       IN StoreRow(c, [shown |-> shown, verdict |-> verdict,
                       side |-> IF both THEN first.side ELSE "tie",
                       reversal |-> TRUE, final |-> TRUE])
  /\ UNCHANGED <<grades, flagRows>>

FinalSide(c) == Call(c).rows[Len(Call(c).rows)].side

\* On to the second grader, or to the result.
NextGrader(c) ==
  /\ GradingAt(c, "decided")
  /\ service' = [service EXCEPT
       ![c].at = IF Len(Call(c).sides) = 1 THEN "compared" ELSE "comparing",
       ![c].sides = Append(@, FinalSide(c)),
       ![c].rows = <<>>]
  /\ UNCHANGED <<grades, flagRows, faults>>

\* What Compare returns.
Outcome(sides) ==
  IF sides[1] = sides[2] THEN [verdict |-> sides[1], agreed |-> TRUE]
  ELSE [verdict |-> "tie", agreed |-> FALSE]

GradingStep(c) ==
  /\ Runs(c)
  /\ \/ LookupGrade(c) \/ ListFlags(c) \/ AskGrader(c) \/ InsertGrade(c) \/ Reconcile(c)
     \/ FileFlag(c) \/ PairwiseBad(c) \/ CompareFirst(c) \/ CompareReversed(c) \/ NextGrader(c)
  /\ UNCHANGED killed

(***************************************************************************)
(* Properties.                                                             *)
(***************************************************************************)

GradingTypeOK ==
  /\ \A r, s \in grades : r.resp = s.resp /\ r.grader = s.grader => r = s
  /\ \A r \in grades : r.grader \in Graders /\ r.flagged \subseteq Flags /\ r.by \in Commands
  /\ \A r \in grades : r.scores \in [Criteria -> 0..4]
  /\ \A f \in flagRows : GradesOf(f.resp, f.grader) # {} /\ f.flag \in Flags
  /\ DOMAIN service = Commands

\* A call of Grade that stored its grade, and between whose flags no other
\* command got in, returns with a flag row for each flag of the grade: neither a
\* retry nor a reconciliation loses one, and a call that could not file all of
\* them does not return a grade.  While no statement fails the same holds when the
\* command comes back to a grade it stored before.
GradeIsWhole ==
  \A c \in Commands :
    LET call == service[c] IN
    /\ GradingAt(c, "graded") /\ call.row.by = c /\ (call.stored \/ faults = 0)
    /\ \A f \in flagRows : f.resp = call.resp /\ f.grader = call.grader => f.by = c
    => call.flags = call.row.flagged /\ FlagsOf(call.resp, call.grader) = call.flags

\* All calls of Grade on one response by one grader return the same grade, the
\* one that later commands will find, whichever of them stored it.
SameGradeForAll ==
  \A c \in Commands : GradingAt(c, "graded") => GradesOf(Call(c).resp, Call(c).grader) = {Call(c).row}

\* A grader that names the same letter twice has looked at the position, not at
\* the text: its comparison is a tie.  One that names the same response twice
\* has decided, whichever was shown first; nobody else decides in two calls.
PositionBiasIsATie ==
  \A c \in Commands : GradingAt(c, "decided") /\ Len(Call(c).rows) = 2 =>
    LET first == Call(c).rows[1]
        second == Call(c).rows[2]
    IN FinalSide(c) =
         IF first.verdict \in Letters /\ second.verdict = OtherLetter(first.verdict)
         THEN IF first.verdict = first.shown THEN "left" ELSE "right"
         ELSE "tie"

\* A call of a grader has exactly one final row once it has decided, its last,
\* and none while a reversal is due, and a close call or a tie is never decided
\* in one: a call counts once, and not at all if it was stopped.  (A
\* grader who stands in for both of a comparison, or is asked again in
\* rerunFragility, is called twice, and the table then has two of them.)
OneFinalPerGrader ==
  \A c \in Commands : Call(c).at \in {"comparing", "reversing", "decided"} =>
    LET rows == Call(c).rows IN
    /\ Cardinality({i \in DOMAIN rows : rows[i].final}) = IF GradingAt(c, "decided") THEN 1 ELSE 0
    /\ GradingAt(c, "decided") => /\ rows[Len(rows)].final
                                  /\ FinalSide(c) \in {"left", "right"} \/ Len(rows) = 2
=============================================================================
