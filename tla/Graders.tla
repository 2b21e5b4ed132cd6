------------------------------- MODULE Graders -------------------------------
(***************************************************************************)
(* The graders: their rows (internal/store/graders.go), the commands that  *)
(* write them, graders status and graders calibrate                        *)
(* (cmd/council/graders.go, internal/grading/calibration.go), and how a    *)
(* step of the harness picks those it uses (internal/harness/sentinel.go,  *)
(* internal/grading/select.go).                                            *)
(*                                                                         *)
(* A grader is known by its configuration hash, of model, family and       *)
(* settings; key and role are labels of its row.  Hashes are numbers, in   *)
(* the order in which rows with one key are listed.                        *)
(***************************************************************************)
EXTENDS SharedDatabase

CONSTANTS
  Hashes,      \* grader configurations
  FamilyOf,    \* the model family of each
  Strict,      \* those whose model is known and takes a strict schema
  Items,       \* number of calibration items
  MaxReversals \* admit_max_reversals

ASSUME GraderConstants ==
  /\ Hashes \subseteq Nat
  /\ Strict \subseteq Hashes
  /\ Items \in Nat /\ MaxReversals \in Nat

VARIABLES
  configs, \* per hash with a row: [key, role, admitted, calibration]
  earned,  \* history: hashes with a calibration within the limit on record once
  cmd      \* per command: the invocation it is in, and its local variables

At(c, step) == Runs(c) /\ cmd[c].at = step

Go(c, step) == cmd' = [cmd EXCEPT ![c].at = step]

Exits(c, code) == cmd' = [cmd EXCEPT ![c].at = "exited", ![c].exit = code]

\* The flags of the invocation at hand.
Flag(c) == Head(cmd[c].script)

(***************************************************************************)
(* Selection.                                                              *)
(***************************************************************************)

NoGrader == 0

ASSUME NoGrader \notin Hashes

Precedes(g, h) == configs[g].key < configs[h].key \/ (configs[g].key = configs[h].key /\ g <= h)

FirstListed(S) == CHOOSE g \in S : \A h \in S : Precedes(g, h)

InRole(role) == {g \in DOMAIN configs : configs[g].role = role}

Admitted(S) == {g \in S : configs[g].admitted}

\* Mutant: one grader, or none, is enough.
SelectionPairOrFewer ==
  LET all == Admitted(InRole("selection"))
      one == FirstListed(all)
  IN CASE Cardinality(all) = 0 -> <<>>
       [] Cardinality(all) = 1 -> <<one>>
       [] OTHER -> <<one, FirstListed(all \ {one})>>

\* The first two of SelectionGraders, which is all that is made of them.
SelectionPair ==
  LET all == Admitted(InRole("selection"))
      one == FirstListed(all)
  IN IF Cardinality(all) < 2 THEN <<>> ELSE <<one, FirstListed(all \ {one})>>

ScreeningGrader ==
  IF Admitted(InRole("screening")) = {} THEN NoGrader ELSE FirstListed(Admitted(InRole("screening")))

\* Admitted or not.
SubstituteGrader == IF InRole("substitute") = {} THEN NoGrader ELSE FirstListed(InRole("substitute"))

\* Mutant: admission is not asked for.
SelectGraderAny(listed, family, substitute) ==
  LET fit == {i \in DOMAIN listed : FamilyOf[listed[i]] # family}
  IN IF fit # {} THEN listed[CHOOSE i \in fit : \A k \in fit : i <= k]
     ELSE IF substitute # NoGrader /\ FamilyOf[substitute] # family THEN substitute ELSE NoGrader

\* NoGrader stands for an error.
SelectGrader(listed, family, substitute) ==
  LET fit == {i \in DOMAIN listed : FamilyOf[listed[i]] # family}
  IN IF fit # {} THEN listed[CHOOSE i \in fit : \A k \in fit : i <= k]
     ELSE IF /\ substitute # NoGrader
             /\ configs[substitute].admitted
             /\ FamilyOf[substitute] # family
          THEN substitute ELSE NoGrader

SharesFamily(g, families) == \E i \in DOMAIN families : FamilyOf[g] = families[i]

\* Mutant: what SelectGrader returns is not compared with the other families.
ResolveGradersOneFamily(graders, families) ==
  [i \in DOMAIN graders |->
    IF ~SharesFamily(graders[i], families) THEN graders[i]
    ELSE SelectGrader(<<>>, families[1], SubstituteGrader)]

\* Those that share a family with the responses are replaced by the substitute,
\* each of them; NoGrader in the result makes it an error.
ResolveGraders(graders, families) ==
  [i \in DOMAIN graders |->
    IF ~SharesFamily(graders[i], families) THEN graders[i]
    ELSE LET g == SelectGrader(<<>>, families[1], SubstituteGrader)
         IN IF g = NoGrader \/ SharesFamily(g, families) THEN NoGrader ELSE g]

(***************************************************************************)
(* graders status and graders calibrate.                                   *)
(***************************************************************************)

Entries(c) == Flag(c).file

Calibrations == [kind : {"none", "error"}] \cup [kind : {"graded"}, reversals : 0..Items]

\* UpsertGraderConfig: a known hash keeps its admission, whatever key and role
\* the file now gives it; a new one has none.
Upserted(e) ==
  [h \in DOMAIN configs \cup {e.hash} |->
    IF h # e.hash THEN configs[h]
    ELSE IF h \in DOMAIN configs THEN [configs[h] EXCEPT !.key = e.key, !.role = e.role]
    ELSE [key |-> e.key, role |-> e.role, admitted |-> FALSE, calibration |-> [kind |-> "none"]]]

\* syncGradersFile, entry by entry: what comes before a bad entry stays.
SyncEntry(c) ==
  /\ At(c, "sync")
  /\ cmd[c].pos <= Len(Entries(c))
  /\ \E ok \in BOOLEAN :
       /\ Attempt(ok)
       /\ LET e == Entries(c)[cmd[c].pos] IN
          IF ok /\ e.role \in {"selection", "screening", "substitute"}
          THEN configs' = Upserted(e) /\ cmd' = [cmd EXCEPT ![c].pos = @ + 1]
          ELSE Exits(c, "error") /\ UNCHANGED configs
  /\ UNCHANGED earned

EveryKey == 0

\* The rows to calibrate, an entry each, with --grader <key> or --all.
Targets(c) ==
  LET meant == SelectSeq(Entries(c), LAMBDA e : Flag(c).only \in {EveryKey, e.key})
  IN [i \in DOMAIN meant |-> meant[i].hash]

Synced(c) ==
  /\ At(c, "sync")
  /\ cmd[c].pos > Len(Entries(c))
  /\ IF Flag(c).kind = "status"
     THEN \E ok \in BOOLEAN : Attempt(ok) /\ Exits(c, IF ok THEN "ok" ELSE "error")
     ELSE /\ IF Targets(c) = <<>> THEN Exits(c, "validation")
             ELSE cmd' = [cmd EXCEPT ![c].at = "calibrate", ![c].todo = Targets(c), ![c].failed = {}]
          /\ UNCHANGED faults
  /\ UNCHANGED <<configs, earned>>

Target(c) == Head(cmd[c].todo)

\* SetGraderCalibration.
WithCalibration(h, calibration, admitted) ==
  [configs EXCEPT ![h].calibration = calibration, ![h].admitted = admitted]

\* ValidateGrader, then the row is read for its calibration.
StartCalibration(c) ==
  /\ At(c, "calibrate")
  /\ \/ Target(c) \notin Strict /\ Go(c, "recordFailure") /\ UNCHANGED faults
     \/ /\ Target(c) \in Strict
        /\ \E ok \in BOOLEAN :
             /\ Attempt(ok)
             /\ IF ok THEN cmd' = [cmd EXCEPT ![c].at = "withdraw", ![c].row = configs[Target(c)].calibration]
                      ELSE Go(c, "recordFailure")
  /\ UNCHANGED <<configs, earned>>

\* invalidateAdmission: the calibration read before is written back.
Withdraw(c) ==
  /\ At(c, "withdraw")
  /\ \E ok \in BOOLEAN :
       /\ Attempt(ok)
       /\ IF ok THEN configs' = WithCalibration(Target(c), cmd[c].row, FALSE) /\ Go(c, "grade")
                ELSE UNCHANGED configs /\ Go(c, "recordFailure")
  /\ UNCHANGED earned

\* gradeItems: an error, or a number of items whose human and grader disagree.
\* No items is an error.
GradeItems(c) ==
  /\ At(c, "grade")
  /\ \/ Go(c, "recordFailure")
     \/ /\ Items > 0
        /\ \E n \in 0..Items :
             cmd' = [cmd EXCEPT ![c].at = "decide", ![c].row = [kind |-> "graded", reversals |-> n]]
  /\ UNCHANGED <<configs, earned, faults>>

\* The next target, or the exit with its code: an error outweighs a grader over
\* the limit.
NextTarget(c, how) ==
  LET failed == cmd[c].failed \cup {how}
      code == IF "error" \in failed THEN "error" ELSE IF "over" \in failed THEN "blocked" ELSE "ok"
  IN cmd' = [cmd EXCEPT ![c].todo = Tail(@), ![c].failed = failed, ![c].row = [kind |-> "none"],
                        ![c].at = IF Len(cmd[c].todo) = 1 THEN "exited" ELSE "calibrate",
                        ![c].exit = IF Len(cmd[c].todo) = 1 THEN code ELSE "none"]

WithinLimit(calibration) == calibration.kind = "graded" /\ calibration.reversals <= MaxReversals

\* persistCalibration; a failure of it is recorded as one of the grader.
Decide(c) ==
  /\ At(c, "decide")
  /\ \E ok \in BOOLEAN :
       /\ Attempt(ok)
       /\ IF ok
          THEN /\ configs' = WithCalibration(Target(c), cmd[c].row, WithinLimit(cmd[c].row))
               /\ earned' = IF WithinLimit(cmd[c].row) THEN earned \cup {Target(c)} ELSE earned
               /\ NextTarget(c, IF WithinLimit(cmd[c].row) THEN "admitted" ELSE "over")
          ELSE Go(c, "recordFailure") /\ UNCHANGED <<configs, earned>>

\* RecordCalibrationFailure; the other targets are calibrated all the same.
RecordFailure(c) ==
  /\ At(c, "recordFailure")
  /\ \E ok \in BOOLEAN :
       /\ Attempt(ok)
       /\ configs' = IF ok THEN WithCalibration(Target(c), [kind |-> "error"], FALSE) ELSE configs
  /\ NextTarget(c, "error")
  /\ UNCHANGED earned

GradersStep(c) ==
  /\ \/ SyncEntry(c) \/ Synced(c) \/ StartCalibration(c) \/ Withdraw(c) \/ GradeItems(c)
     \/ Decide(c) \/ RecordFailure(c)
  /\ UNCHANGED killed
=============================================================================
