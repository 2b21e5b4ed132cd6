----------------------------- MODULE HarnessRun ------------------------------
(***************************************************************************)
(* The commands harness weekly, sentinel, screen, compare and downstream   *)
(* (cmd/council/harness_cli.go, internal/harness), with graders status and *)
(* graders calibrate beside them, on one database.                         *)
(*                                                                         *)
(* One machine serves all: cmd[c].at is the step a command has come to,    *)
(* job[c].phase the function it is in.  What a pool generates, how a grade *)
(* is made and what a comparison is made of is Evaluation's; here each is  *)
(* a step that succeeds or returns an error.                               *)
(***************************************************************************)
EXTENDS Integers, Graders, CaseSelection

CONSTANTS
  Seats,           \* pack.AllSeats
  IncumbentFamily, \* per seat, the model family the active pack gives it
  Plans            \* what the commands are to do, see plan

VARIABLES
  runs,         \* harness_runs: [kind, by, status, and of history: invocation, the length its
                \* script had; lost, why nothing settles the row; scope, the cases of a sentinel]
  candidates,   \* per run and key with a row: [screen, compare, downstream, promotion], each empty
                \* or a sequence of one; of several rows the oldest, which is the one that is read
  sentinelRows, \* sentinel_results: [run, seat, pick]
  reported,     \* weekly runs whose report was begun
  job,          \* per command, what the functions it is in hold
  plan          \* script: the invocations of each command, one after the other; configs: the
                \* graders' rows at first; pack: the cases; block: harness_block_on_grader_drift

\* What the commands are asked to do, one invocation each.
Invocations == UNION {ToSet(p.script[c]) : p \in Plans, c \in Commands}

\* The commands there are, in a week of the year, graders files and rows of known
\* configurations, and admitted only those whose calibration is within the limit.
ASSUME PlanConstants ==
  /\ Seats \in Seq(STRING) /\ SentinelCount \in Int
  /\ \A p \in Plans, c \in Commands : p.script[c] \in Seq(Invocations)
  /\ \A f \in Invocations :
       /\ f.week \in Nat
       /\ f.kind \in {"status", "calibrate", "weekly", "sentinel", "screen", "compare", "downstream"}
       /\ f.file \in Seq([hash : Hashes, key : Nat, role : STRING])
  /\ \A p \in Plans :
       /\ p.pack \in Seq(ToSet(p.pack))
       /\ DOMAIN p.configs \subseteq Hashes
       /\ \A h \in DOMAIN p.configs :
            /\ p.configs[h] \in [key : Nat, role : STRING, admitted : BOOLEAN, calibration : Calibrations]
            /\ p.configs[h].admitted => WithinLimit(p.configs[h].calibration)

db == <<runs, candidates, sentinelRows, reported>>
vars == <<faults, killed, configs, earned, cmd, db, job, plan>>

NoResult == [hard |-> 0, priority |-> FALSE, net |-> 0, profile |-> "none", screen |-> "none",
             promote |-> FALSE]

NoRow == [screen |-> <<>>, compare |-> <<>>, downstream |-> <<>>, promotion |-> <<>>]

Idle == [phase |-> "none", week |-> 0, run |-> 0, specs |-> <<>>, graders |-> <<>>, using |-> <<>>,
         todo |-> <<>>, verdict |-> "none", again |-> FALSE, result |-> NoResult, row |-> NoRow,
         err |-> "none", drifted |-> FALSE]

Invocation(script) ==
  [at |-> IF script = <<>> THEN "done" ELSE "start", script |-> script, pos |-> 1, todo |-> <<>>,
   row |-> [kind |-> "none"], failed |-> {}, exit |-> "none"]

Init ==
  /\ plan \in Plans
  /\ configs = plan.configs
  /\ earned = Admitted(DOMAIN configs)
  /\ cmd = [c \in Commands |-> Invocation(plan.script[c])]
  /\ job = [c \in Commands |-> Idle]
  /\ runs = <<>> /\ candidates = <<>> /\ sentinelRows = {} /\ reported = {}
  /\ faults = 0 /\ killed = {}

In(c, phase) == job[c].phase = phase

\* The candidate at hand.
Candidate(c) == Head(job[c].specs)

Row(c) == <<job[c].run, Candidate(c).key>>

Moves(c, step, locals) == Go(c, step) /\ job' = [job EXCEPT ![c] = locals]

Returned(c, err) == Moves(c, "returned", [job[c] EXCEPT !.err = err])

Fails(c, err) == Moves(c, "failing", [job[c] EXCEPT !.err = err])

WithStatus(r, status) == [runs EXCEPT ![r].status = status]

WithLost(r, why) == [runs EXCEPT ![r].lost = why]

\* One statement for the status; where it fails the row is lost to it.
Sets(r, status, ok, why) == runs' = IF ok THEN WithStatus(r, status) ELSE WithLost(r, why)

\* FinishHarnessRun.
Finish(r, status, ok) == Sets(r, status, ok, "statement")

UnchangedGraders == UNCHANGED <<configs, earned>>

(***************************************************************************)
(* The command line: open the database, read the candidates.               *)
(***************************************************************************)

FirstStep(kind) ==
  CASE kind \in {"status", "calibrate"} -> "sync"
    [] kind = "weekly" -> "check"
    [] kind = "sentinel" -> "enter"
    [] OTHER -> "load"

Open(c) ==
  /\ At(c, "start")
  /\ \E ok \in BOOLEAN :
       /\ Attempt(ok)
       /\ IF ok THEN Moves(c, FirstStep(Flag(c).kind), [job[c] EXCEPT !.phase = Flag(c).kind])
                ELSE Exits(c, "error") /\ UNCHANGED job
  /\ UNCHANGED <<db, killed>> /\ UnchangedGraders

Final == {"blocked", "failed", "complete"}

\* harness downstream --run: "compare run id".  Nothing is checked of it; here it
\* is one that has ended, however, or that has compared the candidate.
RunsWith(key) ==
  {r \in DOMAIN runs :
     /\ runs[r].kind = "compare"
     /\ \/ runs[r].status \in Final
        \/ <<r, key>> \in DOMAIN candidates /\ candidates[<<r, key>>].compare # <<>>}

\* Compare and downstream take the last of these places.
Meant(c) == {i \in DOMAIN Flag(c).candidates : Flag(c).candidates[i].key = Flag(c).key}

\* LoadCandidates, which checks them all, and the candidate that is meant.
Load(c) ==
  /\ At(c, "load")
  /\ \/ ~Flag(c).readable /\ Exits(c, "error") /\ UNCHANGED job
     \/ /\ Flag(c).readable /\ In(c, "screen")
        /\ Moves(c, "enter", [job[c] EXCEPT !.specs = Flag(c).candidates])
     \/ /\ Flag(c).readable /\ ~In(c, "screen")
        /\ Meant(c) = {} \/ (In(c, "downstream") /\ RunsWith(Flag(c).key) = {})
        /\ Exits(c, "validation") /\ UNCHANGED job
     \/ /\ Flag(c).readable /\ ~In(c, "screen")
        /\ \E i \in Meant(c), r \in IF In(c, "downstream") THEN RunsWith(Flag(c).key) ELSE {0} :
             /\ \A k \in Meant(c) : k <= i
             /\ Moves(c, "enter", [job[c] EXCEPT !.specs = <<Flag(c).candidates[i]>>, !.run = r])
  /\ UNCHANGED <<db, faults, killed>> /\ UnchangedGraders

\* The case pack does not validate: no row is left.
CheckPack(c) ==
  /\ At(c, "check")
  /\ \/ Moves(c, "enter", job[c])
     \/ Exits(c, "error") /\ UNCHANGED job
  /\ UNCHANGED <<db, faults, killed>> /\ UnchangedGraders

(***************************************************************************)
(* Beginning: the active pack, the cases, the row of the run.              *)
(***************************************************************************)

\* A job for each seat and each case.
SentinelJobs(picks) ==
  FlattenSeq([s \in DOMAIN Seats |-> [i \in DOMAIN picks |-> [seat |-> Seats[s], pick |-> i]]])

CasesToEnter(c) ==
  CASE In(c, "sentinel") -> SentinelJobs(SelectSentinelCases(plan.pack, Flag(c).week))
    [] In(c, "compare") -> SelectCompareCases(plan.pack, Candidate(c).seat)
    [] OTHER -> <<>>

CannotEnter(c) ==
  \/ In(c, "sentinel") /\ CasesToEnter(c) = <<>>
  \/ In(c, "compare") /\ CasesToEnter(c) = <<>>
  \/ In(c, "screen") /\ ScreeningGrader = NoGrader

\* Downstream has its run already: where it cannot begin, nothing is tried for the
\* row, open or not.
Enter(c) ==
  /\ At(c, "enter")
  /\ \E ok \in BOOLEAN :
       /\ Attempt(ok)
       /\ \/ /\ ~ok \/ CannotEnter(c)
             /\ Returned(c, "error")
             /\ runs' = IF In(c, "downstream") THEN WithLost(job[c].run, "unread") ELSE runs
          \/ /\ ok /\ ~CannotEnter(c)
             /\ Moves(c, IF In(c, "downstream") THEN "drift" ELSE "create",
                      [job[c] EXCEPT !.todo = CasesToEnter(c),
                                     !.graders = IF In(c, "screen") THEN <<ScreeningGrader>> ELSE <<>>])
             /\ UNCHANGED runs
  /\ UNCHANGED <<candidates, sentinelRows, reported, killed>> /\ UnchangedGraders

\* Of the row StartRun makes; weekly starts one for Downstream where it does not compare.
KindOf(phase) == IF phase = "adopted" THEN "compare" ELSE phase

Create(c) ==
  /\ At(c, "create")
  /\ \E ok \in BOOLEAN :
       /\ Attempt(ok)
       /\ IF ok
          THEN /\ runs' = Append(runs, [kind |-> KindOf(job[c].phase), by |-> c, status |-> "created",
                                        invocation |-> Len(cmd[c].script), lost |-> "none",
                                        scope |-> IF In(c, "sentinel")
                                                  THEN SelectSentinelCases(plan.pack, Flag(c).week)
                                                  ELSE <<>>])
               /\ Moves(c, "running", [job[c] EXCEPT !.run = Len(runs) + 1])
          ELSE Returned(c, "error") /\ UNCHANGED runs
  /\ UNCHANGED <<candidates, sentinelRows, reported, killed>> /\ UnchangedGraders

\* The second statement of StartRun.
MarkRunning(c) ==
  /\ At(c, "running")
  /\ \E ok \in BOOLEAN :
       /\ Attempt(ok)
       /\ Sets(job[c].run, "running", ok, "unstarted")
       /\ CASE ~ok -> Returned(c, "error")
            [] ok /\ In(c, "weekly") -> Moves(c, "returned", [job[c] EXCEPT !.week = job[c].run, !.run = 0])
            [] ok /\ In(c, "adopted") -> Returned(c, "none")
            [] ok /\ In(c, "sentinel") -> Moves(c, "pair", job[c])
            [] ok /\ In(c, "screen") -> Moves(c, "screenOne", job[c])
            [] OTHER -> Moves(c, "drift", job[c])
  /\ UNCHANGED <<candidates, sentinelRows, reported, killed>> /\ UnchangedGraders

(***************************************************************************)
(* Before the cases: graders, drift, baselines.                            *)
(***************************************************************************)

\* SelectionGraders for the sentinel, selectionPair for the others.
Pair(c) ==
  /\ At(c, "pair")
  /\ \E ok \in BOOLEAN :
       /\ Attempt(ok)
       /\ IF ok /\ SelectionPair # <<>>
          THEN Moves(c, CASE In(c, "sentinel") -> "drift" [] In(c, "compare") -> "pool" [] OTHER -> "cases",
                     [job[c] EXCEPT !.graders = SelectionPair])
          ELSE Fails(c, "error")
  /\ UNCHANGED <<db, killed>> /\ UnchangedGraders

\* Drift is of an admitted grader.
MayBlock == plan.block /\ Admitted(DOMAIN configs) # {}

\* CheckDrift: every admitted grader is asked again, whatever its role.
CheckDrift(c) ==
  /\ At(c, "drift")
  /\ \/ Fails(c, "error")
     \/ Moves(c, IF In(c, "sentinel") THEN "baselines" ELSE "pair", job[c])
     \/ /\ MayBlock
        /\ Moves(c, "blocked", [job[c] EXCEPT !.drifted = TRUE])
  /\ UNCHANGED <<db, faults, killed>> /\ UnchangedGraders

\* Mutant: the gate of compare marks the row and lets the comparison go on.
BlockAndGoOn(c) ==
  /\ At(c, "blocked")
  /\ \E ok \in BOOLEAN :
       /\ Attempt(ok)
       /\ Finish(job[c].run, "blocked", ok)
       /\ IF In(c, "sentinel") THEN Returned(c, "drift") ELSE Moves(c, "pair", job[c])
  /\ UNCHANGED <<candidates, sentinelRows, reported, killed>> /\ UnchangedGraders

\* An error of the statement is ignored.  Compare and Downstream then take the
\* drift for any other error: the row ends as failed.
Block(c) ==
  /\ At(c, "blocked")
  /\ \E ok \in BOOLEAN :
       /\ Attempt(ok)
       /\ Finish(job[c].run, "blocked", ok)
       /\ IF In(c, "sentinel") THEN Returned(c, "drift") ELSE Fails(c, "drift")
  /\ UNCHANGED <<candidates, sentinelRows, reported, killed>> /\ UnchangedGraders

\* A baseline for each seat and case, or none is missing.
Baselines(c) ==
  /\ At(c, "baselines")
  /\ Fails(c, "error") \/ Moves(c, "pool", job[c])
  /\ UNCHANGED <<db, faults, killed>> /\ UnchangedGraders

\* The cases of a candidate to screen, or of Downstream.
Cases(c) ==
  /\ \/ At(c, "cases")
        /\ LET cases == SelectCompareCases(plan.pack, Candidate(c).seat)
           IN IF cases = <<>> THEN Fails(c, "error")
              ELSE Moves(c, "pool", [job[c] EXCEPT !.todo = cases])
     \/ At(c, "screenOne")
        /\ IF job[c].specs = <<>> THEN Moves(c, "finishing", job[c])
           ELSE IF SelectScreenCases(plan.pack, Candidate(c).seat) = <<>> THEN Fails(c, "error")
           ELSE Moves(c, "pool", job[c])
  /\ UNCHANGED <<db, faults, killed>> /\ UnchangedGraders

(***************************************************************************)
(* The cases: generate, grade, compare.                                    *)
(***************************************************************************)

\* Pool for all cases, a fragility check one after the other; Evaluation has
\* what happens in it.
Generate(c) ==
  /\ At(c, "pool") /\ ~In(c, "downstream")
  /\ Fails(c, "error") \/ Moves(c, IF In(c, "screen") \/ (In(c, "compare") /\ ~job[c].again)
                                   THEN "grading" ELSE "resolve", job[c])
  /\ UNCHANGED <<db, faults, killed>> /\ UnchangedGraders

\* The councils of one case with and without the candidate and their judges; the
\* judges alone, anew, where the case is repeated.
GenerateCouncils(c) ==
  /\ At(c, "pool") /\ In(c, "downstream")
  /\ Fails(c, "error") \/ Moves(c, "resolve", job[c])
  /\ UNCHANGED <<db, faults, killed>> /\ UnchangedGraders

\* What FinalistForMode makes of ScreenPassed.
Finalist(mode, passed) == mode = "force" \/ (mode # "never" /\ passed)

\* gradeWith, for both responses of each case and each grader.
GradeAll(c) ==
  /\ At(c, "grading")
  /\ \/ Fails(c, "error")
     \/ In(c, "compare") /\ Moves(c, "resolve", job[c])
     \/ /\ In(c, "screen")
        /\ \E passed \in BOOLEAN :
             Moves(c, "upsert", [job[c] EXCEPT !.result.screen =
               IF Finalist(Candidate(c).finalist, passed) THEN "finalist" ELSE "dropped"])
  /\ UNCHANGED <<db, faults, killed>> /\ UnchangedGraders

Known(families) == SelectSeq(families, LAMBDA f : f # "")

\* The model families behind the two responses to be compared, where known.
ResponseFamilies(c) ==
  LET seat == IF In(c, "sentinel") THEN Head(job[c].todo).seat ELSE Candidate(c).seat
  IN Known(CASE In(c, "sentinel") -> <<IncumbentFamily[seat]>>
             [] In(c, "downstream") /\ seat # "judge" -> <<IncumbentFamily["judge"]>>
             [] OTHER -> <<Candidate(c).family, IncumbentFamily[seat]>>)

\* resolveGraders; without the substitute's row it fails if it needs one.
Resolve(c) ==
  /\ At(c, "resolve")
  /\ \E ok \in BOOLEAN :
       /\ Attempt(ok)
       /\ LET using == ResolveGraders(job[c].graders, ResponseFamilies(c))
              fits == ok \/ using = job[c].graders
          IN IF fits /\ \A i \in DOMAIN using : using[i] # NoGrader
             THEN Moves(c, "comparing", [job[c] EXCEPT !.using = using])
             ELSE Fails(c, "error")
  /\ UNCHANGED <<db, killed>> /\ UnchangedGraders

\* Of the candidate, or of the fresh response; split where the graders disagree.
Verdicts == {"left", "right", "tie", "split"}

FamilyAt(c) == plan.pack[Head(job[c].todo).family]

\* Compare of the grading service.
CompareCase(c) ==
  /\ At(c, "comparing")
  /\ \/ Fails(c, "error")
     \/ \E v \in Verdicts :
          Moves(c, IF In(c, "downstream") /\ FamilyAt(c).planted /\ ~job[c].again THEN "cover" ELSE "compared",
                [job[c] EXCEPT !.verdict = v, !.using = <<>>])
  /\ UNCHANGED <<db, faults, killed>> /\ UnchangedGraders

SentinelRow(c) ==
  LET do == Head(job[c].todo) IN [seat |-> do.seat, pick |-> do.pick, run |-> job[c].run]

\* Mutant: the error of an insert is ignored.
InsertSentinelOrNot(c) ==
  /\ At(c, "compared") /\ In(c, "sentinel")
  /\ \E ok \in BOOLEAN :
       /\ Attempt(ok)
       /\ sentinelRows' = IF ok THEN sentinelRows \cup {SentinelRow(c)}
                          ELSE sentinelRows
       /\ Moves(c, IF Len(job[c].todo) = 1 THEN "finishing" ELSE "resolve",
                [job[c] EXCEPT !.todo = Tail(@), !.verdict = "none"])
  /\ UNCHANGED <<runs, candidates, reported, killed>> /\ UnchangedGraders

\* InsertSentinelResult, and the next job.
InsertSentinel(c) ==
  /\ At(c, "compared") /\ In(c, "sentinel")
  /\ \E ok \in BOOLEAN :
       /\ Attempt(ok)
       /\ IF ok
          THEN /\ sentinelRows' = sentinelRows \cup {SentinelRow(c)}
               /\ Moves(c, IF Len(job[c].todo) = 1 THEN "finishing" ELSE "resolve",
                        [job[c] EXCEPT !.todo = Tail(@), !.verdict = "none"])
          ELSE Fails(c, "error") /\ UNCHANGED sentinelRows
  /\ UNCHANGED <<runs, candidates, reported, killed>> /\ UnchangedGraders

Worth(verdict) == CASE verdict = "left" -> 1 [] verdict = "right" -> 0 - 1 [] OTHER -> 0

\* tallyCompare, for one case: hard is what the candidate won less what it lost.
Tallied(result, family, verdict) ==
  LET tags == family.tags
  IN [result EXCEPT !.hard = IF "hard" \in tags THEN @ + Worth(verdict) ELSE @,
                    !.priority = @ \/ (verdict = "right" /\ "priority" \in tags)]

\* The cases rerunFragility takes: no incumbent mean is ever assigned.
FragilityCases(c) ==
  LET cases == SelectCompareCases(plan.pack, Candidate(c).seat)
      picks == FragilityPicks([i \in DOMAIN cases |-> "hardest" \in plan.pack[cases[i].family].tags],
                              [i \in DOMAIN cases |-> 0])
  IN [i \in DOMAIN picks |-> cases[picks[i]]]

\* The verdicts of a fragility check change nothing that is decided on.
Tally(c) ==
  /\ At(c, "compared") /\ In(c, "compare")
  /\ LET tallied == [job[c] EXCEPT !.todo = Tail(@), !.verdict = "none", !.result =
                       IF job[c].again THEN @ ELSE Tallied(@, FamilyAt(c), job[c].verdict)]
     IN CASE Len(job[c].todo) > 1 -> Moves(c, IF job[c].again THEN "pool" ELSE "resolve", tallied)
          [] Len(job[c].todo) = 1 /\ ~job[c].again ->
               Moves(c, "pool", [tallied EXCEPT !.again = TRUE, !.todo = FragilityCases(c)])
          [] OTHER -> Moves(c, "summary", [tallied EXCEPT !.again = FALSE])
  /\ UNCHANGED <<db, faults, killed>> /\ UnchangedGraders

\* The flags of the run are counted; fit, fast or poor is what rules 1, 2 and 6
\* and the comparison of speed in rule 3 will make of flags, roles and times.
Summarise(c) ==
  /\ At(c, "summary")
  /\ \E ok \in BOOLEAN :
       /\ Attempt(ok)
       /\ IF ok THEN \E p \in {"fit", "fast", "poor"} :
                       Moves(c, "upsert", [job[c] EXCEPT !.result.profile = p])
                ELSE Fails(c, "error")
  /\ UNCHANGED <<db, killed>> /\ UnchangedGraders

\* Coverage of both councils, with the first of the pair.
Cover(c) ==
  /\ At(c, "cover")
  /\ Fails(c, "error") \/ Moves(c, "compared", job[c])
  /\ UNCHANGED <<db, faults, killed>> /\ UnchangedGraders

Close(verdict) == verdict \in {"tie", "split"}

\* Mutant: a close final is repeated until it is not close.
RepeatsUntilDecided(c) == Close(job[c].verdict)

\* One repetition, with fresh judges.
Repeats(c) == Close(job[c].verdict) /\ ~job[c].again

\* The rest of downstreamOne.
CloseCase(c) ==
  /\ At(c, "compared") /\ In(c, "downstream")
  /\ LET closed == [job[c] EXCEPT !.result.net = @ + Worth(job[c].verdict), !.todo = Tail(@), !.again = FALSE,
                                  !.verdict = "none"]
     IN CASE Repeats(c) -> Moves(c, "pool", [job[c] EXCEPT !.again = TRUE, !.verdict = "none"])
          [] ~Repeats(c) /\ Len(job[c].todo) > 1 -> Moves(c, "pool", closed)
          [] OTHER -> Moves(c, "upsert", closed)
  /\ UNCHANGED <<db, faults, killed>> /\ UnchangedGraders

(***************************************************************************)
(* The candidate's row.  UpdateCandidateResults reads the row and writes   *)
(* all of its results: two statements, outside a transaction.              *)
(***************************************************************************)

\* The first statement of UpsertCandidate: any error of it is taken for no row.
Find(c) ==
  /\ At(c, "upsert")
  /\ \E ok \in BOOLEAN :
       /\ Attempt(ok)
       /\ Moves(c, IF ok /\ Row(c) \in DOMAIN candidates THEN "refresh" ELSE "insert", job[c])
  /\ UNCHANGED <<db, killed>> /\ UnchangedGraders

\* The second for a row that is there: results stay.
Refresh(c) ==
  /\ At(c, "refresh")
  /\ \E ok \in BOOLEAN :
       /\ Attempt(ok)
       /\ IF ok THEN Moves(c, "readRow", job[c]) ELSE Fails(c, "error")
  /\ UNCHANGED <<db, killed>> /\ UnchangedGraders

\* The second where none was seen.  No constraint keeps a second row out, which
\* no lookup returns: they return the oldest.
Insert(c) ==
  /\ At(c, "insert")
  /\ \E ok \in BOOLEAN :
       /\ Attempt(ok)
       /\ IF ok
          THEN /\ candidates' = [x \in DOMAIN candidates \cup {Row(c)} |->
                                  IF x \in DOMAIN candidates THEN candidates[x] ELSE NoRow]
               /\ Moves(c, "readRow", job[c])
          ELSE UNCHANGED candidates /\ Fails(c, "error")
  /\ UNCHANGED <<runs, sentinelRows, reported, killed>> /\ UnchangedGraders

\* Mutant: rule 3 alone decides.
ChecklistOfHard(compare, downstream) == compare.hard > 0 \/ (compare.hard = 0 /\ compare.profile = "fast")

\* EvaluateChecklist: the rules 1 to 6, all of them.
Checklist(compare, downstream) ==
  /\ compare.profile # "poor"
  /\ compare.hard > 0 \/ (compare.hard = 0 /\ compare.profile = "fast")
  /\ ~compare.priority
  /\ downstream >= 0

HasEvidence(row) == row.compare # <<>> /\ row.downstream # <<>>

\* Promotion: reads the row and decides.
Promote(c) ==
  /\ At(c, "promote")
  /\ \E ok \in BOOLEAN :
       /\ Attempt(ok)
       /\ IF ok /\ Row(c) \in DOMAIN candidates /\ HasEvidence(candidates[Row(c)])
          THEN LET row == candidates[Row(c)]
               IN Moves(c, "readRow", [job[c] EXCEPT !.result.promote =
                                        Checklist(row.compare[1], row.downstream[1])])
          ELSE Returned(c, "error")
  /\ UNCHANGED <<db, killed>> /\ UnchangedGraders

StoreFails(c) == IF In(c, "promotion") THEN Returned(c, "error") ELSE Fails(c, "error")

ReadRow(c) ==
  /\ At(c, "readRow")
  /\ \E ok \in BOOLEAN :
       /\ Attempt(ok)
       /\ IF ok THEN Moves(c, "writeRow", [job[c] EXCEPT !.row = candidates[Row(c)]])
                ELSE StoreFails(c)
  /\ UNCHANGED <<db, killed>> /\ UnchangedGraders

\* The row that was read, with the result of this phase.
WithResult(row, phase, result) ==
  CASE phase = "screen" -> [row EXCEPT !.screen = <<result.screen>>]
    [] phase = "compare" ->
         [row EXCEPT !.compare = <<[hard |-> result.hard, priority |-> result.priority, profile |-> result.profile]>>]
    [] phase = "downstream" -> [row EXCEPT !.downstream = <<result.net>>]
    [] phase = "promotion" -> [row EXCEPT !.promotion = <<result.promote>>]

WriteRow(c) ==
  /\ At(c, "writeRow")
  /\ LET clean == [job[c] EXCEPT !.row = NoRow, !.result = NoResult]
     IN \E ok \in BOOLEAN :
          /\ Attempt(ok)
          /\ candidates' = IF ok THEN [candidates EXCEPT ![Row(c)] =
                                        WithResult(job[c].row, job[c].phase, job[c].result)]
                           ELSE candidates
          /\ CASE ~ok -> StoreFails(c)
               [] ok /\ In(c, "screen") -> Moves(c, "screenOne", [clean EXCEPT !.specs = Tail(@)])
               [] ok /\ In(c, "promotion") -> Moves(c, "returned", clean)
               [] OTHER -> Moves(c, "finishing", clean)
  /\ UNCHANGED <<runs, sentinelRows, reported, killed>> /\ UnchangedGraders

(***************************************************************************)
(* The end of a run.                                                       *)
(***************************************************************************)

\* FinishRun; where it fails the row stays running.
Complete(c) ==
  /\ At(c, "finishing")
  /\ \E ok \in BOOLEAN :
       /\ Attempt(ok)
       /\ Finish(job[c].run, "complete", ok)
       /\ Returned(c, IF ok THEN "none" ELSE "error")
  /\ UNCHANGED <<candidates, sentinelRows, reported, killed>> /\ UnchangedGraders

\* Mutant: an error is returned as it is, without FailRun.
FailWithoutTrace(c) ==
  /\ At(c, "failing")
  /\ Returned(c, job[c].err)
  /\ UNCHANGED <<db, faults, killed>> /\ UnchangedGraders

\* Mutant: FailRun's own error, mostly none, is returned for the reason.
FailRunForget(c) ==
  /\ At(c, "failing")
  /\ \E ok \in BOOLEAN :
       /\ Attempt(ok)
       /\ Finish(job[c].run, "failed", ok)
       /\ Returned(c, IF ok THEN "none" ELSE "error")
  /\ UNCHANGED <<candidates, sentinelRows, reported, killed>> /\ UnchangedGraders

\* FailRun, whose own error is ignored.
FailRun(c) ==
  /\ At(c, "failing")
  /\ \E ok \in BOOLEAN :
       /\ Attempt(ok)
       /\ Finish(job[c].run, "failed", ok)
       /\ Returned(c, job[c].err)
  /\ UNCHANGED <<candidates, sentinelRows, reported, killed>> /\ UnchangedGraders

Code(err) == CASE err = "none" -> "ok" [] err = "drift" -> "blocked" [] OTHER -> "error"

\* A command of its own; harness downstream goes on with Promotion.
CommandReturns(c) ==
  /\ At(c, "returned") /\ job[c].week = 0
  /\ IF In(c, "downstream") /\ job[c].err = "none"
     THEN Moves(c, "promote", [job[c] EXCEPT !.phase = "promotion"])
     ELSE Exits(c, Code(job[c].err)) /\ UNCHANGED job
  /\ UNCHANGED <<db, faults, killed>> /\ UnchangedGraders

(***************************************************************************)
(* Weekly.                                                                 *)
(***************************************************************************)

Has(c, step) == step \in Flag(c).steps

Begins(c, phase, specs) ==
  Moves(c, "enter", [Idle EXCEPT !.phase = phase, !.week = job[c].week, !.specs = specs])

Settles(c) == Moves(c, "settle", [job[c] EXCEPT !.specs = <<>>, !.todo = <<>>, !.graders = <<>>])

\* The next candidate.
ForEach(c, specs) ==
  CASE specs # <<>> /\ Has(c, "compare") -> Begins(c, "compare", specs)
    [] specs # <<>> /\ ~Has(c, "compare") /\ Has(c, "downstream") -> Begins(c, "adopted", specs)
    [] OTHER -> Settles(c)

\* Candidates of the weekly run: none skips the steps that need one.
TakeCandidates(c) ==
  CASE ~Flag(c).readable -> Moves(c, "settle", [job[c] EXCEPT !.err = "error"])
    [] Flag(c).readable /\ Flag(c).candidates # <<>> /\ Has(c, "screen") ->
         Begins(c, "screen", Flag(c).candidates)
    [] OTHER -> ForEach(c, Flag(c).candidates)

\* What comes after a step; after an error the end of the weekly run.
NextStep(c) ==
  /\ At(c, "returned") /\ job[c].week # 0
  /\ CASE job[c].err # "none" -> Settles(c)
       [] job[c].err = "none" /\ In(c, "weekly") ->
            IF Has(c, "sentinel") THEN Begins(c, "sentinel", <<>>) ELSE TakeCandidates(c)
       [] job[c].err = "none" /\ In(c, "sentinel") -> TakeCandidates(c)
       [] job[c].err = "none" /\ In(c, "screen") -> ForEach(c, Flag(c).candidates)
       [] job[c].err = "none" /\ In(c, "compare") ->
            IF Has(c, "downstream")
            THEN Moves(c, "enter", [job[c] EXCEPT !.phase = "downstream"])
            ELSE ForEach(c, Tail(job[c].specs))
       [] job[c].err = "none" /\ In(c, "adopted") -> Moves(c, "enter", [job[c] EXCEPT !.phase = "downstream"])
       [] job[c].err = "none" /\ In(c, "downstream") -> Moves(c, "promote", [job[c] EXCEPT !.phase = "promotion"])
       [] OTHER -> ForEach(c, Tail(job[c].specs))
  /\ UNCHANGED <<db, faults, killed>> /\ UnchangedGraders

Outcome(c) ==
  CASE job[c].err = "none" -> "complete"
    [] job[c].err = "drift" /\ In(c, "sentinel") -> "blocked"
    [] OTHER -> "failed"

\* writeReport: the row, whatever comes of the statement, then the report.
SettleWeek(c) ==
  /\ At(c, "settle")
  /\ \E ok \in BOOLEAN :
       /\ Attempt(ok)
       /\ Finish(job[c].week, Outcome(c), ok)
       /\ IF Has(c, "report") THEN Moves(c, "report", job[c])
          ELSE Exits(c, Code(job[c].err)) /\ UNCHANGED job
  /\ UNCHANGED <<candidates, sentinelRows, reported, killed>> /\ UnchangedGraders

\* Report; its error counts unless the run failed anyway.
WriteReport(c) ==
  /\ At(c, "report")
  /\ reported' = reported \cup {job[c].week}
  /\ \/ Exits(c, Code(job[c].err))
     \/ Outcome(c) # "failed" /\ Exits(c, "error")
  /\ UNCHANGED <<runs, candidates, sentinelRows, job, faults, killed>> /\ UnchangedGraders

(***************************************************************************)
(* All commands.                                                           *)
(***************************************************************************)

\* The user runs the next command.
NextInvocation(c) ==
  /\ At(c, "exited")
  /\ cmd' = [cmd EXCEPT ![c] = Invocation(Tail(@.script))]
  /\ job' = [job EXCEPT ![c] = Idle]
  /\ UNCHANGED <<db, faults, killed>> /\ UnchangedGraders

Command(c) ==
  \/ GradersStep(c) /\ UNCHANGED <<db, job, plan>>
  \/ /\ \/ Open(c) \/ Load(c) \/ CheckPack(c) \/ Enter(c) \/ Create(c) \/ MarkRunning(c)
        \/ Pair(c) \/ CheckDrift(c) \/ Block(c) \/ Baselines(c) \/ Cases(c)
        \/ Generate(c) \/ GenerateCouncils(c) \/ GradeAll(c) \/ Resolve(c) \/ CompareCase(c) \/ InsertSentinel(c)
        \/ Tally(c) \/ Summarise(c) \/ Cover(c) \/ CloseCase(c)
        \/ Find(c) \/ Refresh(c) \/ Insert(c) \/ Promote(c) \/ ReadRow(c) \/ WriteRow(c)
        \/ Complete(c) \/ FailRun(c) \/ CommandReturns(c) \/ NextStep(c)
        \/ SettleWeek(c) \/ WriteReport(c) \/ NextInvocation(c)
     /\ UNCHANGED plan

Kill(c) ==
  /\ Runs(c) /\ cmd[c].at # "done" /\ AnotherFault
  /\ killed' = killed \cup {c}
  /\ cmd' = [cmd EXCEPT ![c] = Invocation(<<>>)]
  /\ job' = [job EXCEPT ![c] = Idle]
  /\ UNCHANGED <<db, configs, earned, faults, plan>>

AllEnded == (\A c \in Commands : cmd[c].at = "done") /\ UNCHANGED vars

Next == (\E c \in Commands : Command(c) \/ Kill(c)) \/ AllEnded

\* Some command goes on while one can.
Spec == Init /\ [][Next]_vars /\ WF_vars(\E c \in Commands : Command(c))

-----------------------------------------------------------------------------
(***************************************************************************)
(* Properties.                                                             *)
(***************************************************************************)

Statuses == {"created", "running", "blocked", "failed", "complete"}

Codes == {"none", "ok", "error", "validation", "blocked"}

\* The rows and the commands are well formed; sentinel, compare and downstream
\* ask two graders and a screening one.
HarnessTypeOK ==
  /\ \A r \in DOMAIN runs : runs[r].status \in Statuses /\ runs[r].by \in Commands
  /\ DOMAIN configs \subseteq Hashes /\ earned \subseteq Hashes
  /\ \A h \in DOMAIN configs : configs[h].calibration.kind = "graded" \/ ~configs[h].admitted
  /\ \A row \in DOMAIN candidates : row[1] \in DOMAIN runs
  /\ \A c \in Commands :
       /\ cmd[c].exit \in Codes
       /\ job[c].run \in 0..Len(runs) /\ job[c].week \in 0..Len(runs)
       /\ cmd[c].at \in {"pool", "grading", "resolve", "comparing", "compared", "cover"} =>
            Len(job[c].graders) = IF In(c, "screen") THEN 1 ELSE 2
  /\ faults + Cardinality(killed) <= MaxFaults

\* resolveGraders and SelectGrader: a comparison is made only by graders that
\* have passed a calibration once, whatever graders calibrate and an edited
\* graders file do to the rows in the meantime; and no row says admitted whose
\* calibration is not within the limit.
GradersEarnedIt ==
  /\ \A c \in Commands : At(c, "comparing") => ToSet(job[c].using) \subseteq earned
  /\ \A h \in DOMAIN configs : configs[h].admitted => WithinLimit(configs[h].calibration)

\* R-12 (sentinel.go): no comparison is made by a grader of the family of one of
\* the two responses, for any seat and in every phase.
NoSameFamilyVerdict ==
  \A c \in Commands : At(c, "comparing") =>
    \A i \in DOMAIN job[c].using : ~SharesFamily(job[c].using[i], ResponseFamilies(c))

\* Promotion and UpdateCandidateResults: a row says promote or not only when it
\* has both results, and promote only when its compare result passes every rule
\* that reads it, though rows are read and written back whole by two commands.
PromotionHasEvidence ==
  \A row \in DOMAIN candidates : LET r == candidates[row] IN
    r.promotion # <<>> =>
      /\ r.compare # <<>> /\ r.downstream # <<>>
      /\ r.promotion[1] => ~r.compare[1].priority /\ r.compare[1].hard >= 0 /\ r.compare[1].profile # "poor"

\* FailRun, FinishRun and writeReport: a command that has exited left none of its
\* rows created or running but in three ways: the statement that should have
\* settled it failed; StartRun's second statement failed, for which nobody settles
\* the row; or it is a compare run that Downstream was given and could not begin
\* on, which nobody settles either, though no statement on it failed.  And a
\* weekly run came to its report, however it ended.
RunsSettle ==
  \A c \in Commands : At(c, "exited") =>
    /\ \A r \in DOMAIN runs : runs[r].by = c =>
         \/ runs[r].status \in Final
         \/ runs[r].lost \in {"statement", "unstarted"}
         \/ runs[r].lost = "unread" /\ runs[r].kind = "compare"
    /\ job[c].week # 0 /\ Has(c, "report") => job[c].week \in reported

\* Exit 0 against the rows: every run an invocation that exits with ok has begun
\* is complete, through fail, FailRun and the steps of weekly.  Only writeReport
\* ignores that the statement for its row failed; and a compare run can be given to
\* a downstream command of its own meanwhile.
OkMeansComplete ==
  \A c \in Commands : At(c, "exited") /\ cmd[c].exit = "ok" =>
    \A r \in DOMAIN runs :
      runs[r].by = c /\ runs[r].invocation = Len(cmd[c].script) /\ runs[r].kind # "compare" =>
        runs[r].status = "complete" \/ (runs[r].kind = "weekly" /\ runs[r].lost = "statement")

\* Drift that blocks is the last thing of an invocation but for the rows and the
\* report: no response is generated, graded or compared after it, and the exit
\* is never ok.
DriftStops ==
  \A c \in Commands : Runs(c) /\ job[c].drifted =>
    /\ cmd[c].at \in {"blocked", "failing", "returned", "settle", "report", "exited"}
    /\ cmd[c].exit # "ok"

\* SelectSentinelCases and Sentinel: a complete sentinel run is about a safety
\* family and a control family, two different ones where the case pack has them,
\* and holds a row for every seat and every case it is about.
SentinelIsComplete ==
  \A r \in DOMAIN runs : runs[r].kind = "sentinel" /\ runs[r].status = "complete" =>
    LET scope == runs[r].scope
        families(tag) == {i \in DOMAIN plan.pack : {"sentinel", tag} \subseteq plan.pack[i].tags}
    IN /\ Len(scope) = Larger(2, SentinelCount)
       /\ scope[1].family \in families("safety") /\ scope[2].family \in families("control")
       /\ families("control") # {scope[1].family} => scope[2].family # scope[1].family
       /\ \A s \in DOMAIN Seats, i \in DOMAIN scope :
            [seat |-> Seats[s], pick |-> i, run |-> r] \in sentinelRows

\* Every command comes to its end: a close final is repeated once, the steps of
\* a weekly run are finite.
HarnessEnds == <>(\A c \in Commands : cmd[c].at = "done")
=============================================================================
