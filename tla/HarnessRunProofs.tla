--------------------------- MODULE HarnessRunProofs ---------------------------
(***************************************************************************)
(* Proofs about HarnessRun for every set of commands, seats, graders and   *)
(* plans, and every bound on faults, from three invariants.  IInv: what    *)
(* the steps of a command do to its error and to the graders it uses; no   *)
(* comparison by a grader of the family of a response, nothing after drift *)
(* that blocks.  RInv: what the commands hold of the rows they share; a    *)
(* promotion on record has its evidence, a run is settled when its command *)
(* exits, graders have earned their place.  SInv: the cases a sentinel run *)
(* is about and the jobs that are left; a complete one has all its rows.   *)
(***************************************************************************)
EXTENDS HarnessRun, SequenceLemmas, FiniteSetTheorems

Fields == {"phase", "specs", "todo", "using", "err", "drifted"}

\* As much of the types as the proofs need.
Shape ==
  /\ DOMAIN cmd = Commands /\ DOMAIN job = Commands
  /\ \A c \in Commands : {"at", "exit"} \subseteq DOMAIN cmd[c] /\ Fields \subseteq DOMAIN job[c]

\* A comparison under way has graders that share no family with its responses.
Fit(c) ==
  cmd[c].at = "comparing" =>
    \A i \in DOMAIN job[c].using : ~SharesFamily(job[c].using[i], ResponseFamilies(c))

\* Where a command may be after drift that blocks.
Ending == {"blocked", "failing", "returned", "settle", "report", "exited"}

\* Until the row is marked an invocation with drift may have no error yet; after
\* that it has one, and so no step takes it back to work or out with ok.
Stopping(c) ==
  /\ job[c].err \in {"none", "error", "drift"}
  /\ cmd[c].at # "exited" => cmd[c].exit # "ok"
  /\ job[c].drifted =>
       /\ cmd[c].at \in Ending
       /\ cmd[c].at # "blocked" => job[c].err # "none"
       /\ cmd[c].exit # "ok"

IInv == Shape /\ \A c \in Commands : Fit(c) /\ Stopping(c)

\* A step of c touches no other command.
Others(c) == \A d \in Commands \ {c} : cmd'[d] = cmd[d] /\ job'[d] = job[d]

\* What a step of c other than Resolve comes to.
Leaves(c) == Shape' /\ Others(c) /\ cmd'[c].at # "comparing" /\ Stopping(c)'

\* Locals before any drift.
Steady(locals) ==
  Fields \subseteq DOMAIN locals /\ locals.err \in {"none", "error", "drift"} /\ ~locals.drifted

-----------------------------------------------------------------------------
(***************************************************************************)
(* The ways a command moves.                                               *)
(***************************************************************************)

\* Moves, with the job it is given.
LEMMA MovesTo ==
  ASSUME Shape, NEW c \in Commands, NEW step, NEW locals, Fields \subseteq DOMAIN locals,
         Moves(c, step, locals)
  PROVE  /\ Shape' /\ Others(c)
         /\ cmd'[c].at = step /\ cmd'[c].exit = cmd[c].exit /\ job'[c] = locals
  BY DEF Shape, Others, Moves, Go, Fields

\* The end of an invocation.
LEMMA ExitsWith ==
  ASSUME Shape, NEW c \in Commands, NEW code, Exits(c, code), job' = job
  PROVE  Shape' /\ Others(c) /\ cmd'[c].at = "exited" /\ cmd'[c].exit = code
  BY DEF Shape, Others, Exits

\* A command outside Ending has met no drift, and goes on as Steady says.
LEMMA Unblocked ==
  ASSUME IInv, NEW c \in Commands, cmd[c].at \notin Ending
  PROVE  Steady(job[c]) /\ cmd[c].exit # "ok"
  BY DEF IInv, Shape, Stopping, Steady, Ending

LEMMA GoesOn ==
  ASSUME IInv, NEW c \in Commands, cmd[c].exit # "ok", NEW step, step \notin {"comparing", "exited"},
         NEW locals, Steady(locals), Moves(c, step, locals)
  PROVE  Leaves(c)
<1>1. Shape' /\ Others(c) /\ cmd'[c].at = step /\ cmd'[c].exit = cmd[c].exit /\ job'[c] = locals
  BY MovesTo DEF IInv, Steady
<1>2. QED
  BY <1>1 DEF Leaves, Stopping, Steady

LEMMA ExitLeaves ==
  ASSUME IInv, NEW c \in Commands, NEW code, Exits(c, code), job' = job,
         job[c].drifted => code # "ok" /\ job[c].err # "none"
  PROVE  Leaves(c)
<1>1. Shape' /\ Others(c) /\ cmd'[c].at = "exited" /\ cmd'[c].exit = code /\ job'[c] = job[c]
  BY ExitsWith DEF IInv
<1>2. QED
  BY <1>1 DEF Leaves, IInv, Stopping, Ending

\* Fails and Returned keep what they find but for the error.
LEMMA EndsWith ==
  ASSUME IInv, NEW c \in Commands, cmd[c].at # "exited", NEW err \in {"error", "drift"},
         Fails(c, err) \/ Returned(c, err)
  PROVE  Leaves(c)
<1> DEFINE locals == [job[c] EXCEPT !.err = err]
<1>1. /\ Fields \subseteq DOMAIN locals
      /\ locals.err = err /\ locals.drifted = job[c].drifted
  BY DEF IInv, Shape, Fields
<1>2. PICK step \in {"failing", "returned"} : Moves(c, step, locals)
  BY DEF Fails, Returned
<1> HIDE DEF locals
<1>3. Shape' /\ Others(c) /\ cmd'[c].at = step /\ cmd'[c].exit = cmd[c].exit /\ job'[c] = locals
  BY <1>1, <1>2, MovesTo DEF IInv
<1>4. cmd[c].exit # "ok"
  BY DEF IInv, Stopping
<1>5. QED
  BY <1>1, <1>3, <1>4 DEF Leaves, Stopping, Ending

-----------------------------------------------------------------------------
(***************************************************************************)
(* One lemma per action, or per group of actions alike.                    *)
(***************************************************************************)

LEMMA OpenLeaves ==
  ASSUME IInv, NEW c \in Commands, Open(c) PROVE Leaves(c)
<1>1. cmd[c].at = "start" /\ Steady(job[c]) /\ cmd[c].exit # "ok"
  BY Unblocked DEF Open, At, Ending
<1>2. CASE Exits(c, "error") /\ UNCHANGED job
  BY <1>1, <1>2, ExitLeaves DEF Steady
<1>3. CASE Moves(c, FirstStep(Flag(c).kind), [job[c] EXCEPT !.phase = Flag(c).kind])
  <2>1. FirstStep(Flag(c).kind) \in {"sync", "check", "enter", "load"}
    BY DEF FirstStep
  <2>2. Steady([job[c] EXCEPT !.phase = Flag(c).kind])
    BY <1>1 DEF Steady, Fields
  <2>3. QED
    BY <1>1, <1>3, <2>1, <2>2, GoesOn
<1>4. QED
  BY <1>2, <1>3 DEF Open

LEMMA LoadLeaves ==
  ASSUME IInv, NEW c \in Commands, Load(c) PROVE Leaves(c)
<1>1. cmd[c].at = "load" /\ Steady(job[c]) /\ cmd[c].exit # "ok"
  BY Unblocked DEF Load, At, Ending
<1>2. ASSUME NEW code, Exits(c, code), UNCHANGED job PROVE Leaves(c)
  BY <1>1, <1>2, ExitLeaves DEF Steady
<1>3. CASE Moves(c, "enter", [job[c] EXCEPT !.specs = Flag(c).candidates])
  <2>1. Steady([job[c] EXCEPT !.specs = Flag(c).candidates])
    BY <1>1 DEF Steady, Fields
  <2>2. QED
    BY <1>1, <1>3, <2>1, GoesOn
<1>4. ASSUME NEW i, NEW r,
             Moves(c, "enter", [job[c] EXCEPT !.specs = <<Flag(c).candidates[i]>>, !.run = r])
      PROVE  Leaves(c)
  <2>1. Steady([job[c] EXCEPT !.specs = <<Flag(c).candidates[i]>>, !.run = r])
    BY <1>1 DEF Steady, Fields
  <2>2. QED
    BY <1>1, <1>4, <2>1, GoesOn
<1>5. QED
  BY <1>2, <1>3, <1>4 DEF Load

LEMMA CheckPackLeaves ==
  ASSUME IInv, NEW c \in Commands, CheckPack(c) PROVE Leaves(c)
<1>1. Steady(job[c]) /\ cmd[c].exit # "ok"
  BY Unblocked DEF CheckPack, At, Ending
<1>2. CASE Moves(c, "enter", job[c])
  BY <1>1, <1>2, GoesOn
<1>3. CASE Exits(c, "error") /\ UNCHANGED job
  BY <1>1, <1>3, ExitLeaves DEF Steady
<1>4. QED
  BY <1>2, <1>3 DEF CheckPack

LEMMA EnterLeaves ==
  ASSUME IInv, NEW c \in Commands, Enter(c) PROVE Leaves(c)
<1> DEFINE locals == [job[c] EXCEPT !.todo = CasesToEnter(c),
                                    !.graders = IF In(c, "screen") THEN <<ScreeningGrader>> ELSE <<>>]
<1>1. cmd[c].at = "enter" /\ Steady(job[c]) /\ cmd[c].exit # "ok"
  BY Unblocked DEF Enter, At, Ending
<1>2. CASE Returned(c, "error")
  BY <1>1, <1>2, EndsWith
<1>3. CASE \E step \in {"drift", "create"} : Moves(c, step, locals)
  <2>1. Steady(locals)
    BY <1>1 DEF Steady, Fields
  <2> HIDE DEF locals
  <2>2. QED
    BY <1>1, <1>3, <2>1, GoesOn
<1>4. QED
  BY <1>2, <1>3 DEF Enter

LEMMA CreateLeaves ==
  ASSUME IInv, NEW c \in Commands, Create(c) PROVE Leaves(c)
<1> DEFINE locals == [job[c] EXCEPT !.run = Len(runs) + 1]
<1>1. cmd[c].at = "create" /\ Steady(job[c]) /\ cmd[c].exit # "ok"
  BY Unblocked DEF Create, At, Ending
<1>2. CASE Returned(c, "error")
  BY <1>1, <1>2, EndsWith
<1>3. CASE Moves(c, "running", locals)
  <2>1. Steady(locals)
    BY <1>1 DEF Steady, Fields
  <2> HIDE DEF locals
  <2>2. QED
    BY <1>1, <1>3, <2>1, GoesOn
<1>4. QED
  BY <1>2, <1>3 DEF Create

LEMMA MarkRunningLeaves ==
  ASSUME IInv, NEW c \in Commands, MarkRunning(c) PROVE Leaves(c)
<1> DEFINE locals == [job[c] EXCEPT !.week = job[c].run, !.run = 0]
<1>1. cmd[c].at = "running" /\ Steady(job[c]) /\ cmd[c].exit # "ok"
  BY Unblocked DEF MarkRunning, At, Ending
<1>2. CASE Returned(c, "error")
  BY <1>1, <1>2, EndsWith
<1>3. CASE Moves(c, "returned", locals)
  <2>1. Steady(locals)
    BY <1>1 DEF Steady, Fields
  <2> HIDE DEF locals
  <2>2. QED
    BY <1>1, <1>3, <2>1, GoesOn
<1>4. CASE Returned(c, "none")
  <2>1. Steady([job[c] EXCEPT !.err = "none"])
    BY <1>1 DEF Steady, Fields
  <2>2. QED
    BY <1>1, <1>4, <2>1, GoesOn DEF Returned
<1>5. CASE \E step \in {"pair", "screenOne", "drift"} : Moves(c, step, job[c])
  BY <1>1, <1>5, GoesOn
<1>6. PICK ok \in BOOLEAN :
        CASE ~ok -> Returned(c, "error")
            [] ok /\ In(c, "weekly") -> Moves(c, "returned", locals)
            [] ok /\ In(c, "adopted") -> Returned(c, "none")
            [] ok /\ In(c, "sentinel") -> Moves(c, "pair", job[c])
            [] ok /\ In(c, "screen") -> Moves(c, "screenOne", job[c])
            [] OTHER -> Moves(c, "drift", job[c])
  BY DEF MarkRunning
<1> HIDE DEF locals
<1>7. QED
  BY <1>2, <1>3, <1>4, <1>5, <1>6

LEMMA PairLeaves ==
  ASSUME IInv, NEW c \in Commands, Pair(c) PROVE Leaves(c)
<1> DEFINE locals == [job[c] EXCEPT !.graders = SelectionPair]
<1>1. cmd[c].at = "pair" /\ Steady(job[c]) /\ cmd[c].exit # "ok"
  BY Unblocked DEF Pair, At, Ending
<1>2. CASE Fails(c, "error")
  BY <1>1, <1>2, EndsWith
<1>3. CASE \E step \in {"drift", "pool", "cases"} : Moves(c, step, locals)
  <2>1. Steady(locals)
    BY <1>1 DEF Steady, Fields
  <2> HIDE DEF locals
  <2>2. QED
    BY <1>1, <1>3, <2>1, GoesOn
<1>4. QED
  BY <1>2, <1>3 DEF Pair

LEMMA CheckDriftLeaves ==
  ASSUME IInv, NEW c \in Commands, CheckDrift(c) PROVE Leaves(c)
<1> DEFINE locals == [job[c] EXCEPT !.drifted = TRUE]
<1>1. cmd[c].at = "drift" /\ Steady(job[c]) /\ cmd[c].exit # "ok"
  BY Unblocked DEF CheckDrift, At, Ending
<1>2. CASE Fails(c, "error")
  BY <1>1, <1>2, EndsWith
<1>3. CASE \E step \in {"baselines", "pair"} : Moves(c, step, job[c])
  BY <1>1, <1>3, GoesOn
<1>4. CASE Moves(c, "blocked", locals)
  <2>1. Fields \subseteq DOMAIN locals /\ locals.err = job[c].err
    BY <1>1 DEF Steady, Fields
  <2> HIDE DEF locals
  <2>2. Shape' /\ Others(c) /\ cmd'[c].at = "blocked" /\ cmd'[c].exit = cmd[c].exit /\ job'[c] = locals
    BY <1>4, <2>1, MovesTo DEF IInv
  <2>3. QED
    BY <1>1, <2>1, <2>2 DEF Leaves, Stopping, Steady, Ending
<1>5. QED
  BY <1>2, <1>3, <1>4 DEF CheckDrift

\* The row is marked, or the statement lost; either way the error is there.
LEMMA BlockLeaves ==
  ASSUME IInv, NEW c \in Commands, Block(c) PROVE Leaves(c)
<1>1. cmd[c].at = "blocked"
  BY DEF Block, At
<1>2. Returned(c, "drift") \/ Fails(c, "drift")
  BY DEF Block
<1>3. QED
  BY <1>1, <1>2, EndsWith

LEMMA BaselinesLeaves ==
  ASSUME IInv, NEW c \in Commands, Baselines(c) PROVE Leaves(c)
<1>1. cmd[c].at = "baselines" /\ Steady(job[c]) /\ cmd[c].exit # "ok"
  BY Unblocked DEF Baselines, At, Ending
<1>2. CASE Fails(c, "error")
  BY <1>1, <1>2, EndsWith
<1>3. CASE Moves(c, "pool", job[c])
  BY <1>1, <1>3, GoesOn
<1>4. QED
  BY <1>2, <1>3 DEF Baselines

LEMMA CasesLeaves ==
  ASSUME IInv, NEW c \in Commands, Cases(c) PROVE Leaves(c)
<1> DEFINE locals == [job[c] EXCEPT !.todo = SelectCompareCases(plan.pack, Candidate(c).seat)]
<1>1. cmd[c].at \in {"cases", "screenOne"} /\ Steady(job[c]) /\ cmd[c].exit # "ok"
  BY Unblocked DEF Cases, At, Ending
<1>2. CASE Fails(c, "error")
  BY <1>1, <1>2, EndsWith
<1>3. CASE \E step \in {"finishing", "pool"} : Moves(c, step, job[c])
  BY <1>1, <1>3, GoesOn
<1>4. CASE Moves(c, "pool", locals)
  <2>1. Steady(locals)
    BY <1>1 DEF Steady, Fields
  <2> HIDE DEF locals
  <2>2. QED
    BY <1>1, <1>4, <2>1, GoesOn
<1>5. QED
  BY <1>2, <1>3, <1>4 DEF Cases

LEMMA GenerateLeaves ==
  ASSUME IInv, NEW c \in Commands, Generate(c) \/ GenerateCouncils(c) PROVE Leaves(c)
<1>1. cmd[c].at = "pool" /\ Steady(job[c]) /\ cmd[c].exit # "ok"
  BY Unblocked DEF Generate, GenerateCouncils, At, Ending
<1>2. CASE Fails(c, "error")
  BY <1>1, <1>2, EndsWith
<1>3. CASE \E step \in {"grading", "resolve"} : Moves(c, step, job[c])
  BY <1>1, <1>3, GoesOn
<1>4. QED
  BY <1>2, <1>3 DEF Generate, GenerateCouncils

LEMMA GradeAllLeaves ==
  ASSUME IInv, NEW c \in Commands, GradeAll(c) PROVE Leaves(c)
<1>1. cmd[c].at = "grading" /\ Steady(job[c]) /\ cmd[c].exit # "ok"
  BY Unblocked DEF GradeAll, At, Ending
<1>2. CASE Fails(c, "error")
  BY <1>1, <1>2, EndsWith
<1>3. CASE Moves(c, "resolve", job[c])
  BY <1>1, <1>3, GoesOn
<1>4. ASSUME NEW how, Moves(c, "upsert", [job[c] EXCEPT !.result.screen = how])
      PROVE  Leaves(c)
  <2>1. Steady([job[c] EXCEPT !.result.screen = how])
    BY <1>1 DEF Steady, Fields
  <2>2. QED
    BY <1>1, <1>4, <2>1, GoesOn
<1>5. QED
  BY <1>2, <1>3, <1>4 DEF GradeAll

\* Who responded depends on the phase, the candidate and the case alone.
LEMMA SameFamilies ==
  ASSUME NEW c, job'[c].phase = job[c].phase, job'[c].specs = job[c].specs, job'[c].todo = job[c].todo
  PROVE  ResponseFamilies(c)' = ResponseFamilies(c)
  BY DEF ResponseFamilies, In, Candidate

LEMMA ResolvedApart ==
  ASSUME NEW graders, NEW families, NEW i \in DOMAIN ResolveGraders(graders, families),
         ResolveGraders(graders, families)[i] # NoGrader
  PROVE  ~SharesFamily(ResolveGraders(graders, families)[i], families)
  BY DEF ResolveGraders

\* The only step that begins a comparison.
LEMMA ResolveFits ==
  ASSUME IInv, NEW c \in Commands, Resolve(c)
  PROVE  Shape' /\ Others(c) /\ Fit(c)' /\ Stopping(c)'
<1> DEFINE using == ResolveGraders(job[c].graders, ResponseFamilies(c))
           locals == [job[c] EXCEPT !.using = using]
<1>1. cmd[c].at = "resolve" /\ Steady(job[c]) /\ cmd[c].exit # "ok"
  BY Unblocked DEF Resolve, At, Ending
<1>2. CASE Fails(c, "error")
  <2>1. Leaves(c)
    BY <1>1, <1>2, EndsWith
  <2>2. QED
    BY <2>1 DEF Leaves, Fit
<1>3. CASE Moves(c, "comparing", locals) /\ \A i \in DOMAIN using : using[i] # NoGrader
  <2>1. Steady(locals)
    BY <1>1 DEF Steady, Fields
  <2>2. locals.using = using /\ locals.phase = job[c].phase /\ locals.specs = job[c].specs
        /\ locals.todo = job[c].todo
    BY <1>1 DEF Steady, Fields
  <2>3. \A i \in DOMAIN using : ~SharesFamily(using[i], ResponseFamilies(c))
    BY <1>3, ResolvedApart
  <2> HIDE DEF locals, using
  <2>4. Shape' /\ Others(c) /\ cmd'[c].at = "comparing" /\ cmd'[c].exit = cmd[c].exit /\ job'[c] = locals
    BY <1>3, <2>1, MovesTo DEF IInv, Steady
  <2>5. ResponseFamilies(c)' = ResponseFamilies(c)
    BY <2>2, <2>4, SameFamilies
  <2>6. Fit(c)'
    BY <2>2, <2>3, <2>4, <2>5 DEF Fit, SharesFamily
  <2>7. Stopping(c)'
    BY <1>1, <2>1, <2>4 DEF Stopping, Steady
  <2>8. QED
    BY <2>4, <2>6, <2>7
<1>4. QED
  BY <1>2, <1>3 DEF Resolve

LEMMA CompareCaseLeaves ==
  ASSUME IInv, NEW c \in Commands, CompareCase(c) PROVE Leaves(c)
<1>1. cmd[c].at = "comparing" /\ Steady(job[c]) /\ cmd[c].exit # "ok"
  BY Unblocked DEF CompareCase, At, Ending
<1>2. CASE Fails(c, "error")
  BY <1>1, <1>2, EndsWith
<1>3. ASSUME NEW v, NEW step \in {"cover", "compared"},
             Moves(c, step, [job[c] EXCEPT !.verdict = v, !.using = <<>>])
      PROVE  Leaves(c)
  <2>1. Steady([job[c] EXCEPT !.verdict = v, !.using = <<>>])
    BY <1>1 DEF Steady, Fields
  <2>2. QED
    BY <1>1, <1>3, <2>1, GoesOn
<1>4. QED
  BY <1>2, <1>3 DEF CompareCase

LEMMA InsertSentinelLeaves ==
  ASSUME IInv, NEW c \in Commands, InsertSentinel(c) PROVE Leaves(c)
<1> DEFINE locals == [job[c] EXCEPT !.todo = Tail(@), !.verdict = "none"]
<1>1. cmd[c].at = "compared" /\ Steady(job[c]) /\ cmd[c].exit # "ok"
  BY Unblocked DEF InsertSentinel, At, Ending
<1>2. CASE Fails(c, "error")
  BY <1>1, <1>2, EndsWith
<1>3. CASE \E step \in {"finishing", "resolve"} : Moves(c, step, locals)
  <2>1. Steady(locals)
    BY <1>1 DEF Steady, Fields
  <2> HIDE DEF locals
  <2>2. QED
    BY <1>1, <1>3, <2>1, GoesOn
<1>4. QED
  BY <1>2, <1>3 DEF InsertSentinel

LEMMA TallyLeaves ==
  ASSUME IInv, NEW c \in Commands, Tally(c) PROVE Leaves(c)
<1> DEFINE tallied == [job[c] EXCEPT !.todo = Tail(@), !.verdict = "none", !.result =
                         IF job[c].again THEN @ ELSE Tallied(@, FamilyAt(c), job[c].verdict)]
           repeated == [tallied EXCEPT !.again = TRUE, !.todo = FragilityCases(c)]
           closed == [tallied EXCEPT !.again = FALSE]
<1>1. cmd[c].at = "compared" /\ Steady(job[c]) /\ cmd[c].exit # "ok"
  BY Unblocked DEF Tally, At, Ending
<1>2. Steady(tallied)
  BY <1>1 DEF Steady, Fields
<1>3. Steady(repeated) /\ Steady(closed)
  <2> HIDE DEF tallied
  <2>1. Steady(repeated)
    BY <1>2 DEF Steady, Fields
  <2>2. Steady(closed)
    BY <1>2 DEF Steady, Fields
  <2>3. QED
    BY <2>1, <2>2
<1>4. \/ \E step \in {"pool", "resolve"} : Moves(c, step, tallied)
      \/ Moves(c, "pool", repeated)
      \/ Moves(c, "summary", closed)
  BY DEF Tally
<1> HIDE DEF tallied, repeated, closed
<1>5. QED
  BY <1>1, <1>2, <1>3, <1>4, GoesOn

LEMMA SummariseLeaves ==
  ASSUME IInv, NEW c \in Commands, Summarise(c) PROVE Leaves(c)
<1>1. cmd[c].at = "summary" /\ Steady(job[c]) /\ cmd[c].exit # "ok"
  BY Unblocked DEF Summarise, At, Ending
<1>2. CASE Fails(c, "error")
  BY <1>1, <1>2, EndsWith
<1>3. ASSUME NEW p, Moves(c, "upsert", [job[c] EXCEPT !.result.profile = p])
      PROVE  Leaves(c)
  <2>1. Steady([job[c] EXCEPT !.result.profile = p])
    BY <1>1 DEF Steady, Fields
  <2>2. QED
    BY <1>1, <1>3, <2>1, GoesOn
<1>4. QED
  BY <1>2, <1>3 DEF Summarise

LEMMA CoverLeaves ==
  ASSUME IInv, NEW c \in Commands, Cover(c) PROVE Leaves(c)
<1>1. cmd[c].at = "cover" /\ Steady(job[c]) /\ cmd[c].exit # "ok"
  BY Unblocked DEF Cover, At, Ending
<1>2. CASE Fails(c, "error")
  BY <1>1, <1>2, EndsWith
<1>3. CASE Moves(c, "compared", job[c])
  BY <1>1, <1>3, GoesOn
<1>4. QED
  BY <1>2, <1>3 DEF Cover

LEMMA CloseCaseLeaves ==
  ASSUME IInv, NEW c \in Commands, CloseCase(c) PROVE Leaves(c)
<1> DEFINE closed == [job[c] EXCEPT !.result.net = @ + Worth(job[c].verdict), !.todo = Tail(@),
                                    !.again = FALSE, !.verdict = "none"]
           repeated == [job[c] EXCEPT !.again = TRUE, !.verdict = "none"]
<1>1. cmd[c].at = "compared" /\ Steady(job[c]) /\ cmd[c].exit # "ok"
  BY Unblocked DEF CloseCase, At, Ending
<1>2. Steady(closed)
  BY <1>1 DEF Steady, Fields
<1>3. Steady(repeated)
  BY <1>1 DEF Steady, Fields
<1>4. \/ \E step \in {"pool", "upsert"} : Moves(c, step, closed)
      \/ Moves(c, "pool", repeated)
  BY DEF CloseCase
<1> HIDE DEF closed, repeated
<1>5. QED
  BY <1>1, <1>2, <1>3, <1>4, GoesOn

LEMMA UpsertLeaves ==
  ASSUME IInv, NEW c \in Commands, Find(c) \/ Refresh(c) \/ Insert(c) PROVE Leaves(c)
<1>1. cmd[c].at \in {"upsert", "refresh", "insert"} /\ Steady(job[c]) /\ cmd[c].exit # "ok"
  BY Unblocked DEF Find, Refresh, Insert, At, Ending
<1>2. CASE Fails(c, "error")
  BY <1>1, <1>2, EndsWith
<1>3. CASE \E step \in {"refresh", "insert", "readRow"} : Moves(c, step, job[c])
  BY <1>1, <1>3, GoesOn
<1>4. QED
  BY <1>2, <1>3 DEF Find, Refresh, Insert

LEMMA PromoteLeaves ==
  ASSUME IInv, NEW c \in Commands, Promote(c) PROVE Leaves(c)
<1>1. cmd[c].at = "promote" /\ Steady(job[c]) /\ cmd[c].exit # "ok"
  BY Unblocked DEF Promote, At, Ending
<1>2. CASE Returned(c, "error")
  BY <1>1, <1>2, EndsWith
<1>3. ASSUME NEW decision, Moves(c, "readRow", [job[c] EXCEPT !.result.promote = decision])
      PROVE  Leaves(c)
  <2>1. Steady([job[c] EXCEPT !.result.promote = decision])
    BY <1>1 DEF Steady, Fields
  <2>2. QED
    BY <1>1, <1>3, <2>1, GoesOn
<1>4. QED
  BY <1>2, <1>3 DEF Promote

LEMMA ReadRowLeaves ==
  ASSUME IInv, NEW c \in Commands, ReadRow(c) PROVE Leaves(c)
<1>1. cmd[c].at = "readRow" /\ Steady(job[c]) /\ cmd[c].exit # "ok"
  BY Unblocked DEF ReadRow, At, Ending
<1>2. CASE StoreFails(c)
  BY <1>1, <1>2, EndsWith DEF StoreFails
<1>3. CASE Moves(c, "writeRow", [job[c] EXCEPT !.row = candidates[Row(c)]])
  <2>1. Steady([job[c] EXCEPT !.row = candidates[Row(c)]])
    BY <1>1 DEF Steady, Fields
  <2>2. QED
    BY <1>1, <1>3, <2>1, GoesOn
<1>4. QED
  BY <1>2, <1>3 DEF ReadRow

LEMMA WriteRowLeaves ==
  ASSUME IInv, NEW c \in Commands, WriteRow(c) PROVE Leaves(c)
<1> DEFINE clean == [job[c] EXCEPT !.row = NoRow, !.result = NoResult]
           next == [clean EXCEPT !.specs = Tail(@)]
<1>1. cmd[c].at = "writeRow" /\ Steady(job[c]) /\ cmd[c].exit # "ok"
  BY Unblocked DEF WriteRow, At, Ending
<1>2. Steady(clean)
  BY <1>1 DEF Steady, Fields
<1>3. Steady(next)
  <2> HIDE DEF clean
  <2>1. QED
    BY <1>2 DEF Steady, Fields
<1>4. \/ StoreFails(c)
      \/ Moves(c, "screenOne", next)
      \/ \E step \in {"returned", "finishing"} : Moves(c, step, clean)
  BY DEF WriteRow
<1>5. CASE StoreFails(c)
  BY <1>1, <1>5, EndsWith DEF StoreFails
<1> HIDE DEF clean, next
<1>6. QED
  BY <1>1, <1>2, <1>3, <1>4, <1>5, GoesOn

LEMMA CompleteLeaves ==
  ASSUME IInv, NEW c \in Commands, Complete(c) PROVE Leaves(c)
<1>1. cmd[c].at = "finishing" /\ Steady(job[c]) /\ cmd[c].exit # "ok"
  BY Unblocked DEF Complete, At, Ending
<1>2. CASE Returned(c, "error")
  BY <1>1, <1>2, EndsWith
<1>3. CASE Returned(c, "none")
  <2>1. Steady([job[c] EXCEPT !.err = "none"])
    BY <1>1 DEF Steady, Fields
  <2>2. QED
    BY <1>1, <1>3, <2>1, GoesOn DEF Returned
<1>4. QED
  BY <1>2, <1>3 DEF Complete

\* The error that brought the command here is the one that is returned.
LEMMA FailRunLeaves ==
  ASSUME IInv, NEW c \in Commands, FailRun(c) PROVE Leaves(c)
<1>1. cmd[c].at = "failing" /\ Returned(c, job[c].err) /\ job[c].err \in {"none", "error", "drift"}
      /\ cmd[c].exit # "ok"
  BY DEF FailRun, At, IInv, Stopping
<1>2. CASE job[c].err = "none"
  <2>1. Steady([job[c] EXCEPT !.err = "none"])
    BY <1>1, <1>2 DEF IInv, Shape, Stopping, Steady, Fields
  <2>2. QED
    BY <1>1, <1>2, <2>1, GoesOn DEF Returned
<1>3. CASE job[c].err # "none"
  BY <1>1, <1>3, EndsWith
<1>4. QED
  BY <1>2, <1>3

\* From settling to the report, the error stays.
LEMMA Closing ==
  ASSUME IInv, NEW c \in Commands, cmd[c].at \in {"returned", "settle"}, NEW step \in {"settle", "report"},
         NEW locals, Fields \subseteq DOMAIN locals, locals.err = job[c].err,
         locals.drifted = job[c].drifted, Moves(c, step, locals)
  PROVE  Leaves(c)
<1>1. Shape' /\ Others(c) /\ cmd'[c].at = step /\ cmd'[c].exit = cmd[c].exit /\ job'[c] = locals
  BY MovesTo DEF IInv
<1>2. QED
  BY <1>1 DEF Leaves, IInv, Stopping, Ending

LEMMA CommandReturnsLeaves ==
  ASSUME IInv, NEW c \in Commands, CommandReturns(c) PROVE Leaves(c)
<1>1. cmd[c].at = "returned" /\ cmd[c].exit # "ok" /\ (job[c].drifted => job[c].err # "none")
  BY DEF CommandReturns, At, IInv, Stopping
<1>2. CASE job[c].err = "none" /\ Moves(c, "promote", [job[c] EXCEPT !.phase = "promotion"])
  <2>1. Steady([job[c] EXCEPT !.phase = "promotion"])
    BY <1>1, <1>2 DEF IInv, Shape, Stopping, Steady, Fields
  <2>2. QED
    BY <1>1, <1>2, <2>1, GoesOn
<1>3. CASE Exits(c, Code(job[c].err)) /\ UNCHANGED job
  BY <1>1, <1>3, ExitLeaves DEF Code
<1>4. QED
  BY <1>2, <1>3 DEF CommandReturns

LEMMA SettleWeekLeaves ==
  ASSUME IInv, NEW c \in Commands, SettleWeek(c) PROVE Leaves(c)
<1>1. cmd[c].at = "settle" /\ (job[c].drifted => job[c].err # "none")
  BY DEF SettleWeek, At, IInv, Stopping
<1>2. CASE Moves(c, "report", job[c])
  BY <1>1, <1>2, Closing DEF IInv, Shape
<1>3. CASE Exits(c, Code(job[c].err)) /\ UNCHANGED job
  BY <1>1, <1>3, ExitLeaves DEF Code
<1>4. QED
  BY <1>2, <1>3 DEF SettleWeek

LEMMA WriteReportLeaves ==
  ASSUME IInv, NEW c \in Commands, WriteReport(c) PROVE Leaves(c)
<1>1. cmd[c].at = "report" /\ (job[c].drifted => job[c].err # "none") /\ job' = job
  BY DEF WriteReport, At, IInv, Stopping
<1>2. CASE Exits(c, Code(job[c].err))
  BY <1>1, <1>2, ExitLeaves DEF Code
<1>3. CASE Exits(c, "error")
  BY <1>1, <1>3, ExitLeaves
<1>4. QED
  BY <1>2, <1>3 DEF WriteReport

\* The functions weekly calls begin with fresh locals.
LEMMA BeginsLeaves ==
  ASSUME IInv, NEW c \in Commands, cmd[c].exit # "ok", NEW phase, NEW specs, Begins(c, phase, specs)
  PROVE  Leaves(c)
<1> DEFINE locals == [Idle EXCEPT !.phase = phase, !.week = job[c].week, !.specs = specs]
<1>1. Fields \subseteq DOMAIN Idle /\ Idle.err = "none" /\ ~Idle.drifted
  BY DEF Idle, Fields
<1>2. Steady(locals)
  BY <1>1 DEF Steady, Fields
<1>3. Moves(c, "enter", locals)
  BY DEF Begins
<1> HIDE DEF locals
<1>4. QED
  BY <1>2, <1>3, GoesOn

LEMMA SettlesLeaves ==
  ASSUME IInv, NEW c \in Commands, cmd[c].at = "returned", Settles(c)
  PROVE  Leaves(c)
<1> DEFINE locals == [job[c] EXCEPT !.specs = <<>>, !.todo = <<>>, !.graders = <<>>]
<1>1. Fields \subseteq DOMAIN locals /\ locals.err = job[c].err /\ locals.drifted = job[c].drifted
  BY DEF IInv, Shape, Fields
<1>2. Moves(c, "settle", locals)
  BY DEF Settles
<1> HIDE DEF locals
<1>3. QED
  BY <1>1, <1>2, Closing

LEMMA ForEachLeaves ==
  ASSUME IInv, NEW c \in Commands, cmd[c].at = "returned", cmd[c].exit # "ok", NEW specs,
         ForEach(c, specs)
  PROVE  Leaves(c)
<1>1. Begins(c, "compare", specs) \/ Begins(c, "adopted", specs) \/ Settles(c)
  BY DEF ForEach
<1>2. QED
  BY <1>1, BeginsLeaves, SettlesLeaves

LEMMA NextStepLeaves ==
  ASSUME IInv, NEW c \in Commands, NextStep(c) PROVE Leaves(c)
<1>1. cmd[c].at = "returned" /\ cmd[c].exit # "ok" /\ (job[c].drifted => job[c].err # "none")
  BY DEF NextStep, At, IInv, Stopping
<1>2. CASE Settles(c)
  BY <1>1, <1>2, SettlesLeaves
<1>3. CASE \E phase, specs : Begins(c, phase, specs)
  BY <1>1, <1>3, BeginsLeaves
<1>4. CASE \E specs : ForEach(c, specs)
  BY <1>1, <1>4, ForEachLeaves
<1>5. ASSUME NEW step \in {"enter", "promote"}, NEW phase, job[c].err = "none",
             Moves(c, step, [job[c] EXCEPT !.phase = phase])
      PROVE  Leaves(c)
  <2>1. Steady([job[c] EXCEPT !.phase = phase])
    BY <1>1, <1>5 DEF IInv, Shape, Stopping, Steady, Fields
  <2>2. QED
    BY <1>1, <1>5, <2>1, GoesOn
<1>6. ASSUME job[c].err = "none", TakeCandidates(c) PROVE Leaves(c)
  <2>1. CASE Moves(c, "settle", [job[c] EXCEPT !.err = "error"])
    <3>1. Steady([job[c] EXCEPT !.err = "error"])
      BY <1>1, <1>6 DEF IInv, Shape, Stopping, Steady, Fields
    <3>2. QED
      BY <1>1, <2>1, <3>1, GoesOn
  <2>2. QED
    BY <1>3, <1>4, <1>6, <2>1 DEF TakeCandidates
<1>7. CASE job[c].err # "none"
  BY <1>2, <1>7 DEF NextStep
<1>8. CASE job[c].err = "none" /\ (In(c, "weekly") \/ In(c, "sentinel"))
  <2>1. TakeCandidates(c) \/ Begins(c, "sentinel", <<>>)
    <3>1. CASE In(c, "weekly")
      BY <1>8, <3>1 DEF NextStep, In
    <3>2. CASE In(c, "sentinel")
      BY <1>8, <3>2 DEF NextStep, In
    <3>3. QED
      BY <1>8, <3>1, <3>2
  <2>2. QED
    BY <1>3, <1>6, <1>8, <2>1
<1>9. CASE job[c].err = "none" /\ ~In(c, "weekly") /\ ~In(c, "sentinel")
  BY <1>4, <1>5, <1>9 DEF NextStep
<1>10. QED
  BY <1>7, <1>8, <1>9

\* A new invocation, or none where the process was killed.
LEMMA Renewed ==
  ASSUME IInv, NEW c \in Commands, NEW script, cmd' = [cmd EXCEPT ![c] = Invocation(script)],
         job' = [job EXCEPT ![c] = Idle]
  PROVE  Leaves(c)
<1>1. /\ {"at", "exit"} \subseteq DOMAIN Invocation(script)
      /\ Invocation(script).at \in {"done", "start"} /\ Invocation(script).exit = "none"
  BY DEF Invocation
<1>2. Fields \subseteq DOMAIN Idle /\ Idle.err = "none" /\ ~Idle.drifted
  BY DEF Idle, Fields
<1>3. /\ DOMAIN cmd' = Commands /\ DOMAIN job' = Commands
      /\ cmd'[c] = Invocation(script) /\ job'[c] = Idle /\ Others(c)
  BY DEF IInv, Shape, Others
<1>4. Shape'
  BY <1>1, <1>2, <1>3 DEF IInv, Shape, Others
<1>5. QED
  BY <1>1, <1>2, <1>3, <1>4 DEF Leaves, Stopping

LEMMA NextInvocationLeaves ==
  ASSUME IInv, NEW c \in Commands, NextInvocation(c) PROVE Leaves(c)
<1>1. cmd' = [cmd EXCEPT ![c] = Invocation(Tail(cmd[c].script))] /\ job' = [job EXCEPT ![c] = Idle]
  BY DEF NextInvocation
<1>2. QED
  BY <1>1, Renewed

LEMMA KillLeaves ==
  ASSUME IInv, NEW c \in Commands, Kill(c) PROVE Leaves(c)
  BY Renewed DEF Kill

\* Another command calibrates: the row of a grader says nothing of its family.
LEMMA GradersStepLeaves ==
  ASSUME IInv, NEW c \in Commands, GradersStep(c), UNCHANGED job
  PROVE  Leaves(c)
<1>1. cmd[c].at \in {"sync", "calibrate", "withdraw", "grade", "decide", "recordFailure"}
  BY DEF GradersStep, SyncEntry, Synced, StartCalibration, Withdraw, GradeItems, Decide, RecordFailure, At
<1>2. Steady(job[c]) /\ cmd[c].exit # "ok"
  BY <1>1, Unblocked DEF Ending
<1>3. ASSUME /\ DOMAIN cmd' = Commands /\ \A d \in Commands \ {c} : cmd'[d] = cmd[d]
             /\ {"at", "exit"} \subseteq DOMAIN cmd'[c]
             /\ cmd'[c].at # "comparing" /\ (cmd'[c].at # "exited" => cmd'[c].exit # "ok")
      PROVE  Leaves(c)
  <2>1. Shape' /\ Others(c)
    BY <1>3 DEF IInv, Shape, Others
  <2>2. QED
    BY <1>2, <1>3, <2>1 DEF Leaves, Stopping, Steady
<1>4. ASSUME NEW step \in {"recordFailure", "grade"}, Go(c, step) PROVE Leaves(c)
  BY <1>2, <1>3, <1>4 DEF Go, IInv, Shape
<1>5. ASSUME NEW code, Exits(c, code) PROVE Leaves(c)
  BY <1>2, <1>5, ExitLeaves DEF Steady
<1>6. ASSUME NEW how, NextTarget(c, how) PROVE Leaves(c)
  <2>1. PICK code, todo, failed, row :
          cmd' = [cmd EXCEPT ![c].todo = todo, ![c].failed = failed, ![c].row = row,
                             ![c].at = IF Len(cmd[c].todo) = 1 THEN "exited" ELSE "calibrate",
                             ![c].exit = IF Len(cmd[c].todo) = 1 THEN code ELSE "none"]
    BY <1>6 DEF NextTarget
  <2>2. QED
    BY <1>3, <2>1 DEF IInv, Shape
<1>7. CASE SyncEntry(c)
  <2>1. Exits(c, "error") \/ cmd' = [cmd EXCEPT ![c].pos = @ + 1]
    BY <1>7 DEF SyncEntry
  <2>2. CASE cmd' = [cmd EXCEPT ![c].pos = @ + 1]
    BY <1>1, <1>2, <1>3, <2>2 DEF IInv, Shape
  <2>3. QED
    BY <1>5, <2>1, <2>2
<1>8. CASE Synced(c)
  <2>1. CASE cmd' = [cmd EXCEPT ![c].at = "calibrate", ![c].todo = Targets(c), ![c].failed = {}]
    BY <1>2, <1>3, <2>1 DEF IInv, Shape
  <2>2. QED
    BY <1>5, <1>8, <2>1 DEF Synced
<1>9. CASE StartCalibration(c)
  <2>1. CASE cmd' = [cmd EXCEPT ![c].at = "withdraw", ![c].row = configs[Target(c)].calibration]
    BY <1>2, <1>3, <2>1 DEF IInv, Shape
  <2>2. QED
    BY <1>4, <1>9, <2>1 DEF StartCalibration
<1>10. CASE Withdraw(c)
  BY <1>4, <1>10 DEF Withdraw
<1>11. CASE GradeItems(c)
  <2>1. ASSUME NEW n, cmd' = [cmd EXCEPT ![c].at = "decide", ![c].row = [kind |-> "graded", reversals |-> n]]
        PROVE  Leaves(c)
    BY <1>2, <1>3, <2>1 DEF IInv, Shape
  <2>2. QED
    BY <1>4, <1>11, <2>1 DEF GradeItems
<1>12. CASE Decide(c)
  BY <1>4, <1>6, <1>12 DEF Decide
<1>13. CASE RecordFailure(c)
  BY <1>6, <1>13 DEF RecordFailure
<1>14. QED
  BY <1>7, <1>8, <1>9, <1>10, <1>11, <1>12, <1>13 DEF GradersStep

-----------------------------------------------------------------------------
(***************************************************************************)
(* The invariant and what follows from it.                                 *)
(***************************************************************************)

LEMMA InitIInv == Init => IInv
<1> SUFFICES ASSUME Init PROVE IInv
  OBVIOUS
<1>1. /\ Fields \subseteq DOMAIN Idle
      /\ Idle.err = "none" /\ ~Idle.drifted
  BY DEF Idle, Fields
<1>2. ASSUME NEW script
      PROVE  /\ {"at", "exit"} \subseteq DOMAIN Invocation(script)
             /\ Invocation(script).at \in {"done", "start"} /\ Invocation(script).exit = "none"
  BY DEF Invocation
<1>3. DOMAIN cmd = Commands /\ DOMAIN job = Commands
  BY DEF Init
<1>4. ASSUME NEW c \in Commands PROVE cmd[c] = Invocation(plan.script[c]) /\ job[c] = Idle
  BY DEF Init
<1>5. QED
  BY <1>1, <1>2, <1>3, <1>4 DEF IInv, Shape, Fit, Stopping

\* The commands a step does not touch keep both parts.
LEMMA OneAtATime ==
  ASSUME IInv, NEW c \in Commands, Shape', Others(c), Fit(c)', Stopping(c)'
  PROVE  IInv'
<1>1. ASSUME NEW d \in Commands, d # c PROVE Fit(d)' /\ Stopping(d)'
  <2>1. cmd'[d] = cmd[d] /\ job'[d] = job[d]
    BY <1>1 DEF Others
  <2>2. ResponseFamilies(d)' = ResponseFamilies(d)
    BY <2>1, SameFamilies
  <2>3. Fit(d)'
    BY <2>1, <2>2 DEF IInv, Fit, SharesFamily
  <2>4. QED
    BY <2>1, <2>3 DEF IInv, Stopping
<1>2. QED
  BY <1>1 DEF IInv

LEMMA StepIInv == IInv /\ [Next]_vars => IInv'
<1> SUFFICES ASSUME IInv, [Next]_vars PROVE IInv'
  OBVIOUS
<1>1. ASSUME NEW c \in Commands, Leaves(c) PROVE IInv'
  BY <1>1, OneAtATime DEF Leaves, Fit
<1>2. ASSUME NEW c \in Commands, Command(c) PROVE IInv'
  <2>1. CASE GradersStep(c) /\ UNCHANGED <<db, job, plan>>
    BY <1>1, <2>1, GradersStepLeaves
  <2>2. CASE Resolve(c)
    BY <2>2, ResolveFits, OneAtATime
  <2>3. CASE Open(c) \/ Load(c) \/ CheckPack(c) \/ Enter(c) \/ Create(c) \/ MarkRunning(c)
    BY <1>1, <2>3, OpenLeaves, LoadLeaves, CheckPackLeaves, EnterLeaves, CreateLeaves, MarkRunningLeaves
  <2>4. CASE Pair(c) \/ CheckDrift(c) \/ Block(c) \/ Baselines(c) \/ Cases(c)
    BY <1>1, <2>4, PairLeaves, CheckDriftLeaves, BlockLeaves, BaselinesLeaves, CasesLeaves
  <2>5. CASE Generate(c) \/ GenerateCouncils(c) \/ GradeAll(c) \/ CompareCase(c) \/ InsertSentinel(c)
    BY <1>1, <2>5, GenerateLeaves, GradeAllLeaves, CompareCaseLeaves, InsertSentinelLeaves
  <2>6. CASE Tally(c) \/ Summarise(c) \/ Cover(c) \/ CloseCase(c)
    BY <1>1, <2>6, TallyLeaves, SummariseLeaves, CoverLeaves, CloseCaseLeaves
  <2>7. CASE Find(c) \/ Refresh(c) \/ Insert(c) \/ Promote(c) \/ ReadRow(c) \/ WriteRow(c)
    BY <1>1, <2>7, UpsertLeaves, PromoteLeaves, ReadRowLeaves, WriteRowLeaves
  <2>8. CASE Complete(c) \/ FailRun(c) \/ CommandReturns(c) \/ NextStep(c)
    BY <1>1, <2>8, CompleteLeaves, FailRunLeaves, CommandReturnsLeaves, NextStepLeaves
  <2>9. CASE SettleWeek(c) \/ WriteReport(c) \/ NextInvocation(c)
    BY <1>1, <2>9, SettleWeekLeaves, WriteReportLeaves, NextInvocationLeaves
  <2>10. QED
    BY <1>2, <2>1, <2>2, <2>3, <2>4, <2>5, <2>6, <2>7, <2>8, <2>9 DEF Command
<1>3. ASSUME NEW c \in Commands, Kill(c) PROVE IInv'
  BY <1>1, <1>3, KillLeaves
<1>4. ASSUME UNCHANGED vars PROVE IInv'
  <2>1. cmd' = cmd /\ job' = job
    BY <1>4 DEF vars
  <2>2. \A d : ResponseFamilies(d)' = ResponseFamilies(d)
    BY <2>1, SameFamilies
  <2>3. Shape' /\ \A d \in Commands : Fit(d)' /\ Stopping(d)'
    BY <2>1, <2>2 DEF IInv, Shape, Fit, Stopping, SharesFamily
  <2>4. QED
    BY <2>3 DEF IInv
<1>5. QED
  BY <1>2, <1>3, <1>4 DEF Next, AllEnded

LEMMA AlwaysIInv == Spec => []IInv
  BY InitIInv, StepIInv, PTL DEF Spec

\* R-12 (sentinel.go, resolveGraders): however many commands run beside each
\* other and whatever graders calibrate does between them, no comparison is made
\* by a grader of the family of one of the responses it compares.
THEOREM NoSameFamilyVerdictHolds == Spec => []NoSameFamilyVerdict
<1>1. IInv => NoSameFamilyVerdict
  BY DEF IInv, Fit, NoSameFamilyVerdict, At
<1>2. QED
  BY <1>1, AlwaysIInv, PTL

\* CheckDrift of weekly.go, compare.go and downstream.go: after drift that blocks
\* an invocation generates, grades and compares nothing, and does not exit with ok.
THEOREM DriftStopsHolds == Spec => []DriftStops
<1>1. IInv => DriftStops
  <2> SUFFICES ASSUME IInv, NEW c \in Commands, job[c].drifted
               PROVE  /\ cmd[c].at \in {"blocked", "failing", "returned", "settle", "report", "exited"}
                      /\ cmd[c].exit # "ok"
    BY DEF DriftStops
  <2>1. QED
    BY DEF IInv, Stopping, Ending
<1>2. QED
  BY <1>1, AlwaysIInv, PTL

-----------------------------------------------------------------------------
(***************************************************************************)
(* The second invariant: what each command holds of the rows of the runs   *)
(* and of the candidates.                                                  *)
(***************************************************************************)

JobFields == Fields \cup {"week", "run", "graders", "verdict", "again", "result", "row"}

CmdFields == {"at", "script", "pos", "todo", "row", "failed", "exit"}

\* Before a row is created: the files are read, the graders' rows written.
Opening == {"start", "load", "check", "sync", "calibrate", "withdraw", "grade", "decide", "recordFailure"}

\* Between the creation of a row and the statement that settles it.
Working == {"running", "pair", "drift", "blocked", "baselines", "cases", "screenOne", "pool", "grading",
            "resolve", "comparing", "compared", "cover", "summary", "upsert", "refresh", "insert", "readRow",
            "writeRow", "finishing", "failing"}

Asking == {"pool", "grading", "resolve", "comparing", "compared", "cover"}

\* The invocation at hand is one of the plan's, and the locals are whole.
Tidy(c) ==
  /\ JobFields \subseteq DOMAIN job[c] /\ CmdFields \subseteq DOMAIN cmd[c]
  /\ cmd[c].script \in Seq(Invocations) /\ (cmd[c].at # "done" => cmd[c].script # <<>>)
  /\ cmd[c].exit \in Codes
  /\ cmd[c].at \in {"withdraw", "grade", "decide"} => Head(cmd[c].todo) \in Hashes
  /\ cmd[c].at \in Opening \cup {"done"} => job[c].week = 0 /\ job[c].run = 0
  /\ In(c, "weekly") /\ cmd[c].at \in {"enter", "create", "running"} => job[c].week = 0
  /\ In(c, "adopted") => job[c].week # 0
  /\ In(c, "promotion") =>
       cmd[c].at \notin (Opening \cup {"enter", "create"} \cup Working) \ {"readRow", "writeRow"}
  /\ cmd[c].at = "create" => ~In(c, "downstream")
  /\ cmd[c].at = "check" => In(c, "weekly")
  /\ cmd[c].at = "promote" => In(c, "promotion")
  /\ cmd[c].at \in {"start", "sync"} => cmd[c].pos \in Nat \ {0}
  /\ DOMAIN job[c].result = DOMAIN NoResult /\ job[c].result.hard \in Int

\* Screening has one grader from its row on, the others have two from Pair on.
Equipment(step, locals) ==
  /\ locals.phase = "screen"
     /\ step \in {"create", "running", "screenOne", "upsert", "refresh", "insert", "readRow", "writeRow"}
                 \cup Asking
     => Len(locals.graders) = 1
  /\ step = "screenOne" => locals.phase = "screen"
  /\ step \in {"pair", "drift", "cases", "baselines"} => locals.phase # "screen"
  /\ locals.phase # "screen" /\ step \in Asking \cup {"cases", "baselines"} => Len(locals.graders) = 2
  /\ locals.phase = "sentinel" /\ step = "drift" => Len(locals.graders) = 2
  /\ step = "summary" => locals.phase = "compare"
  /\ step \in {"upsert", "refresh", "insert"} => locals.phase \in {"screen", "compare", "downstream"}
  /\ step \in {"readRow", "writeRow"} => locals.phase \in {"screen", "compare", "downstream", "promotion"}

Comparing == {"compare", "adopted", "downstream", "promotion"}

\* The row a command works on exists; it is its own when it marks it running, and
\* so is the row of its week.
Ranged(c) ==
  /\ job[c].run \in 0..Len(runs) /\ job[c].week \in 0..Len(runs)
  /\ \/ cmd[c].at \in Working
     \/ cmd[c].at = "enter" /\ In(c, "downstream")
     \/ cmd[c].at = "returned" /\ job[c].phase \in {"compare", "adopted"} /\ job[c].err = "none"
     => job[c].run # 0
  /\ cmd[c].at = "running" => runs[job[c].run].by = c
  /\ job[c].week # 0 => runs[job[c].week].by = c
  /\ job[c].phase \in Comparing /\ job[c].run # 0 => runs[job[c].run].kind = "compare"

\* Who still has to settle row r: the function that works on it, Downstream where
\* weekly has begun the row for it, or weekly itself.
Holds(c, r) ==
  \/ /\ job[c].run = r
     /\ \/ cmd[c].at \in Working /\ ~In(c, "promotion")
        \/ cmd[c].at = "returned" /\ In(c, "adopted") /\ job[c].err = "none"
        \/ cmd[c].at = "enter" /\ In(c, "downstream")
  \/ job[c].week = r /\ cmd[c].at \notin {"report", "exited"}

\* Every row that is open has someone who will settle it.
Accounted(c) ==
  /\ Runs(c) => \A r \in DOMAIN runs :
       runs[r].by = c /\ runs[r].lost = "none" => runs[r].status \in Final \/ Holds(c, r)
  /\ cmd[c].at = "exited" /\ job[c].week # 0 /\ Has(c, "report") => job[c].week \in reported

\* A run another command may be given: it has ended, or a candidate of it has been
\* compared.
Available(r) ==
  \/ runs[r].status \in Final
  \/ \E x \in DOMAIN candidates : x[1] = r /\ candidates[x].compare # <<>>

\* Before there is the result of a comparison, a run is its command's own.
BeforeResult(c) ==
  \/ cmd[c].at = "running"
  \/ job[c].phase \in {"screen", "compare"} /\ cmd[c].at \in Working \ {"finishing", "failing"}

Uncompared(c) == BeforeResult(c) => runs[job[c].run].by = c /\ ~Available(job[c].run)

\* On the run of another command there is only Downstream.
Borrowed(c) ==
  /\ cmd[c].at \in {"enter", "create", "promote", "returned"} \cup Working
  /\ job[c].run # 0 /\ runs[job[c].run].by # c
  => job[c].phase \in {"downstream", "promotion"} /\ job[c].week = 0 /\ Available(job[c].run)

Passes(result) == ~result.priority /\ result.hard >= 0 /\ result.profile # "poor"

\* What PromotionHasEvidence says of one row.
Founded(row) ==
  /\ DOMAIN row = DOMAIN NoRow
  /\ row.compare # <<>> => row.compare[1].hard \in Int
  /\ row.promotion # <<>> =>
       /\ row.compare # <<>> /\ row.downstream # <<>>
       /\ row.promotion[1] => Passes(row.compare[1])

\* A row that was read is still true of what others do not write.
Snapshot(c) ==
  cmd[c].at \in {"refresh", "readRow", "writeRow"} =>
    /\ Row(c) \in DOMAIN candidates
    /\ cmd[c].at = "writeRow" =>
         /\ Founded(job[c].row)
         /\ job[c].row.compare = candidates[Row(c)].compare
         /\ job[c].phase \in {"screen", "compare"} => job[c].row = candidates[Row(c)]
         /\ In(c, "promotion") => job[c].row.downstream # <<>>

\* What Promotion has decided on does not change any more.
Judged(c) ==
  In(c, "promotion") /\ cmd[c].at \in {"readRow", "writeRow"} =>
    /\ candidates[Row(c)].compare # <<>> /\ candidates[Row(c)].downstream # <<>>
    /\ job[c].result.promote => Passes(candidates[Row(c)].compare[1])

\* Only graders that have earned it are chosen.
Qualified(c) ==
  /\ ToSet(job[c].graders) \subseteq earned
  /\ cmd[c].at = "comparing" => ToSet(job[c].using) \subseteq earned

Mine(c) ==
  /\ Tidy(c) /\ Equipment(cmd[c].at, job[c]) /\ Ranged(c) /\ Accounted(c)
  /\ Uncompared(c) /\ Borrowed(c) /\ Snapshot(c) /\ Judged(c) /\ Qualified(c)

GradersRight ==
  /\ DOMAIN configs \subseteq Hashes /\ earned \subseteq Hashes
  /\ Admitted(DOMAIN configs) \subseteq earned
  /\ \A h \in DOMAIN configs :
       /\ {"key", "role", "admitted", "calibration"} \subseteq DOMAIN configs[h]
       /\ configs[h].key \in Nat
       /\ configs[h].admitted => WithinLimit(configs[h].calibration)

RunsRight ==
  /\ runs \in Seq({runs[r] : r \in DOMAIN runs})
  /\ \A r \in DOMAIN runs :
       /\ {"kind", "by", "status", "lost"} \subseteq DOMAIN runs[r]
       /\ runs[r].by \in Commands /\ runs[r].status \in Statuses
       /\ runs[r].lost \in {"none", "statement", "unstarted", "unread"}
       /\ runs[r].lost = "unread" => runs[r].kind = "compare"

CandidatesRight ==
  \A x \in DOMAIN candidates : x[1] \in DOMAIN runs /\ Founded(candidates[x])

FaultsRight == faults \in Nat /\ IsFiniteSet(killed) /\ faults + Cardinality(killed) <= MaxFaults

RInv == /\ DOMAIN cmd = Commands /\ DOMAIN job = Commands
        /\ GradersRight /\ RunsRight /\ CandidatesRight /\ FaultsRight
        /\ \A c \in Commands : Mine(c)

-----------------------------------------------------------------------------
(***************************************************************************)
(* What a step of one command leaves of everything else.                   *)
(***************************************************************************)

\* The rows of the runs: a command opens only rows of its own, and touches the
\* open rows of no other.
RunsGrow(c) ==
  /\ RunsRight' /\ Len(runs) <= Len(runs')
  /\ \A r \in DOMAIN runs :
       /\ r \in DOMAIN runs' /\ runs'[r].by = runs[r].by /\ runs'[r].kind = runs[r].kind
       /\ runs[r].lost # "none" => runs'[r].lost # "none"
       /\ runs[r].status \in Final => runs'[r].status \in Final
       /\ runs[r].by # c => runs'[r].status = runs[r].status \/ (runs'[r].status \in Final /\ Available(r))
  /\ \A r \in DOMAIN runs' \ DOMAIN runs : runs'[r].by = c

\* The rows of the candidates: the result of a comparison is written once, by
\* the command that made it, and no result of Downstream is lost.
RowsGrow(c) ==
  /\ CandidatesRight' /\ DOMAIN candidates \subseteq DOMAIN candidates'
  /\ \A x \in DOMAIN candidates :
       /\ \/ candidates'[x].compare = candidates[x].compare
          \/ BeforeResult(c) /\ x[1] = job[c].run
       /\ candidates[x].downstream # <<>> => candidates'[x].downstream # <<>>
       /\ candidates'[x] = candidates[x] \/ (x = Row(c) /\ cmd[c].at = "writeRow")
  /\ \A x \in DOMAIN candidates' \ DOMAIN candidates : candidates'[x].compare = <<>>

Frame(c) ==
  /\ DOMAIN cmd' = Commands /\ DOMAIN job' = Commands /\ Others(c)
  /\ GradersRight' /\ earned \subseteq earned'
  /\ FaultsRight' /\ killed \subseteq killed'
  /\ RunsGrow(c) /\ RowsGrow(c) /\ reported \subseteq reported'

LEMMA LengthOfRuns ==
  ASSUME RunsRight
  PROVE  Len(runs) \in Nat /\ DOMAIN runs = 1..Len(runs)
  BY DEF RunsRight

LEMMA SameRuns ==
  ASSUME RInv, NEW c \in Commands, UNCHANGED runs
  PROVE  RunsGrow(c)
<1>1. RunsRight'
  BY DEF RInv, RunsRight
<1>2. Len(runs) \in Nat
  BY LengthOfRuns DEF RInv
<1>3. QED
  BY <1>1, <1>2 DEF RunsGrow

LEMMA SameCandidates ==
  ASSUME RInv, NEW c \in Commands, UNCHANGED candidates, DOMAIN runs \subseteq DOMAIN runs'
  PROVE  RowsGrow(c)
  BY DEF RInv, RowsGrow, CandidatesRight, Founded, Passes, NoRow

LEMMA SameGraders ==
  ASSUME RInv, UNCHANGED <<configs, earned>>
  PROVE  GradersRight' /\ earned \subseteq earned'
<1>1. DOMAIN configs' = DOMAIN configs /\ earned' = earned /\ configs' = configs
  OBVIOUS
<1>2. Admitted(DOMAIN configs)' = Admitted(DOMAIN configs)
  BY <1>1 DEF Admitted
<1>3. QED
  BY <1>1, <1>2 DEF RInv, GradersRight, WithinLimit

LEMMA FaultsBounded ==
  ASSUME RInv, UNCHANGED killed, UNCHANGED faults \/ \E ok \in BOOLEAN : Attempt(ok)
  PROVE  FaultsRight' /\ killed \subseteq killed'
<1>1. Cardinality(killed) \in Nat /\ MaxFaults \in Nat
  BY FS_CardinalityType, FaultsConstant DEF RInv, FaultsRight
<1>2. QED
  BY <1>1 DEF RInv, FaultsRight, Attempt, AnotherFault

\* A row is changed in place: settled, lost, or marked running by its owner.
LEMMA RowChanged ==
  ASSUME RInv, NEW c \in Commands, NEW r, NEW status \in Statuses, NEW why \in {"statement", "unstarted", "unread"},
         r \in DOMAIN runs =>
           /\ runs[r].by = c \/ Available(r)
           /\ status \in Final \/ runs[r].status \notin Final
           /\ why = "unread" => runs[r].kind = "compare",
         \/ runs' = WithLost(r, why)
         \/ runs' = WithStatus(r, status) /\ (r \in DOMAIN runs => status \in Final \/ runs[r].by = c)
  PROVE  RunsGrow(c) /\ DOMAIN runs' = DOMAIN runs
<1>1. DOMAIN runs' = DOMAIN runs /\ DOMAIN runs = 1..Len(runs) /\ Len(runs) \in Nat
  BY LengthOfRuns DEF RInv, WithLost, WithStatus
<1>2. \A q \in DOMAIN runs :
        /\ {"kind", "by", "status", "lost"} \subseteq DOMAIN runs'[q]
        /\ runs'[q].by = runs[q].by /\ runs'[q].kind = runs[q].kind
        /\ runs[q].lost # "none" => runs'[q].lost # "none"
        /\ runs'[q].lost \in {"none", "statement", "unstarted", "unread"}
        /\ runs'[q].lost = "unread" => runs'[q].kind = "compare"
        /\ runs'[q].status \in Statuses
        /\ runs[q].status \in Final => runs'[q].status \in Final
        /\ runs[q].by # c => runs'[q].status = runs[q].status \/ (runs'[q].status \in Final /\ Available(q))
  <2>1. \A q \in DOMAIN runs :
          /\ {"kind", "by", "status", "lost"} \subseteq DOMAIN runs[q] /\ runs[q].status \in Statuses
          /\ runs[q].lost \in {"none", "statement", "unstarted", "unread"}
          /\ runs[q].lost = "unread" => runs[q].kind = "compare"
    BY DEF RInv, RunsRight
  <2>2. CASE runs' = WithLost(r, why)
    BY <2>1, <2>2 DEF WithLost
  <2>3. CASE /\ runs' = WithStatus(r, status)
             /\ (r \in DOMAIN runs => status \in Final \/ runs[r].by = c)
    BY <2>1, <2>3 DEF WithStatus
  <2>4. QED
    BY <2>2, <2>3
<1>3. runs' \in Seq({runs'[q] : q \in DOMAIN runs'}) /\ Len(runs') = Len(runs)
  <2>1. runs' = [q \in 1..Len(runs) |-> runs'[q]]
    BY <1>1 DEF WithLost, WithStatus
  <2>2. QED
    BY <1>1, <2>1
<1>4. RunsRight'
  BY <1>1, <1>2, <1>3 DEF RInv, RunsRight
<1>5. QED
  BY <1>1, <1>2, <1>3, <1>4 DEF RunsGrow

LEMMA RunFinished ==
  ASSUME RInv, NEW c \in Commands, NEW r, NEW status \in Statuses, NEW ok \in BOOLEAN,
         NEW why \in {"statement", "unstarted"}, Sets(r, status, ok, why),
         r \in DOMAIN runs =>
           /\ runs[r].by = c \/ (status \in Final /\ Available(r))
           /\ status \in Final \/ runs[r].status \notin Final
  PROVE  RunsGrow(c) /\ DOMAIN runs' = DOMAIN runs
  BY RowChanged DEF Sets

\* The row that was finished is settled, or known to be lost; the others are as they were.
LEMMA RowFinished ==
  ASSUME RInv, NEW r, NEW status, NEW ok \in BOOLEAN, NEW why \in {"statement", "unstarted"},
         Sets(r, status, ok, why)
  PROVE  /\ \A q \in DOMAIN runs \ {r} : runs'[q] = runs[q]
         /\ r \in DOMAIN runs => runs'[r].lost # "none" \/ runs'[r].status = status
<1>1. \A q \in DOMAIN runs : {"kind", "by", "status", "lost"} \subseteq DOMAIN runs[q]
  BY DEF RInv, RunsRight
<1>2. QED
  BY <1>1 DEF Sets, WithLost, WithStatus

LEMMA RowAppended ==
  ASSUME RInv, NEW c \in Commands, NEW row, {"kind", "by", "status", "lost"} \subseteq DOMAIN row,
         row.by = c, row.status \in Statuses, row.lost = "none", runs' = Append(runs, row)
  PROVE  /\ RunsGrow(c) /\ DOMAIN runs \subseteq DOMAIN runs'
         /\ Len(runs') = Len(runs) + 1 /\ runs'[Len(runs')] = row
         /\ \A r \in DOMAIN runs : runs'[r] = runs[r]
         /\ DOMAIN runs' = DOMAIN runs \cup {Len(runs')}
<1> DEFINE S == {runs[r] : r \in DOMAIN runs} \cup {row}
<1>1. DOMAIN runs = 1..Len(runs) /\ Len(runs) \in Nat
  BY LengthOfRuns DEF RInv
<1>2. runs \in Seq(S)
  <2>1. \A r \in 1..Len(runs) : runs[r] \in S
    BY <1>1
  <2>2. runs = [r \in 1..Len(runs) |-> runs[r]]
    BY DEF RInv, RunsRight
  <2> HIDE DEF S
  <2>3. QED
    BY <1>1, <2>1, <2>2
<1>3. /\ runs' \in Seq(S) /\ Len(runs') = Len(runs) + 1 /\ runs'[Len(runs) + 1] = row
      /\ \A r \in 1..Len(runs) : runs'[r] = runs[r]
  <2> HIDE DEF S
  <2>1. row \in S
    BY DEF S
  <2>2. QED
    BY <1>2, <2>1
<1>4. DOMAIN runs' = 1..(Len(runs) + 1)
  BY <1>1, <1>3
<1>5. runs' \in Seq({runs'[r] : r \in DOMAIN runs'})
  <2>1. runs' = [r \in 1..Len(runs') |-> runs'[r]]
    <3> HIDE DEF S
    <3>1. PICK s : s = runs'
      OBVIOUS
    <3>2. s \in Seq(S)
      BY <1>3, <3>1
    <3>3. s = [r \in 1..Len(s) |-> s[r]]
      BY <3>2
    <3>4. QED
      BY <3>1, <3>3
  <2>2. QED
    BY <1>1, <1>3, <1>4, <2>1
<1> HIDE DEF S
<1>6. RunsRight'
  BY <1>1, <1>3, <1>4, <1>5 DEF RInv, RunsRight
<1>7. QED
  BY <1>1, <1>3, <1>4, <1>6 DEF RunsGrow

-----------------------------------------------------------------------------
(***************************************************************************)
(* The other commands: what a step of c leaves of the locals of d.         *)
(***************************************************************************)

\* A run stays available but while its own command is before its result.
LEMMA AvailableStays ==
  ASSUME RInv, NEW c \in Commands, Frame(c), NEW r \in DOMAIN runs, Available(r),
         ~ (BeforeResult(c) /\ r = job[c].run)
  PROVE  Available(r)'
<1>1. CASE runs[r].status \in Final
  BY <1>1 DEF Available, Frame, RunsGrow
<1>2. CASE \E x \in DOMAIN candidates : x[1] = r /\ candidates[x].compare # <<>>
  <2>1. PICK x \in DOMAIN candidates : x[1] = r /\ candidates[x].compare # <<>>
    BY <1>2
  <2>2. x \in DOMAIN candidates' /\ candidates'[x].compare = candidates[x].compare
    BY <2>1 DEF Frame, RowsGrow
  <2>3. QED
    BY <2>1, <2>2 DEF Available
<1>3. QED
  BY <1>1, <1>2 DEF Available

LEMMA OthersKeep ==
  ASSUME RInv, NEW c \in Commands, Frame(c), NEW d \in Commands, d # c
  PROVE  Mine(d)'
<1>1. /\ cmd'[d] = cmd[d] /\ job'[d] = job[d]
      /\ In(d, "weekly")' = In(d, "weekly") /\ In(d, "adopted")' = In(d, "adopted")
      /\ In(d, "promotion")' = In(d, "promotion") /\ In(d, "downstream")' = In(d, "downstream")
      /\ Has(d, "report")' = Has(d, "report") /\ Row(d)' = Row(d)
      /\ BeforeResult(d)' = BeforeResult(d)
  BY DEF Frame, Others, In, Has, Flag, Row, Candidate, BeforeResult
<1>2. Mine(d) /\ Mine(c) /\ RunsRight
  BY DEF RInv
<1>3. /\ DOMAIN runs = 1..Len(runs) /\ Len(runs) \in Nat
      /\ DOMAIN runs' = 1..Len(runs') /\ Len(runs') \in Nat
  <2>1. RunsRight'
    BY DEF Frame, RunsGrow
  <2>2. QED
    BY <1>2, <2>1, LengthOfRuns DEF RunsRight
<1>4. /\ job[d].run \in 0..Len(runs) /\ job[d].week \in 0..Len(runs) /\ Len(runs) <= Len(runs')
      /\ \A r \in DOMAIN runs : /\ r \in DOMAIN runs'
                                 /\ runs'[r].by = runs[r].by /\ runs'[r].kind = runs[r].kind
  BY <1>2 DEF Mine, Ranged, Frame, RunsGrow
<1>5. Tidy(d)' /\ Equipment(cmd[d].at, job[d])'
  <2>1. Tidy(d)'
    BY <1>1, <1>2 DEF Mine, Tidy, Invocations
  <2>2. Equipment(cmd[d].at, job[d])'
    BY <1>1, <1>2 DEF Mine, Equipment
  <2>3. QED
    BY <2>1, <2>2
<1>6. Ranged(d)'
  <2>1. cmd[d].at = "running" => job[d].run \in DOMAIN runs
    BY <1>2, <1>3 DEF Mine, Ranged, Working
  <2>2. QED
    BY <1>1, <1>2, <1>3, <1>4, <2>1 DEF Mine, Ranged
<1>7. Accounted(d)'
  <2>1. \A r : Holds(d, r)' = Holds(d, r)
    BY <1>1 DEF Holds, In
  <2>2. ASSUME Runs(d)', NEW r \in DOMAIN runs', runs'[r].by = d, runs'[r].lost = "none"
        PROVE  runs'[r].status \in Final \/ Holds(d, r)
    <3>1. r \in DOMAIN runs
      BY <2>2 DEF Frame, RunsGrow
    <3>2. runs[r].by = d /\ runs[r].lost = "none"
      BY <2>2, <3>1 DEF Frame, RunsGrow
    <3>3. runs[r].status \in Final \/ Holds(d, r)
      BY <1>2, <2>2, <3>1, <3>2 DEF Mine, Accounted, Frame, Runs
    <3>4. QED
      BY <3>1, <3>2, <3>3 DEF Frame, RunsGrow
  <2>3. reported \subseteq reported'
    BY DEF Frame
  <2>4. QED
    BY <1>1, <1>2, <2>1, <2>2, <2>3 DEF Mine, Accounted
\* Two commands before their results are not in one run.
<1>8. ASSUME BeforeResult(c), job[d].run = job[c].run, job[d].run # 0,
             cmd[d].at \in {"enter", "create", "promote", "returned"} \cup Working
      PROVE  FALSE
  <2>1. runs[job[d].run].by # d /\ ~Available(job[d].run)
    BY <1>2, <1>8 DEF Mine, Uncompared, Available
  <2>2. QED
    BY <1>2, <1>8, <2>1 DEF Mine, Borrowed
<1>9. ASSUME Row(d) \in DOMAIN candidates, job[d].run # 0,
             cmd[d].at \in {"enter", "create", "promote", "returned"} \cup Working
      PROVE  /\ Row(d) \in DOMAIN candidates'
             /\ candidates'[Row(d)].compare = candidates[Row(d)].compare
  <2>1. Row(d)[1] = job[d].run
    BY DEF Row
  <2>2. QED
    BY <1>8, <1>9, <2>1 DEF Frame, RowsGrow
<1>10. Uncompared(d)'
  <2>1. SUFFICES ASSUME BeforeResult(d) PROVE runs'[job[d].run].by = d /\ ~Available(job[d].run)'
    BY <1>1 DEF Uncompared
  <2>2. /\ job[d].run \in DOMAIN runs /\ job[d].run # 0
        /\ runs[job[d].run].by = d /\ ~Available(job[d].run)
    BY <1>2, <1>3, <2>1 DEF Mine, Ranged, BeforeResult, Uncompared, Working
  <2>3. runs'[job[d].run].by = d /\ runs'[job[d].run].status \notin Final
    BY <2>2 DEF Frame, RunsGrow, Available
  <2>4. ASSUME NEW x \in DOMAIN candidates', x[1] = job[d].run PROVE candidates'[x].compare = <<>>
    <3>1. ~ (BeforeResult(c) /\ x[1] = job[c].run)
      BY <1>8, <2>1, <2>2, <2>4 DEF BeforeResult, Working
    <3>2. x \in DOMAIN candidates => candidates[x].compare = <<>>
      BY <2>2, <2>4 DEF Available
    <3>3. QED
      BY <2>4, <3>1, <3>2 DEF Frame, RowsGrow
  <2>5. QED
    BY <1>1, <2>3, <2>4 DEF Available
<1>11. Borrowed(d)'
  <2>1. SUFFICES ASSUME cmd[d].at \in {"enter", "create", "promote", "returned"} \cup Working,
                        job[d].run # 0, runs'[job[d].run].by # d
                 PROVE  /\ job[d].phase \in {"downstream", "promotion"} /\ job[d].week = 0
                        /\ Available(job[d].run)'
    BY <1>1 DEF Borrowed
  <2>2. runs[job[d].run].by # d /\ job[d].run \in DOMAIN runs
    BY <1>3, <1>4, <2>1
  <2>3. /\ job[d].phase \in {"downstream", "promotion"} /\ job[d].week = 0
        /\ Available(job[d].run)
    BY <1>2, <2>1, <2>2 DEF Mine, Borrowed
  <2>4. ~ (BeforeResult(c) /\ job[d].run = job[c].run)
    BY <1>8, <2>1
  <2>5. Available(job[d].run)'
    BY <1>1, <2>2, <2>3, <2>4, AvailableStays DEF Available
  <2>6. QED
    BY <2>3, <2>5
<1>12. Snapshot(d)'
  <2>1. SUFFICES ASSUME cmd[d].at \in {"refresh", "readRow", "writeRow"}
                 PROVE  /\ Row(d) \in DOMAIN candidates'
                        /\ cmd[d].at = "writeRow" =>
                             /\ Founded(job[d].row)
                             /\ job[d].row.compare = candidates'[Row(d)].compare
                             /\ job[d].phase \in {"screen", "compare"} => job[d].row = candidates'[Row(d)]
                             /\ In(d, "promotion") => job[d].row.downstream # <<>>
    BY <1>1 DEF Snapshot, Founded, Passes
  <2>2. job[d].run # 0 /\ cmd[d].at \in Working
    BY <1>2, <2>1 DEF Mine, Ranged, Working
  <2>3. Row(d) \in DOMAIN candidates /\ (cmd[d].at = "writeRow" =>
          /\ Founded(job[d].row) /\ job[d].row.compare = candidates[Row(d)].compare
          /\ job[d].phase \in {"screen", "compare"} => job[d].row = candidates[Row(d)]
          /\ In(d, "promotion") => job[d].row.downstream # <<>>)
    BY <1>2, <2>1 DEF Mine, Snapshot
  <2>4. /\ Row(d) \in DOMAIN candidates'
        /\ candidates'[Row(d)].compare = candidates[Row(d)].compare
    BY <1>9, <2>2, <2>3
  <2>5. ASSUME cmd[d].at = "writeRow", job[d].phase \in {"screen", "compare"}
        PROVE  candidates'[Row(d)] = candidates[Row(d)]
    <3>1. /\ runs[job[d].run].by = d
          /\ ~Available(job[d].run)
      <4>1. BeforeResult(d)
        BY <2>5 DEF BeforeResult, Working
      <4>2. QED
        BY <1>2, <4>1 DEF Mine, Uncompared
    <3>2. CASE Row(d) = Row(c) /\ cmd[c].at = "writeRow"
      <4>1. job[c].run = job[d].run
        BY <3>2 DEF Row
      <4>2. runs[job[c].run].by # c /\ cmd[c].at \in Working
        BY <3>1, <3>2, <4>1 DEF Working
      <4>3. QED
        BY <1>2, <2>2, <3>1, <4>1, <4>2 DEF Mine, Borrowed
    <3>3. QED
      BY <2>3, <3>2 DEF Frame, RowsGrow
  <2>6. QED
    BY <2>3, <2>4, <2>5
<1>13. Judged(d)'
  <2>1. SUFFICES ASSUME In(d, "promotion"), cmd[d].at \in {"readRow", "writeRow"}
                 PROVE  /\ candidates'[Row(d)].compare # <<>> /\ candidates'[Row(d)].downstream # <<>>
                        /\ job[d].result.promote => Passes(candidates'[Row(d)].compare[1])
    BY <1>1 DEF Judged, Passes
  <2>2. job[d].run # 0 /\ cmd[d].at \in Working /\ Row(d) \in DOMAIN candidates
    BY <1>2, <2>1 DEF Mine, Ranged, Working, Snapshot
  <2>3. /\ candidates[Row(d)].compare # <<>> /\ candidates[Row(d)].downstream # <<>>
        /\ job[d].result.promote => Passes(candidates[Row(d)].compare[1])
    BY <1>2, <2>1 DEF Mine, Judged
  <2>4. candidates'[Row(d)].compare = candidates[Row(d)].compare
    BY <1>9, <2>2
  <2>5. candidates'[Row(d)].downstream # <<>>
    BY <2>2, <2>3 DEF Frame, RowsGrow
  <2>6. QED
    BY <2>3, <2>4, <2>5
<1>14. Qualified(d)'
  BY <1>1, <1>2 DEF Mine, Qualified, Frame, ToSet
<1>15. QED
  BY <1>5, <1>6, <1>7, <1>10, <1>11, <1>12, <1>13, <1>14 DEF Mine

-----------------------------------------------------------------------------
(***************************************************************************)
(* The ways a command moves, again: what it must show of its own locals.   *)
(***************************************************************************)

Advances(c) == Frame(c) /\ Mine(c)'

LEMMA MovesOn ==
  ASSUME RInv, NEW c \in Commands, NEW step, NEW locals, Moves(c, step, locals)
  PROVE  /\ DOMAIN cmd' = Commands /\ DOMAIN job' = Commands /\ Others(c)
         /\ job'[c] = locals
         /\ cmd'[c].at = step /\ cmd'[c].exit = cmd[c].exit /\ cmd'[c].script = cmd[c].script
         /\ cmd'[c].todo = cmd[c].todo /\ cmd'[c].pos = cmd[c].pos /\ DOMAIN cmd'[c] = DOMAIN cmd[c]
<1>1. CmdFields \subseteq DOMAIN cmd[c] /\ DOMAIN cmd = Commands /\ DOMAIN job = Commands
  BY DEF RInv, Mine, Tidy
<1>2. QED
  BY <1>1 DEF Moves, Go, Others, CmdFields

LEMMA FrameOf ==
  ASSUME RInv, NEW c \in Commands, DOMAIN cmd' = Commands, DOMAIN job' = Commands, Others(c),
         RunsGrow(c), RowsGrow(c), UNCHANGED <<reported, configs, earned, killed>>,
         UNCHANGED faults \/ \E ok \in BOOLEAN : Attempt(ok)
  PROVE  Frame(c)
  BY SameGraders, FaultsBounded DEF Frame

LEMMA SamePlace ==
  ASSUME RInv, NEW c \in Commands, DOMAIN cmd' = Commands, DOMAIN job' = Commands, Others(c),
         UNCHANGED <<runs, candidates, reported, configs, earned, killed>>,
         UNCHANGED faults \/ \E ok \in BOOLEAN : Attempt(ok)
  PROVE  Frame(c)
  BY SameRuns, SameCandidates, FrameOf

\* Locals that go on with the run, the candidates and the week of the job.
Continues(c, locals) ==
  /\ JobFields \subseteq DOMAIN locals
  /\ locals.phase = job[c].phase /\ locals.run = job[c].run
  /\ locals.week = job[c].week /\ locals.specs = job[c].specs
  /\ DOMAIN locals.result = DOMAIN NoResult /\ locals.result.hard \in Int
  /\ ToSet(locals.graders) \subseteq earned

LEMMA StillRanged ==
  ASSUME RInv, NEW c \in Commands, RunsGrow(c)
  PROVE  /\ job[c].run \in 0..Len(runs') /\ job[c].week \in 0..Len(runs')
         /\ DOMAIN runs = 1..Len(runs) /\ DOMAIN runs' = 1..Len(runs')
         /\ job[c].run # 0 => /\ job[c].run \in DOMAIN runs /\ job[c].run \in DOMAIN runs'
                              /\ runs'[job[c].run].by = runs[job[c].run].by
                              /\ runs'[job[c].run].kind = runs[job[c].run].kind
         /\ job[c].week # 0 => runs'[job[c].week].by = c
         /\ job[c].phase \in Comparing /\ job[c].run # 0 => runs'[job[c].run].kind = "compare"
<1>1. DOMAIN runs = 1..Len(runs) /\ Len(runs) \in Nat
  BY LengthOfRuns DEF RInv
<1>2. DOMAIN runs' = 1..Len(runs') /\ Len(runs') \in Nat
  BY DEF RunsGrow, RunsRight
<1>3. job[c].run \in 0..Len(runs) /\ job[c].week \in 0..Len(runs) /\ Len(runs) <= Len(runs')
  BY DEF RInv, Mine, Ranged, RunsGrow
<1>4. /\ job[c].week # 0 => job[c].week \in DOMAIN runs /\ runs[job[c].week].by = c
      /\ job[c].phase \in Comparing /\ job[c].run # 0 => runs[job[c].run].kind = "compare"
  BY <1>1, <1>3 DEF RInv, Mine, Ranged
<1>5. QED
  BY <1>1, <1>2, <1>3, <1>4 DEF RunsGrow

LEMMA BorrowedStays ==
  ASSUME RInv, NEW c \in Commands, Frame(c), job[c].run # 0, runs'[job[c].run].by # c,
         cmd[c].at \in {"enter", "create", "promote", "returned"} \cup Working
  PROVE  /\ job[c].phase \in {"downstream", "promotion"} /\ job[c].week = 0
         /\ job'[c].run = job[c].run => Available(job[c].run)'
<1>1. runs[job[c].run].by # c /\ job[c].run \in DOMAIN runs
  BY StillRanged DEF Frame
<1>2. /\ job[c].phase \in {"downstream", "promotion"} /\ job[c].week = 0
      /\ Available(job[c].run)
  BY <1>1 DEF RInv, Mine, Borrowed
<1>3. ~ BeforeResult(c)
  BY <1>1 DEF RInv, Mine, Uncompared
<1>4. PICK r : r = job[c].run
  OBVIOUS
<1>5. Available(r)'
  BY <1>1, <1>2, <1>3, <1>4, AvailableStays
<1>6. QED
  BY <1>2, <1>4, <1>5 DEF Available

\* From one step of a function to another; a row it changes is its own.
LEMMA WorksOnWith ==
  ASSUME RInv, NEW c \in Commands, cmd[c].at \in Working \/ (cmd[c].at = "enter" /\ In(c, "downstream")),
         NEW step \in Working \ {"running", "refresh", "readRow", "writeRow"},
         step \in {"finishing", "failing"} \/ cmd[c].at \notin {"finishing", "failing"},
         ~In(c, "promotion") \/ cmd[c].at \notin {"readRow", "writeRow"},
         NEW locals, Continues(c, locals), Moves(c, step, locals), Equipment(step, locals),
         step = "comparing" => ToSet(locals.using) \subseteq earned,
         Frame(c),
         step \in {"finishing", "failing"} \/
           (UNCHANGED candidates /\ (runs'[job[c].run].status \in Final => runs[job[c].run].status \in Final)),
         \A r \in DOMAIN runs' : r \in DOMAIN runs /\
           (runs'[r] = runs[r] \/ r = job[c].run)
  PROVE  Advances(c)
<1>1. /\ DOMAIN cmd' = Commands /\ DOMAIN job' = Commands /\ Others(c)
      /\ job'[c] = locals
      /\ cmd'[c].at = step /\ cmd'[c].exit = cmd[c].exit /\ cmd'[c].script = cmd[c].script
      /\ cmd'[c].todo = cmd[c].todo /\ DOMAIN cmd'[c] = DOMAIN cmd[c]
  BY MovesOn
<1>2. Mine(c) /\ Row(c)' = Row(c)
  BY <1>1 DEF RInv, Row, Candidate, Continues
<1>3. /\ job[c].run \in 0..Len(runs') /\ job[c].week \in 0..Len(runs')
      /\ job[c].run # 0 => /\ job[c].run \in DOMAIN runs
                           /\ runs'[job[c].run].by = runs[job[c].run].by
      /\ job[c].week # 0 => runs'[job[c].week].by = c
      /\ job[c].phase \in Comparing /\ job[c].run # 0 => runs'[job[c].run].kind = "compare"
  BY StillRanged DEF Frame
<1>4. Tidy(c)' /\ ~In(c, "promotion")
  <2>1. ~In(c, "promotion")
    BY <1>2 DEF Mine, Tidy, In, Working
  <2>2. QED
    BY <1>1, <1>2, <2>1 DEF Mine, Tidy, Continues, In, Invocations, Opening, Working
<1>5. Equipment(cmd[c].at, job[c])'
  BY <1>1 DEF Equipment
<1>6. Ranged(c)'
  BY <1>1, <1>2, <1>3 DEF Mine, Ranged, Continues, In, Working
<1>7. Accounted(c)'
  <2>1. \A r : Holds(c, r) => Holds(c, r)'
    BY <1>1 DEF Holds, In, Continues, Working
  <2>2. \A r : r = job[c].run => Holds(c, r)'
    BY <1>1, <1>4 DEF Holds, In, Continues
  <2>3. Runs(c)' => Runs(c)
    BY DEF Frame, Runs
  <2>4. ASSUME Runs(c)', NEW r \in DOMAIN runs', runs'[r].by = c, runs'[r].lost = "none"
        PROVE  runs'[r].status \in Final \/ Holds(c, r)'
    <3>1. CASE r = job[c].run
      BY <2>2, <3>1
    <3>2. CASE runs'[r] = runs[r] /\ r \in DOMAIN runs
      <4>1. runs[r].status \in Final \/ Holds(c, r)
        BY <1>2, <2>3, <2>4, <3>2 DEF Mine, Accounted
      <4>2. QED
        BY <2>1, <3>2, <4>1
    <3>3. QED
      BY <3>1, <3>2
  <2>5. cmd'[c].at # "exited"
    BY <1>1 DEF Working
  <2>6. QED
    BY <2>4, <2>5 DEF Accounted
<1>8. Uncompared(c)'
  <2>1. BeforeResult(c)' => /\ BeforeResult(c) /\ job[c].run # 0 /\ UNCHANGED candidates
                            /\ runs'[job[c].run].status \in Final => runs[job[c].run].status \in Final
    BY <1>1, <1>2 DEF BeforeResult, Continues, In, Mine, Ranged, Working
  <2>2. QED
    BY <1>1, <1>2, <1>3, <2>1 DEF Mine, Uncompared, Available, Continues
<1>9. Borrowed(c)'
  BY <1>1, <1>2, <1>3, BorrowedStays DEF Borrowed, Continues
<1>10. Snapshot(c)' /\ Judged(c)'
  BY <1>1 DEF Snapshot, Judged
<1>11. Qualified(c)'
  BY <1>1 DEF Qualified, Continues, ToSet, Frame
<1>12. QED
  BY <1>4, <1>5, <1>6, <1>7, <1>8, <1>9, <1>10, <1>11 DEF Advances, Mine

LEMMA WorksOn ==
  ASSUME RInv, NEW c \in Commands, cmd[c].at \in Working, NEW step \in Working \ {"running", "refresh", "readRow", "writeRow"},
         step \in {"finishing", "failing"} \/ cmd[c].at \notin {"finishing", "failing"},
         ~In(c, "promotion") \/ cmd[c].at \notin {"readRow", "writeRow"},
         NEW locals, Continues(c, locals), Moves(c, step, locals), Equipment(step, locals),
         step = "comparing" => ToSet(locals.using) \subseteq earned,
         UNCHANGED <<runs, candidates, reported, configs, earned, killed>>,
         UNCHANGED faults \/ \E ok \in BOOLEAN : Attempt(ok)
  PROVE  Advances(c)
<1>1. Frame(c)
  BY MovesOn, SamePlace
<1>2. \A r \in DOMAIN runs' : r \in DOMAIN runs /\ runs'[r] = runs[r]
  OBVIOUS
<1>3. QED
  BY <1>1, <1>2, WorksOnWith

\* The end of a function: its row is settled or lost, unless Downstream has it
\* from here.
LEMMA ReturnsTo ==
  ASSUME RInv, NEW c \in Commands, Frame(c), NEW locals, Moves(c, "returned", locals),
         cmd[c].at \in {"enter", "create", "promote"} \cup Working, Continues(c, locals),
         locals.phase \in {"compare", "adopted"} /\ locals.err = "none" => job[c].run # 0,
         \A r \in DOMAIN runs' :
           runs'[r].by = c /\ runs'[r].lost = "none" /\ r # job[c].week =>
             \/ runs'[r].status \in Final
             \/ locals.phase = "adopted" /\ locals.err = "none" /\ r = job[c].run
  PROVE  Advances(c)
<1>1. /\ job'[c] = locals /\ DOMAIN cmd'[c] = DOMAIN cmd[c]
      /\ cmd'[c].at = "returned" /\ cmd'[c].exit = cmd[c].exit /\ cmd'[c].script = cmd[c].script
  BY MovesOn
<1>2. Mine(c) /\ Row(c)' = Row(c)
  BY <1>1 DEF RInv, Row, Candidate, Continues
<1>3. /\ job[c].run \in 0..Len(runs') /\ job[c].week \in 0..Len(runs')
      /\ job[c].run # 0 => /\ job[c].run \in DOMAIN runs
                           /\ runs'[job[c].run].by = runs[job[c].run].by
      /\ job[c].week # 0 => runs'[job[c].week].by = c
      /\ job[c].phase \in Comparing /\ job[c].run # 0 => runs'[job[c].run].kind = "compare"
  BY StillRanged DEF Frame
<1>4. Tidy(c)'
  BY <1>1, <1>2 DEF Mine, Tidy, Continues, In, Invocations, Opening, Working
<1>5. Equipment(cmd[c].at, job[c])'
  BY <1>1 DEF Equipment, Asking
<1>6. Ranged(c)'
  BY <1>1, <1>3 DEF Ranged, Continues, Working, In
<1>7. Accounted(c)'
  BY <1>1 DEF Accounted, Holds, In, Continues, Working
<1>8. Uncompared(c)' /\ Snapshot(c)' /\ Judged(c)'
  BY <1>1 DEF Uncompared, BeforeResult, Snapshot, Judged, Working
<1>9. Borrowed(c)'
  BY <1>1, <1>2, BorrowedStays DEF Borrowed, Continues
<1>10. Qualified(c)'
  BY <1>1 DEF Qualified, Continues, ToSet, Frame
<1>11. QED
  BY <1>4, <1>5, <1>6, <1>7, <1>8, <1>9, <1>10 DEF Advances, Mine

\* The end of an invocation.
LEMMA ExitsAt ==
  ASSUME RInv, NEW c \in Commands, Frame(c), NEW code \in Codes, Exits(c, code), job' = job,
         cmd[c].at # "done",
         \A r \in DOMAIN runs' :
           runs'[r].by = c /\ runs'[r].lost = "none" => runs'[r].status \in Final,
         job[c].week # 0 /\ Has(c, "report") => job[c].week \in reported'
  PROVE  Advances(c)
<1>1. Mine(c) /\ CmdFields \subseteq DOMAIN cmd[c] /\ DOMAIN cmd = Commands
  BY DEF RInv, Mine, Tidy
<1>2. /\ job'[c] = job[c] /\ DOMAIN cmd'[c] = DOMAIN cmd[c]
      /\ cmd'[c].at = "exited" /\ cmd'[c].exit = code /\ cmd'[c].script = cmd[c].script
  BY <1>1 DEF Exits, CmdFields
<1>3. /\ job[c].run \in 0..Len(runs') /\ job[c].week \in 0..Len(runs')
      /\ job[c].week # 0 => runs'[job[c].week].by = c
      /\ job[c].phase \in Comparing /\ job[c].run # 0 => runs'[job[c].run].kind = "compare"
  BY StillRanged DEF Frame
<1>4. Tidy(c)'
  BY <1>1, <1>2 DEF Mine, Tidy, In, Invocations, Opening, Working
<1>5. Equipment(cmd[c].at, job[c])'
  BY <1>2 DEF Equipment, Asking
<1>6. Ranged(c)'
  BY <1>2, <1>3 DEF Ranged, Working, In
<1>7. Accounted(c)'
  BY <1>2 DEF Accounted, Has, Flag
<1>8. Uncompared(c)' /\ Snapshot(c)' /\ Judged(c)' /\ Borrowed(c)'
  BY <1>2 DEF Uncompared, BeforeResult, Snapshot, Judged, Borrowed, Working
<1>9. Qualified(c)'
  BY <1>1, <1>2 DEF Mine, Qualified, ToSet, Frame
<1>10. QED
  BY <1>4, <1>5, <1>6, <1>7, <1>8, <1>9 DEF Advances, Mine

\* While a command opens, all of its rows are settled.
LEMMA OpeningSettled ==
  ASSUME RInv, NEW c \in Commands, Runs(c), cmd[c].at \in Opening
  PROVE  /\ \A r \in DOMAIN runs : runs[r].by = c /\ runs[r].lost = "none" => runs[r].status \in Final
         /\ job[c].week = 0 /\ job[c].run = 0
<1>1. Mine(c) /\ DOMAIN runs = 1..Len(runs) /\ Len(runs) \in Nat
  BY LengthOfRuns DEF RInv
<1>2. job[c].week = 0 /\ job[c].run = 0
  BY <1>1 DEF Mine, Tidy
<1>3. \A r \in DOMAIN runs : ~ Holds(c, r)
  BY <1>1, <1>2 DEF Holds
<1>4. QED
  BY <1>1, <1>2, <1>3 DEF Mine, Accounted

-----------------------------------------------------------------------------
(***************************************************************************)
(* Choosing graders: the first of a set exists, and has earned it.         *)
(***************************************************************************)

LEMMA LeastOf ==
  ASSUME NEW S, S \subseteq Nat, S # {}
  PROVE  \E n \in S : \A m \in S : n <= m
<1>1. IsWellFoundedOn(OpToRel(<, Nat), Nat)
  BY NatLessThanWellFounded
<1>2. PICK n \in S : \A m \in S : ~ (<<m, n>> \in OpToRel(<, Nat))
  BY <1>1, WFMin
<1>3. \A m \in S : ~ (m < n)
  BY <1>2, Zenon DEF OpToRel
<1>4. QED
  BY <1>3

\* Rows with one key are listed in the order of their hashes.
LEMMA FirstIsListed ==
  ASSUME RInv, NEW S, S \subseteq DOMAIN configs, S # {}
  PROVE  FirstListed(S) \in S
<1>1. S \subseteq Nat /\ \A h \in S : configs[h].key \in Nat
  BY GraderConstants DEF RInv, GradersRight
<1>2. PICK k \in {configs[h].key : h \in S} : \A m \in {configs[h].key : h \in S} : k <= m
  <2>1. {configs[h].key : h \in S} \subseteq Nat /\ {configs[h].key : h \in S} # {}
    BY <1>1
  <2>2. QED
    BY <2>1, LeastOf
<1>3. PICK g \in {h \in S : configs[h].key = k} : \A m \in {h \in S : configs[h].key = k} : g <= m
  <2>1. {h \in S : configs[h].key = k} \subseteq Nat /\ {h \in S : configs[h].key = k} # {}
    BY <1>1, <1>2
  <2>2. QED
    BY <2>1, LeastOf
<1>4. g \in S /\ \A h \in S : Precedes(g, h)
  <2>1. g \in S /\ configs[g].key = k /\ k \in Nat
    BY <1>1, <1>3
  <2>2. ASSUME NEW h \in S PROVE Precedes(g, h)
    <3>1. k <= configs[h].key /\ configs[h].key \in Nat
      BY <1>1, <1>2
    <3>2. CASE configs[h].key = k
      BY <1>3, <2>1, <3>2 DEF Precedes
    <3>3. CASE configs[h].key # k
      BY <2>1, <3>1, <3>3 DEF Precedes
    <3>4. QED
      BY <3>2, <3>3
  <2>3. QED
    BY <2>1, <2>2
<1>5. QED
  BY <1>4 DEF FirstListed

LEMMA PairHasEarnedIt ==
  ASSUME RInv, SelectionPair # <<>>
  PROVE  Len(SelectionPair) = 2 /\ ToSet(SelectionPair) \subseteq earned
<1> DEFINE all == Admitted(InRole("selection"))
           one == FirstListed(all)
           two == FirstListed(all \ {one})
<1>1. all \subseteq DOMAIN configs /\ all \subseteq earned
  BY DEF Admitted, InRole, RInv, GradersRight
<1>2. SelectionPair = <<one, two>> /\ ~ (Cardinality(all) < 2)
  BY DEF SelectionPair
<1> HIDE DEF all
<1>3. all # {}
  BY <1>2, FS_EmptySet
<1>4. one \in all
  BY <1>1, <1>3, FirstIsListed
<1>5. all \ {one} # {}
  <2>1. SUFFICES ASSUME all = {one} PROVE FALSE
    BY <1>4
  <2>2. Cardinality(all) = 1
    BY <2>1, FS_Singleton
  <2>3. QED
    BY <1>2, <2>2
<1>6. two \in all \ {one}
  BY <1>1, <1>5, FirstIsListed
<1> HIDE DEF one, two
<1>7. QED
  BY <1>1, <1>2, <1>4, <1>6 DEF ToSet

LEMMA ScreeningHasEarnedIt ==
  ASSUME RInv, ScreeningGrader # NoGrader
  PROVE  ScreeningGrader \in earned
<1>1. Admitted(InRole("screening")) \subseteq DOMAIN configs /\ Admitted(InRole("screening")) \subseteq earned
  BY DEF Admitted, InRole, RInv, GradersRight
<1>2. QED
  BY <1>1, FirstIsListed DEF ScreeningGrader

\* The substitute is asked for its admission.
LEMMA ResolvedHaveEarnedIt ==
  ASSUME RInv, NEW graders, NEW families, ToSet(graders) \subseteq earned,
         \A i \in DOMAIN ResolveGraders(graders, families) : ResolveGraders(graders, families)[i] # NoGrader
  PROVE  ToSet(ResolveGraders(graders, families)) \subseteq earned
<1>1. SubstituteGrader # NoGrader => SubstituteGrader \in DOMAIN configs
  <2>1. InRole("substitute") \subseteq DOMAIN configs
    BY DEF InRole
  <2>2. QED
    BY <2>1, FirstIsListed DEF SubstituteGrader
<1>2. SelectGrader(<<>>, families[1], SubstituteGrader) \in earned \cup {NoGrader}
  <2>1. {i \in DOMAIN <<>> : FamilyOf[<<>>[i]] # families[1]} = {}
    OBVIOUS
  <2>2. SubstituteGrader # NoGrader /\ configs[SubstituteGrader].admitted => SubstituteGrader \in earned
    BY <1>1 DEF RInv, GradersRight, Admitted
  <2>3. QED
    BY <2>1, <2>2 DEF SelectGrader
<1>3. \A i \in DOMAIN ResolveGraders(graders, families) : ResolveGraders(graders, families)[i] \in earned
  BY <1>2 DEF ResolveGraders, ToSet
<1>4. QED
  BY <1>3 DEF ToSet

-----------------------------------------------------------------------------
(***************************************************************************)
(* Between the row and its end: the steps that touch no row.               *)
(***************************************************************************)

LEMMA Continuing ==
  ASSUME RInv, NEW c \in Commands
  PROVE  Continues(c, job[c]) /\ Equipment(cmd[c].at, job[c])
  BY DEF RInv, Mine, Tidy, Continues, Qualified

LEMMA FailsAt ==
  ASSUME RInv, NEW c \in Commands, cmd[c].at \in Working, NEW err, Fails(c, err),
         ~In(c, "promotion") \/ cmd[c].at \notin {"readRow", "writeRow"},
         UNCHANGED <<runs, candidates, reported, configs, earned, killed>>,
         UNCHANGED faults \/ \E ok \in BOOLEAN : Attempt(ok)
  PROVE  Advances(c)
<1> DEFINE locals == [job[c] EXCEPT !.err = err]
<1>1. Continues(c, locals)
  BY Continuing DEF Continues, JobFields, Fields
<1>2. Moves(c, "failing", locals)
  BY DEF Fails
<1> HIDE DEF locals
<1>3. Equipment("failing", locals)
  BY DEF Equipment, Asking
<1>4. QED
  BY <1>1, <1>2, <1>3, WorksOn DEF Working

LEMMA PairAdvances ==
  ASSUME RInv, NEW c \in Commands, Pair(c), UNCHANGED plan PROVE Advances(c)
<1> DEFINE locals == [job[c] EXCEPT !.graders = SelectionPair]
           step == CASE In(c, "sentinel") -> "drift" [] In(c, "compare") -> "pool" [] OTHER -> "cases"
<1>1. /\ cmd[c].at = "pair" /\ cmd[c].at \in Working
      /\ UNCHANGED <<runs, candidates, reported, configs, earned, killed>>
      /\ \E ok \in BOOLEAN : Attempt(ok)
  BY DEF Pair, At, Working, db, UnchangedGraders
<1>2. Continues(c, job[c]) /\ ~In(c, "screen")
  BY <1>1, Continuing DEF Equipment, In
<1>3. CASE SelectionPair # <<>> /\ Moves(c, step, locals)
  <2>1. Len(SelectionPair) = 2 /\ ToSet(SelectionPair) \subseteq earned
    BY <1>3, PairHasEarnedIt
  <2>2. Continues(c, locals) /\ locals.graders = SelectionPair /\ locals.phase = job[c].phase
    BY <1>2, <2>1 DEF Continues, JobFields, Fields
  <2>3. step \in {"drift", "pool", "cases"}
    OBVIOUS
  <2> HIDE DEF locals, step
  <2>4. Equipment(step, locals)
    BY <1>2, <2>1, <2>2, <2>3 DEF Equipment, Asking, In
  <2>5. QED
    BY <1>1, <1>3, <2>2, <2>3, <2>4, WorksOn DEF Working
<1>4. CASE Fails(c, "error")
  BY <1>1, <1>4, FailsAt
<1>5. QED
  BY <1>3, <1>4 DEF Pair

LEMMA CheckDriftAdvances ==
  ASSUME RInv, NEW c \in Commands, CheckDrift(c), UNCHANGED plan PROVE Advances(c)
<1> DEFINE step == IF In(c, "sentinel") THEN "baselines" ELSE "pair"
           locals == [job[c] EXCEPT !.drifted = TRUE]
<1>1. /\ cmd[c].at = "drift" /\ cmd[c].at \in Working
      /\ UNCHANGED <<runs, candidates, reported, configs, earned, killed, faults>>
  BY DEF CheckDrift, At, Working, db, UnchangedGraders
<1>2. /\ Continues(c, job[c]) /\ job[c].phase # "screen"
      /\ In(c, "sentinel") => Len(job[c].graders) = 2
  BY <1>1, Continuing DEF Equipment, In
<1>3. CASE Moves(c, step, job[c])
  <2>1. step \in {"baselines", "pair"} /\ (step = "baselines" => In(c, "sentinel"))
    OBVIOUS
  <2> HIDE DEF step
  <2>2. Equipment(step, job[c])
    BY <1>2, <2>1 DEF Equipment, Asking, In
  <2>3. QED
    BY <1>1, <1>2, <1>3, <2>1, <2>2, WorksOn DEF Working
<1>4. CASE Moves(c, "blocked", locals)
  <2>1. Continues(c, locals)
    BY <1>2 DEF Continues, JobFields, Fields
  <2> HIDE DEF locals
  <2>2. Equipment("blocked", locals)
    BY DEF Equipment, Asking
  <2>3. QED
    BY <1>1, <1>4, <2>1, <2>2, WorksOn DEF Working
<1>5. CASE Fails(c, "error")
  BY <1>1, <1>5, FailsAt
<1>6. QED
  BY <1>3, <1>4, <1>5 DEF CheckDrift

\* Steps that leave the locals as they are.
LEMMA BaselinesCoverAdvance ==
  ASSUME RInv, NEW c \in Commands, Baselines(c) \/ Cover(c), UNCHANGED plan PROVE Advances(c)
<1>1. /\ cmd[c].at \in {"baselines", "cover"} /\ cmd[c].at \in Working
      /\ UNCHANGED <<runs, candidates, reported, configs, earned, killed, faults>>
  BY DEF Baselines, Cover, At, Working, db, UnchangedGraders
<1>2. Continues(c, job[c]) /\ Equipment(cmd[c].at, job[c])
  BY Continuing
<1>3. CASE \E step \in {"pool", "compared"} : Moves(c, step, job[c])
  <2>1. \A step \in {"pool", "compared"} : Equipment(step, job[c])
    BY <1>1, <1>2 DEF Equipment, Asking
  <2>2. QED
    BY <1>1, <1>2, <1>3, <2>1, WorksOn DEF Working
<1>4. CASE Fails(c, "error")
  BY <1>1, <1>4, FailsAt
<1>5. QED
  BY <1>3, <1>4 DEF Baselines, Cover

LEMMA CasesAdvance ==
  ASSUME RInv, NEW c \in Commands, Cases(c), UNCHANGED plan PROVE Advances(c)
<1> DEFINE locals == [job[c] EXCEPT !.todo = SelectCompareCases(plan.pack, Candidate(c).seat)]
<1>1. /\ cmd[c].at \in {"cases", "screenOne"} /\ cmd[c].at \in Working
      /\ UNCHANGED <<runs, candidates, reported, configs, earned, killed, faults>>
  BY DEF Cases, At, Working, db, UnchangedGraders
<1>2. Continues(c, job[c]) /\ Equipment(cmd[c].at, job[c])
  BY Continuing
<1>3. CASE Moves(c, "pool", locals)
  <2>1. Continues(c, locals) /\ locals.phase = job[c].phase /\ locals.graders = job[c].graders
    BY <1>2 DEF Continues, JobFields, Fields
  <2> HIDE DEF locals
  <2>2. Equipment("pool", locals)
    BY <1>1, <1>2, <2>1 DEF Equipment, Asking
  <2>3. QED
    BY <1>1, <1>3, <2>1, <2>2, WorksOn DEF Working
<1>4. CASE \E step \in {"finishing", "pool"} : Moves(c, step, job[c])
  <2>1. \A step \in {"finishing", "pool"} : Equipment(step, job[c])
    BY <1>1, <1>2 DEF Equipment, Asking
  <2>2. QED
    BY <1>1, <1>2, <1>4, <2>1, WorksOn DEF Working
<1>5. CASE Fails(c, "error")
  BY <1>1, <1>5, FailsAt
<1>6. QED
  BY <1>3, <1>4, <1>5 DEF Cases

LEMMA GenerateAdvances ==
  ASSUME RInv, NEW c \in Commands, Generate(c) \/ GenerateCouncils(c), UNCHANGED plan PROVE Advances(c)
<1>1. /\ cmd[c].at = "pool" /\ cmd[c].at \in Working
      /\ UNCHANGED <<runs, candidates, reported, configs, earned, killed, faults>>
  BY DEF Generate, GenerateCouncils, At, Working, db, UnchangedGraders
<1>2. Continues(c, job[c]) /\ Equipment(cmd[c].at, job[c])
  BY Continuing
<1>3. CASE \E step \in {"grading", "resolve"} : Moves(c, step, job[c])
  <2>1. \A step \in {"grading", "resolve"} : Equipment(step, job[c])
    BY <1>1, <1>2 DEF Equipment, Asking
  <2>2. QED
    BY <1>1, <1>2, <1>3, <2>1, WorksOn DEF Working
<1>4. CASE Fails(c, "error")
  BY <1>1, <1>4, FailsAt
<1>5. QED
  BY <1>3, <1>4 DEF Generate, GenerateCouncils

LEMMA GradeAllAdvances ==
  ASSUME RInv, NEW c \in Commands, GradeAll(c), UNCHANGED plan PROVE Advances(c)
<1>1. /\ cmd[c].at = "grading" /\ cmd[c].at \in Working
      /\ UNCHANGED <<runs, candidates, reported, configs, earned, killed, faults>>
  BY DEF GradeAll, At, Working, db, UnchangedGraders
<1>2. Continues(c, job[c]) /\ Equipment(cmd[c].at, job[c])
  BY Continuing
<1>3. CASE Moves(c, "resolve", job[c])
  <2>1. Equipment("resolve", job[c])
    BY <1>1, <1>2 DEF Equipment, Asking
  <2>2. QED
    BY <1>1, <1>2, <1>3, <2>1, WorksOn DEF Working
<1>4. ASSUME NEW how, In(c, "screen"), Moves(c, "upsert", [job[c] EXCEPT !.result.screen = how])
      PROVE  Advances(c)
  <2> DEFINE locals == [job[c] EXCEPT !.result.screen = how]
  <2>1. Continues(c, locals) /\ locals.phase = job[c].phase /\ locals.graders = job[c].graders
    BY <1>2 DEF Continues, JobFields, Fields, NoResult
  <2>2. Moves(c, "upsert", locals)
    BY <1>4
  <2> HIDE DEF locals
  <2>3. Equipment("upsert", locals)
    BY <1>1, <1>2, <1>4, <2>1 DEF Equipment, Asking, In
  <2>4. QED
    BY <1>1, <2>1, <2>2, <2>3, WorksOn DEF Working
<1>5. CASE Fails(c, "error")
  BY <1>1, <1>5, FailsAt
<1>6. QED
  BY <1>3, <1>4, <1>5 DEF GradeAll

LEMMA ResolveAdvances ==
  ASSUME RInv, NEW c \in Commands, Resolve(c), UNCHANGED plan PROVE Advances(c)
<1> DEFINE using == ResolveGraders(job[c].graders, ResponseFamilies(c))
           locals == [job[c] EXCEPT !.using = using]
<1>1. /\ cmd[c].at = "resolve" /\ cmd[c].at \in Working
      /\ UNCHANGED <<runs, candidates, reported, configs, earned, killed>>
      /\ \E ok \in BOOLEAN : Attempt(ok)
  BY DEF Resolve, At, Working, db, UnchangedGraders
<1>2. Continues(c, job[c]) /\ Equipment(cmd[c].at, job[c])
  BY Continuing
<1>3. CASE Moves(c, "comparing", locals) /\ \A i \in DOMAIN using : using[i] # NoGrader
  <2>1. ToSet(using) \subseteq earned
    BY <1>2, <1>3, ResolvedHaveEarnedIt DEF Continues
  <2>2. /\ Continues(c, locals) /\ locals.phase = job[c].phase /\ locals.graders = job[c].graders
        /\ locals.using = using
    BY <1>2 DEF Continues, JobFields, Fields
  <2> HIDE DEF locals, using
  <2>3. Equipment("comparing", locals)
    BY <1>1, <1>2, <2>2 DEF Equipment, Asking
  <2>4. QED
    BY <1>1, <1>3, <2>1, <2>2, <2>3, WorksOn DEF Working
<1>4. CASE Fails(c, "error")
  BY <1>1, <1>4, FailsAt
<1>5. QED
  BY <1>3, <1>4 DEF Resolve

LEMMA CompareCaseAdvances ==
  ASSUME RInv, NEW c \in Commands, CompareCase(c), UNCHANGED plan PROVE Advances(c)
<1>1. /\ cmd[c].at = "comparing" /\ cmd[c].at \in Working
      /\ UNCHANGED <<runs, candidates, reported, configs, earned, killed, faults>>
  BY DEF CompareCase, At, Working, db, UnchangedGraders
<1>2. Continues(c, job[c]) /\ Equipment(cmd[c].at, job[c])
  BY Continuing
<1>3. ASSUME NEW v, NEW step \in {"cover", "compared"},
             Moves(c, step, [job[c] EXCEPT !.verdict = v, !.using = <<>>])
      PROVE  Advances(c)
  <2> DEFINE locals == [job[c] EXCEPT !.verdict = v, !.using = <<>>]
  <2>1. Continues(c, locals) /\ locals.phase = job[c].phase /\ locals.graders = job[c].graders
    BY <1>2 DEF Continues, JobFields, Fields
  <2>2. Moves(c, step, locals)
    BY <1>3
  <2> HIDE DEF locals
  <2>3. Equipment(step, locals)
    BY <1>1, <1>2, <2>1 DEF Equipment, Asking
  <2>4. QED
    BY <1>1, <2>1, <2>2, <2>3, WorksOn DEF Working
<1>4. CASE Fails(c, "error")
  BY <1>1, <1>4, FailsAt
<1>5. QED
  BY <1>3, <1>4 DEF CompareCase

LEMMA InsertSentinelAdvances ==
  ASSUME RInv, NEW c \in Commands, InsertSentinel(c), UNCHANGED plan PROVE Advances(c)
<1> DEFINE locals == [job[c] EXCEPT !.todo = Tail(@), !.verdict = "none"]
<1>1. /\ cmd[c].at = "compared" /\ cmd[c].at \in Working
      /\ UNCHANGED <<runs, candidates, reported, configs, earned, killed>>
      /\ \E ok \in BOOLEAN : Attempt(ok)
  BY DEF InsertSentinel, At, Working, UnchangedGraders
<1>2. Continues(c, job[c]) /\ Equipment(cmd[c].at, job[c])
  BY Continuing
<1>3. CASE \E step \in {"finishing", "resolve"} : Moves(c, step, locals)
  <2>1. Continues(c, locals) /\ locals.phase = job[c].phase /\ locals.graders = job[c].graders
    BY <1>2 DEF Continues, JobFields, Fields
  <2> HIDE DEF locals
  <2>2. \A step \in {"finishing", "resolve"} : Equipment(step, locals)
    BY <1>1, <1>2, <2>1 DEF Equipment, Asking
  <2>3. QED
    BY <1>1, <1>3, <2>1, <2>2, WorksOn DEF Working
<1>4. CASE Fails(c, "error")
  BY <1>1, <1>4, FailsAt
<1>5. QED
  BY <1>3, <1>4 DEF InsertSentinel

LEMMA TallyAdvances ==
  ASSUME RInv, NEW c \in Commands, Tally(c), UNCHANGED plan PROVE Advances(c)
<1> DEFINE result == IF job[c].again THEN job[c].result
                     ELSE Tallied(job[c].result, FamilyAt(c), job[c].verdict)
           tallied == [job[c] EXCEPT !.todo = Tail(@), !.verdict = "none", !.result =
                         IF job[c].again THEN @ ELSE Tallied(@, FamilyAt(c), job[c].verdict)]
           repeated == [tallied EXCEPT !.again = TRUE, !.todo = FragilityCases(c)]
           closed == [tallied EXCEPT !.again = FALSE]
<1>1. /\ cmd[c].at = "compared" /\ cmd[c].at \in Working /\ In(c, "compare")
      /\ UNCHANGED <<runs, candidates, reported, configs, earned, killed, faults>>
  BY DEF Tally, At, Working, db, UnchangedGraders
<1>2. Continues(c, job[c]) /\ Equipment(cmd[c].at, job[c])
  BY Continuing
<1>3. DOMAIN result = DOMAIN NoResult /\ result.hard \in Int
  <2>1. Worth(job[c].verdict) \in Int
    BY DEF Worth
  <2>2. DOMAIN job[c].result = DOMAIN NoResult /\ job[c].result.hard \in Int
    BY <1>2 DEF Continues
  <2>3. QED
    BY <2>1, <2>2 DEF Tallied, NoResult
<1>4. Continues(c, tallied) /\ tallied.phase = job[c].phase /\ tallied.graders = job[c].graders
  <2> HIDE DEF result
  <2>1. /\ JobFields \subseteq DOMAIN tallied /\ tallied.result = result
        /\ tallied.phase = job[c].phase /\ tallied.run = job[c].run /\ tallied.week = job[c].week
        /\ tallied.specs = job[c].specs /\ tallied.graders = job[c].graders
    BY <1>2 DEF Continues, JobFields, Fields, result
  <2>2. QED
    BY <1>2, <1>3, <2>1 DEF Continues
<1>5. /\ Continues(c, repeated) /\ repeated.phase = job[c].phase /\ repeated.graders = job[c].graders
      /\ Continues(c, closed) /\ closed.phase = job[c].phase /\ closed.graders = job[c].graders
  <2> HIDE DEF tallied
  <2>1. Continues(c, repeated) /\ repeated.phase = job[c].phase /\ repeated.graders = job[c].graders
    BY <1>4 DEF Continues, JobFields, Fields
  <2>2. Continues(c, closed) /\ closed.phase = job[c].phase /\ closed.graders = job[c].graders
    BY <1>4 DEF Continues, JobFields, Fields
  <2>3. QED
    BY <2>1, <2>2
<1>6. \/ \E step \in {"pool", "resolve"} : Moves(c, step, tallied)
      \/ Moves(c, "pool", repeated)
      \/ Moves(c, "summary", closed)
  BY DEF Tally
<1> HIDE DEF tallied, repeated, closed
<1>7. /\ \A step \in {"pool", "resolve"} : Equipment(step, tallied)
      /\ Equipment("pool", repeated) /\ Equipment("summary", closed)
  BY <1>1, <1>2, <1>4, <1>5 DEF Equipment, Asking, In
<1>8. QED
  BY <1>1, <1>4, <1>5, <1>6, <1>7, WorksOn DEF Working

LEMMA SummariseAdvances ==
  ASSUME RInv, NEW c \in Commands, Summarise(c), UNCHANGED plan PROVE Advances(c)
<1>1. /\ cmd[c].at = "summary" /\ cmd[c].at \in Working
      /\ UNCHANGED <<runs, candidates, reported, configs, earned, killed>>
      /\ \E ok \in BOOLEAN : Attempt(ok)
  BY DEF Summarise, At, Working, db, UnchangedGraders
<1>2. Continues(c, job[c]) /\ Equipment(cmd[c].at, job[c])
  BY Continuing
<1>3. ASSUME NEW p, Moves(c, "upsert", [job[c] EXCEPT !.result.profile = p])
      PROVE  Advances(c)
  <2> DEFINE locals == [job[c] EXCEPT !.result.profile = p]
  <2>1. Continues(c, locals) /\ locals.phase = job[c].phase /\ locals.graders = job[c].graders
    BY <1>2 DEF Continues, JobFields, Fields, NoResult
  <2>2. Moves(c, "upsert", locals)
    BY <1>3
  <2> HIDE DEF locals
  <2>3. Equipment("upsert", locals)
    BY <1>1, <1>2, <2>1 DEF Equipment, Asking
  <2>4. QED
    BY <1>1, <2>1, <2>2, <2>3, WorksOn DEF Working
<1>4. CASE Fails(c, "error")
  BY <1>1, <1>4, FailsAt
<1>5. QED
  BY <1>3, <1>4 DEF Summarise

LEMMA CloseCaseAdvances ==
  ASSUME RInv, NEW c \in Commands, CloseCase(c), UNCHANGED plan PROVE Advances(c)
<1> DEFINE closed == [job[c] EXCEPT !.result.net = @ + Worth(job[c].verdict), !.todo = Tail(@),
                                    !.again = FALSE, !.verdict = "none"]
           repeated == [job[c] EXCEPT !.again = TRUE, !.verdict = "none"]
<1>1. /\ cmd[c].at = "compared" /\ cmd[c].at \in Working /\ In(c, "downstream")
      /\ UNCHANGED <<runs, candidates, reported, configs, earned, killed, faults>>
  BY DEF CloseCase, At, Working, db, UnchangedGraders
<1>2. Continues(c, job[c]) /\ Equipment(cmd[c].at, job[c])
  BY Continuing
<1>3. Continues(c, closed) /\ closed.phase = job[c].phase /\ closed.graders = job[c].graders
  BY <1>2 DEF Continues, JobFields, Fields, NoResult
<1>4. Continues(c, repeated) /\ repeated.phase = job[c].phase /\ repeated.graders = job[c].graders
  BY <1>2 DEF Continues, JobFields, Fields
<1>5. \/ \E step \in {"pool", "upsert"} : Moves(c, step, closed)
      \/ Moves(c, "pool", repeated)
  BY DEF CloseCase
<1> HIDE DEF closed, repeated
<1>6. Equipment("pool", repeated) /\ \A step \in {"pool", "upsert"} : Equipment(step, closed)
  BY <1>1, <1>2, <1>3, <1>4 DEF Equipment, Asking, In
<1>7. QED
  BY <1>1, <1>3, <1>4, <1>5, <1>6, WorksOn DEF Working

-----------------------------------------------------------------------------
(***************************************************************************)
(* The steps that write rows.                                              *)
(***************************************************************************)

\* A statement on the row of the run.
LEMMA FinishFrame ==
  ASSUME RInv, NEW c \in Commands, NEW r, NEW status \in Statuses, NEW ok \in BOOLEAN,
         NEW why \in {"statement", "unstarted"}, Sets(r, status, ok, why),
         r \in DOMAIN runs =>
           /\ runs[r].by = c \/ (status \in Final /\ Available(r))
           /\ status \in Final \/ runs[r].status \notin Final,
         DOMAIN cmd' = Commands, DOMAIN job' = Commands, Others(c),
         UNCHANGED <<candidates, reported, configs, earned, killed>>,
         UNCHANGED faults \/ \E y \in BOOLEAN : Attempt(y)
  PROVE  /\ Frame(c) /\ DOMAIN runs' = DOMAIN runs
         /\ \A q \in DOMAIN runs \ {r} : runs'[q] = runs[q]
         /\ r \in DOMAIN runs => runs'[r].lost # "none" \/ runs'[r].status = status
<1>1. RunsGrow(c) /\ DOMAIN runs' = DOMAIN runs
  BY RunFinished
<1>2. RowsGrow(c)
  BY <1>1, SameCandidates
<1>3. QED
  BY <1>1, <1>2, RowFinished, FrameOf

\* What a function that works on a row leaves open besides it is the week's.
LEMMA OpenRows ==
  ASSUME RInv, NEW c \in Commands, Runs(c), NEW r \in DOMAIN runs, runs[r].by = c, runs[r].lost = "none",
         runs[r].status \notin Final
  PROVE  \/ /\ r = job[c].run
            /\ \/ cmd[c].at \in Working /\ ~In(c, "promotion")
               \/ cmd[c].at = "returned" /\ In(c, "adopted") /\ job[c].err = "none"
               \/ cmd[c].at = "enter" /\ In(c, "downstream")
         \/ r = job[c].week /\ cmd[c].at \notin {"report", "exited"}
  BY DEF RInv, Mine, Accounted, Holds

\* The run a command works on is its own or one it may be given.
LEMMA OwnOrAvailable ==
  ASSUME RInv, NEW c \in Commands, cmd[c].at \in Working \/ (cmd[c].at = "enter" /\ In(c, "downstream"))
  PROVE  job[c].run # 0 /\ (runs[job[c].run].by = c \/ Available(job[c].run))
  BY DEF RInv, Mine, Ranged, Borrowed

\* Returned, from a step that has finished the row of the run.
LEMMA ReturnsAfter ==
  ASSUME RInv, NEW c \in Commands, Runs(c), cmd[c].at \in Working, NEW status \in Final, NEW ok \in BOOLEAN,
         Finish(job[c].run, status, ok), NEW err, Returned(c, err),
         UNCHANGED <<candidates, reported, configs, earned, killed>>,
         UNCHANGED faults \/ \E y \in BOOLEAN : Attempt(y)
  PROVE  Advances(c)
<1> DEFINE locals == [job[c] EXCEPT !.err = err]
<1>1. Continues(c, locals)
  BY Continuing DEF Continues, JobFields, Fields
<1>2. Moves(c, "returned", locals)
  BY DEF Returned
<1> HIDE DEF locals
<1>3. status \in Statuses
  BY DEF Final, Statuses
<1>4. /\ Frame(c) /\ DOMAIN runs' = DOMAIN runs
      /\ \A q \in DOMAIN runs \ {job[c].run} : runs'[q] = runs[q]
      /\ job[c].run \in DOMAIN runs => runs'[job[c].run].lost # "none" \/ runs'[job[c].run].status = status
  <2>1. DOMAIN cmd' = Commands /\ DOMAIN job' = Commands /\ Others(c)
    BY <1>2, MovesOn
  <2>2. Sets(job[c].run, status, ok, "statement")
    BY DEF Finish
  <2>3. QED
    BY <1>3, <2>1, <2>2, OwnOrAvailable, FinishFrame
<1>5. job[c].run # 0
  BY DEF RInv, Mine, Ranged
<1>6. ASSUME NEW r \in DOMAIN runs', runs'[r].by = c, runs'[r].lost = "none", r # job[c].week
      PROVE  runs'[r].status \in Final
  BY <1>4, <1>6, OpenRows
<1>7. QED
  BY <1>1, <1>2, <1>4, <1>5, <1>6, ReturnsTo

\* Returned, where no row was written and none is the function's to settle.
LEMMA ReturnsFrom ==
  ASSUME RInv, NEW c \in Commands, Runs(c), NEW err, err # "none", Returned(c, err),
         \/ cmd[c].at \in {"create", "promote"}
         \/ cmd[c].at = "enter" /\ ~In(c, "downstream")
         \/ cmd[c].at \in Working /\ In(c, "promotion"),
         UNCHANGED <<runs, candidates, reported, configs, earned, killed>>,
         UNCHANGED faults \/ \E y \in BOOLEAN : Attempt(y)
  PROVE  Advances(c)
<1> DEFINE locals == [job[c] EXCEPT !.err = err]
<1>1. Continues(c, locals) /\ locals.err # "none"
  BY Continuing DEF Continues, JobFields, Fields
<1>2. Moves(c, "returned", locals)
  BY DEF Returned
<1> HIDE DEF locals
<1>3. Frame(c)
  BY <1>2, MovesOn, SamePlace
<1>4. ASSUME NEW r \in DOMAIN runs', runs'[r].by = c, runs'[r].lost = "none", r # job[c].week
      PROVE  runs'[r].status \in Final
  BY <1>4, OpenRows DEF Working
<1>5. QED
  BY <1>1, <1>2, <1>3, <1>4, ReturnsTo

LEMMA BlockAdvances ==
  ASSUME RInv, NEW c \in Commands, Block(c), UNCHANGED plan PROVE Advances(c)
<1>1. /\ cmd[c].at = "blocked" /\ cmd[c].at \in Working /\ Runs(c)
      /\ UNCHANGED <<candidates, reported, configs, earned, killed>>
  BY DEF Block, At, Working, UnchangedGraders
<1>2. PICK ok \in BOOLEAN : Attempt(ok) /\ Finish(job[c].run, "blocked", ok)
                            /\ (Returned(c, "drift") \/ Fails(c, "drift"))
  BY DEF Block
<1>3. "blocked" \in Final /\ "blocked" \in Statuses
  BY DEF Final, Statuses
<1>4. CASE Returned(c, "drift")
  BY <1>1, <1>2, <1>3, <1>4, ReturnsAfter
<1>5. CASE Fails(c, "drift")
  <2> DEFINE locals == [job[c] EXCEPT !.err = "drift"]
  <2>1. Continues(c, locals)
    BY Continuing DEF Continues, JobFields, Fields
  <2>2. Moves(c, "failing", locals)
    BY <1>5 DEF Fails
  <2> HIDE DEF locals
  <2>3. Equipment("failing", locals)
    BY DEF Equipment, Asking
  <2>4. DOMAIN cmd' = Commands /\ DOMAIN job' = Commands /\ Others(c) /\ \E y \in BOOLEAN : Attempt(y)
    BY <1>2, <2>2, MovesOn
  <2>5. /\ Frame(c) /\ DOMAIN runs' = DOMAIN runs
        /\ \A q \in DOMAIN runs \ {job[c].run} : runs'[q] = runs[q]
    <3>1. Sets(job[c].run, "blocked", ok, "statement")
      BY <1>2 DEF Finish
    <3>2. QED
      BY <1>1, <1>2, <1>3, <2>4, <3>1, OwnOrAvailable, FinishFrame
  <2>6. QED
    BY <1>1, <2>1, <2>2, <2>3, <2>5, WorksOnWith DEF Working
<1>6. QED
  BY <1>2, <1>4, <1>5

LEMMA CompleteAdvances ==
  ASSUME RInv, NEW c \in Commands, Complete(c), UNCHANGED plan PROVE Advances(c)
<1>1. /\ cmd[c].at = "finishing" /\ cmd[c].at \in Working /\ Runs(c)
      /\ UNCHANGED <<candidates, reported, configs, earned, killed>>
  BY DEF Complete, At, Working, UnchangedGraders
<1>2. PICK ok \in BOOLEAN : Attempt(ok) /\ Finish(job[c].run, "complete", ok)
                            /\ \E err : Returned(c, err)
  BY DEF Complete
<1>3. "complete" \in Final
  BY DEF Final
<1>4. QED
  BY <1>1, <1>2, <1>3, ReturnsAfter

LEMMA FailRunAdvances ==
  ASSUME RInv, NEW c \in Commands, FailRun(c), UNCHANGED plan PROVE Advances(c)
<1>1. /\ cmd[c].at = "failing" /\ cmd[c].at \in Working /\ Runs(c)
      /\ UNCHANGED <<candidates, reported, configs, earned, killed>>
  BY DEF FailRun, At, Working, UnchangedGraders
<1>2. PICK ok \in BOOLEAN : Attempt(ok) /\ Finish(job[c].run, "failed", ok)
                            /\ \E err : Returned(c, err)
  BY DEF FailRun
<1>3. "failed" \in Final
  BY DEF Final
<1>4. QED
  BY <1>1, <1>2, <1>3, ReturnsAfter

LEMMA MarkRunningAdvances ==
  ASSUME RInv, NEW c \in Commands, MarkRunning(c), UNCHANGED plan PROVE Advances(c)
<1>1. /\ cmd[c].at = "running" /\ cmd[c].at \in Working /\ Runs(c)
      /\ UNCHANGED <<candidates, reported, configs, earned, killed>>
  BY DEF MarkRunning, At, Working, UnchangedGraders
<1>2. PICK ok \in BOOLEAN :
        /\ Attempt(ok)
        /\ Sets(job[c].run, "running", ok, "unstarted")
        /\ CASE ~ok -> Returned(c, "error")
             [] ok /\ In(c, "weekly") -> Moves(c, "returned", [job[c] EXCEPT !.week = job[c].run, !.run = 0])
             [] ok /\ In(c, "adopted") -> Returned(c, "none")
             [] ok /\ In(c, "sentinel") -> Moves(c, "pair", job[c])
             [] ok /\ In(c, "screen") -> Moves(c, "screenOne", job[c])
             [] OTHER -> Moves(c, "drift", job[c])
  BY DEF MarkRunning
<1>3. Mine(c) /\ Continues(c, job[c]) /\ Equipment(cmd[c].at, job[c])
  BY Continuing DEF RInv
<1>4. /\ job[c].run # 0 /\ runs[job[c].run].by = c /\ ~In(c, "promotion")
      /\ runs[job[c].run].status \notin Final /\ "running" \in Statuses
  BY <1>1, <1>3 DEF Mine, Ranged, Uncompared, BeforeResult, Available, Tidy, Statuses, Working
<1>5. ASSUME DOMAIN cmd' = Commands, DOMAIN job' = Commands, Others(c)
      PROVE  /\ Frame(c) /\ DOMAIN runs' = DOMAIN runs
             /\ \A q \in DOMAIN runs \ {job[c].run} : runs'[q] = runs[q]
             /\ job[c].run \in DOMAIN runs =>
                  runs'[job[c].run].lost # "none" \/ runs'[job[c].run].status = "running"
  <2>1. \E y \in BOOLEAN : Attempt(y)
    BY <1>2
  <2>2. Sets(job[c].run, "running", ok, "unstarted") /\ runs[job[c].run].by = c
    BY <1>2, <1>4
  <2>3. PICK r, status : r = job[c].run /\ status = "running"
    OBVIOUS
  <2>4. /\ Sets(r, status, ok, "unstarted") /\ status \in Statuses
        /\ runs[r].by = c /\ runs[r].status \notin Final
    BY <1>4, <2>2, <2>3
  <2>5. /\ Frame(c) /\ DOMAIN runs' = DOMAIN runs
        /\ \A q \in DOMAIN runs \ {r} : runs'[q] = runs[q]
        /\ r \in DOMAIN runs => runs'[r].lost # "none" \/ runs'[r].status = status
    BY <1>1, <1>5, <2>1, <2>4, FinishFrame
  <2>6. QED
    BY <2>3, <2>5
<1>6. CASE ~ok
  <2> DEFINE locals == [job[c] EXCEPT !.err = "error"]
  <2>1. Continues(c, locals) /\ locals.err = "error"
    BY <1>3 DEF Continues, JobFields, Fields
  <2>2. Moves(c, "returned", locals)
    BY <1>2, <1>6 DEF Returned
  <2> HIDE DEF locals
  <2>3. /\ Frame(c) /\ DOMAIN runs' = DOMAIN runs
        /\ \A q \in DOMAIN runs \ {job[c].run} : runs'[q] = runs[q]
    BY <1>5, <2>2, MovesOn
  <2>4. job[c].run \in DOMAIN runs => runs'[job[c].run].lost # "none"
    <3>1. \A q \in DOMAIN runs : {"kind", "by", "status", "lost"} \subseteq DOMAIN runs[q]
      BY DEF RInv, RunsRight
    <3>2. QED
      BY <1>2, <1>6, <3>1 DEF Sets, WithLost
  <2>5. ASSUME NEW r \in DOMAIN runs', runs'[r].by = c, runs'[r].lost = "none", r # job[c].week
        PROVE  runs'[r].status \in Final
    BY <1>1, <2>3, <2>4, <2>5, OpenRows
  <2>6. QED
    BY <1>1, <2>1, <2>2, <2>3, <2>5, ReturnsTo
<1>7. CASE ok /\ In(c, "adopted")
  <2> DEFINE locals == [job[c] EXCEPT !.err = "none"]
  <2>1. Continues(c, locals) /\ locals.err = "none"
    BY <1>3 DEF Continues, JobFields, Fields
  <2>2. Moves(c, "returned", locals)
    BY <1>2, <1>7 DEF Returned, In
  <2> HIDE DEF locals
  <2>3. /\ Frame(c) /\ DOMAIN runs' = DOMAIN runs
        /\ \A q \in DOMAIN runs \ {job[c].run} : runs'[q] = runs[q]
    BY <1>5, <2>2, MovesOn
  <2>4. ASSUME NEW r \in DOMAIN runs', runs'[r].by = c, runs'[r].lost = "none", r # job[c].week
        PROVE  runs'[r].status \in Final \/ (locals.phase = "adopted" /\ r = job[c].run)
    BY <1>1, <1>7, <2>1, <2>3, <2>4, OpenRows DEF Continues, In
  <2>5. QED
    BY <1>1, <1>4, <2>1, <2>2, <2>3, <2>4, ReturnsTo
<1>8. CASE ok /\ In(c, "weekly")
  <2> DEFINE locals == [job[c] EXCEPT !.week = job[c].run, !.run = 0]
  <2>1. /\ JobFields \subseteq DOMAIN locals /\ locals.week = job[c].run /\ locals.run = 0
        /\ locals.phase = job[c].phase /\ locals.graders = job[c].graders /\ locals.err = job[c].err
        /\ locals.result = job[c].result
    BY <1>3 DEF Continues, JobFields, Fields
  <2>2. Moves(c, "returned", locals)
    <3>1. ~In(c, "adopted") /\ ~In(c, "sentinel") /\ ~In(c, "screen")
      BY <1>8 DEF In
    <3>2. QED
      BY <1>2, <1>8, <3>1
  <2> HIDE DEF locals
  <2>3. /\ Frame(c) /\ DOMAIN runs' = DOMAIN runs
        /\ \A q \in DOMAIN runs \ {job[c].run} : runs'[q] = runs[q]
    BY <1>5, <2>2, MovesOn
  <2>4. /\ job'[c] = locals /\ DOMAIN cmd'[c] = DOMAIN cmd[c]
        /\ cmd'[c].at = "returned" /\ cmd'[c].exit = cmd[c].exit /\ cmd'[c].script = cmd[c].script
    BY <2>2, MovesOn
  <2>5. Tidy(c)'
    BY <1>1, <1>3, <1>8, <2>1, <2>4 DEF Mine, Tidy, In, Invocations, Opening
  <2>6. Equipment(cmd[c].at, job[c])'
    BY <2>4 DEF Equipment, Asking
  <2>7. Ranged(c)'
    <3>1. job[c].run \in 0..Len(runs') /\ Len(runs') \in Nat
      BY <2>3, StillRanged, LengthOfRuns DEF Frame, RunsGrow, RunsRight
    <3>2. runs'[job[c].run].by = c
      BY <1>4, <2>3, StillRanged DEF Frame
    <3>3. QED
      BY <1>8, <2>1, <2>4, <3>1, <3>2 DEF Ranged, Working, In
  <2>8. Accounted(c)'
    <3>1. ASSUME NEW r \in DOMAIN runs', runs'[r].by = c, runs'[r].lost = "none", runs'[r].status \notin Final
          PROVE  r = locals.week
      <4>1. CASE r # job[c].run
        <5>1. r = job[c].week
          BY <1>1, <2>3, <3>1, <4>1, OpenRows
        <5>2. job[c].week = 0 /\ DOMAIN runs = 1..Len(runs)
          BY <1>1, <1>3, <1>8, LengthOfRuns DEF Mine, Tidy, RInv
        <5>3. QED
          BY <2>3, <5>1, <5>2
      <4>2. QED
        BY <2>1, <4>1
    <3>2. QED
      BY <2>4, <3>1 DEF Accounted, Holds
  <2>9. Uncompared(c)' /\ Snapshot(c)' /\ Judged(c)' /\ Borrowed(c)'
    BY <2>1, <2>4 DEF Uncompared, BeforeResult, Snapshot, Judged, Working, Borrowed
  <2>10. earned \subseteq earned'
    BY <2>3 DEF Frame
  <2>11. Qualified(c)'
    BY <1>3, <2>1, <2>4, <2>10 DEF Qualified, Continues, ToSet
  <2>12. QED
    BY <2>3, <2>5, <2>6, <2>7, <2>8, <2>9, <2>11 DEF Advances, Mine
<1>9. CASE ok /\ ~In(c, "weekly") /\ ~In(c, "adopted")
  <2>1. PICK step \in {"pair", "screenOne", "drift"} :
          /\ Moves(c, step, job[c])
          /\ step = "pair" => In(c, "sentinel")
          /\ step = "screenOne" => In(c, "screen")
          /\ step = "drift" => ~In(c, "screen") /\ ~In(c, "sentinel")
    <3>1. CASE In(c, "sentinel")
      BY <1>2, <1>9, <3>1 DEF In
    <3>2. CASE In(c, "screen")
      BY <1>2, <1>9, <3>2 DEF In
    <3>3. CASE ~In(c, "sentinel") /\ ~In(c, "screen")
      BY <1>2, <1>9, <3>3
    <3>4. QED
      BY <3>1, <3>2, <3>3
  <2>2. Equipment(step, job[c])
    BY <1>1, <1>3, <2>1 DEF Equipment, Asking, In
  <2>3. /\ Frame(c) /\ DOMAIN runs' = DOMAIN runs
        /\ \A q \in DOMAIN runs \ {job[c].run} : runs'[q] = runs[q]
    BY <1>5, <2>1, MovesOn
  <2>4. runs'[job[c].run].status \notin Final
    <3>1. job[c].run \in DOMAIN runs /\ {"kind", "by", "status", "lost"} \subseteq DOMAIN runs[job[c].run]
      BY <1>4, <2>3, StillRanged DEF RInv, RunsRight, Frame
    <3>2. QED
      BY <1>2, <1>9, <3>1 DEF Sets, WithStatus, Final
  <2>5. QED
    BY <1>1, <1>3, <1>4, <2>1, <2>2, <2>3, <2>4, WorksOnWith DEF Working
<1>10. QED
  BY <1>6, <1>7, <1>8, <1>9

-----------------------------------------------------------------------------
(***************************************************************************)
(* From one function to the next.                                          *)
(***************************************************************************)

Turning == {"load", "check", "sync", "enter", "create", "promote", "settle", "report"}

\* What the function that comes next has to find in its locals.
Whole(step, locals) ==
  /\ JobFields \subseteq DOMAIN locals
  /\ DOMAIN locals.result = DOMAIN NoResult /\ locals.result.hard \in Int
  /\ step \in Opening => locals.week = 0 /\ locals.run = 0
  /\ locals.phase = "weekly" /\ step \in {"enter", "create"} => locals.week = 0
  /\ locals.phase = "adopted" => locals.week # 0
  /\ locals.phase = "promotion" => step \notin Opening \cup {"enter", "create"}
  /\ step = "create" => locals.phase # "downstream"
  /\ step = "check" => locals.phase = "weekly"
  /\ step = "promote" => locals.phase = "promotion"
  /\ locals.phase = "screen" /\ step = "create" => Len(locals.graders) = 1
  /\ locals.phase = "downstream" /\ step = "enter" => locals.run # 0

LEMMA Handover ==
  ASSUME RInv, NEW c \in Commands, Frame(c), cmd[c].at # "done",
         NEW step \in Turning, NEW locals, Moves(c, step, locals), Whole(step, locals),
         step = "sync" => cmd[c].pos \in Nat \ {0},
         ToSet(locals.graders) \subseteq earned,
         locals.run \in 0..Len(runs'), locals.week \in 0..Len(runs'),
         locals.week # 0 => runs'[locals.week].by = c,
         locals.phase \in Comparing /\ locals.run # 0 => runs'[locals.run].kind = "compare",
         \A r \in DOMAIN runs' :
           runs'[r].by = c /\ runs'[r].lost = "none" =>
             \/ runs'[r].status \in Final
             \/ r = locals.run /\ step = "enter" /\ locals.phase = "downstream"
             \/ r = locals.week /\ step # "report",
         step \in {"enter", "create", "promote"} /\ locals.run # 0 /\ runs'[locals.run].by # c =>
           /\ locals.phase \in {"downstream", "promotion"} /\ locals.week = 0
           /\ Available(job[c].run)'
  PROVE  Advances(c)
<1>1. /\ job'[c] = locals /\ DOMAIN cmd'[c] = DOMAIN cmd[c]
      /\ cmd'[c].at = step /\ cmd'[c].exit = cmd[c].exit /\ cmd'[c].script = cmd[c].script
      /\ cmd'[c].pos = cmd[c].pos
  BY MovesOn
<1>2. Mine(c)
  BY DEF RInv
<1>3. Tidy(c)'
  BY <1>1, <1>2 DEF Mine, Tidy, Whole, In, Invocations, Opening, Working, Turning
<1>4. Equipment(cmd[c].at, job[c])'
  BY <1>1 DEF Equipment, Asking, Turning, Whole
<1>5. Ranged(c)'
  BY <1>1 DEF Ranged, Working, In, Turning, Whole
<1>6. Accounted(c)'
  BY <1>1 DEF Accounted, Holds, In, Turning
<1>7. Uncompared(c)' /\ Snapshot(c)' /\ Judged(c)'
  BY <1>1 DEF Uncompared, BeforeResult, Snapshot, Judged, Working, Turning
<1>8. Borrowed(c)'
  BY <1>1, <1>2 DEF Borrowed, Working, Turning
<1>9. Qualified(c)'
  BY <1>1 DEF Qualified, ToSet, Frame, Turning
<1>10. QED
  BY <1>3, <1>4, <1>5, <1>6, <1>7, <1>8, <1>9 DEF Advances, Mine

\* The invocation at hand is one of the plan's.
LEMMA FlagLegal ==
  ASSUME RInv, NEW c \in Commands, cmd[c].at # "done"
  PROVE  /\ Flag(c).kind \in {"status", "calibrate", "weekly", "sentinel", "screen", "compare", "downstream"}
         /\ Flag(c).file \in Seq([hash : Hashes, key : Nat, role : STRING])
<1>1. cmd[c].script \in Seq(Invocations) /\ cmd[c].script # <<>>
  BY DEF RInv, Mine, Tidy
<1>2. Flag(c) \in Invocations
  BY <1>1 DEF Flag
<1>3. QED
  BY <1>2, PlanConstants

LEMMA OpenAdvances ==
  ASSUME RInv, NEW c \in Commands, Open(c), UNCHANGED plan PROVE Advances(c)
<1> DEFINE step == FirstStep(Flag(c).kind)
           locals == [job[c] EXCEPT !.phase = Flag(c).kind]
<1>1. /\ cmd[c].at = "start" /\ Runs(c) /\ cmd[c].at \in Opening
      /\ UNCHANGED <<runs, candidates, reported, configs, earned, killed>>
      /\ \E ok \in BOOLEAN : Attempt(ok)
  BY DEF Open, At, Opening, db, UnchangedGraders
<1>2. /\ \A r \in DOMAIN runs : runs[r].by = c /\ runs[r].lost = "none" => runs[r].status \in Final
      /\ job[c].week = 0 /\ job[c].run = 0
  BY <1>1, OpeningSettled
<1>3. Continues(c, job[c]) /\ Mine(c)
  BY Continuing DEF RInv
<1>4. CASE Exits(c, "error") /\ UNCHANGED job
  <2>1. DOMAIN cmd' = Commands /\ DOMAIN job' = Commands /\ Others(c)
    BY <1>4 DEF Exits, Others, RInv
  <2>2. Frame(c)
    BY <1>1, <2>1, SamePlace
  <2>3. QED
    BY <1>1, <1>2, <1>4, <2>2, ExitsAt DEF Codes
<1>5. CASE Moves(c, step, locals)
  <2>1. Frame(c)
    BY <1>1, <1>5, MovesOn, SamePlace
  <2>2. /\ JobFields \subseteq DOMAIN locals /\ locals.result = job[c].result
        /\ locals.week = 0 /\ locals.run = 0 /\ locals.graders = job[c].graders
        /\ locals.phase = Flag(c).kind
    BY <1>2, <1>3 DEF Continues, JobFields, Fields
  <2>3. /\ locals.phase \in {"status", "calibrate", "weekly", "sentinel", "screen", "compare", "downstream"}
        /\ step \in {"sync", "check", "enter", "load"} /\ step \in Turning
        /\ step = "check" => locals.phase = "weekly"
        /\ step = "enter" => locals.phase = "sentinel"
    BY <1>1, <2>2, FlagLegal DEF FirstStep, Turning
  <2> HIDE DEF locals, step
  <2>4. Whole(step, locals)
    BY <1>3, <2>2, <2>3 DEF Whole, Continues, Opening
  <2>5. cmd[c].pos \in Nat \ {0}
    BY <1>1, <1>3 DEF Mine, Tidy
  <2>6. /\ locals.run \in 0..Len(runs') /\ locals.week \in 0..Len(runs')
        /\ ToSet(locals.graders) \subseteq earned
        /\ \A r \in DOMAIN runs' : runs'[r].by = c /\ runs'[r].lost = "none" => runs'[r].status \in Final
    BY <1>1, <1>2, <1>3, <2>2, LengthOfRuns DEF RInv, Continues
  <2>7. QED
    BY <1>1, <1>5, <2>1, <2>2, <2>3, <2>4, <2>5, <2>6, Handover
<1>6. QED
  BY <1>4, <1>5 DEF Open

LEMMA LoadAdvances ==
  ASSUME RInv, NEW c \in Commands, Load(c), UNCHANGED plan PROVE Advances(c)
<1>1. /\ cmd[c].at = "load" /\ Runs(c) /\ cmd[c].at \in Opening
      /\ UNCHANGED <<runs, candidates, reported, configs, earned, killed, faults>>
  BY DEF Load, At, Opening, db, UnchangedGraders
<1>2. /\ \A r \in DOMAIN runs : runs[r].by = c /\ runs[r].lost = "none" => runs[r].status \in Final
      /\ job[c].week = 0 /\ job[c].run = 0
  BY <1>1, OpeningSettled
<1>3. Continues(c, job[c]) /\ Mine(c) /\ ~In(c, "promotion") /\ ~In(c, "adopted")
  BY <1>1, <1>2, Continuing DEF RInv, Mine, Tidy
<1>4. ASSUME NEW code \in Codes, Exits(c, code), UNCHANGED job PROVE Advances(c)
  <2>1. DOMAIN cmd' = Commands /\ DOMAIN job' = Commands /\ Others(c)
    BY <1>4 DEF Exits, Others, RInv
  <2>2. Frame(c)
    BY <1>1, <2>1, SamePlace
  <2>3. QED
    BY <1>1, <1>2, <1>4, <2>2, ExitsAt
<1>5. ASSUME NEW locals, Moves(c, "enter", locals), JobFields \subseteq DOMAIN locals,
             locals.result = job[c].result, locals.week = 0, locals.graders = job[c].graders,
             locals.phase = job[c].phase, In(c, "downstream") => locals.run # 0,
             \/ locals.run = 0
             \/ /\ In(c, "downstream") /\ locals.run \in DOMAIN runs
                /\ runs[locals.run].kind = "compare" /\ Available(locals.run)
      PROVE  Advances(c)
  <2>1. Frame(c)
    BY <1>1, <1>5, MovesOn, SamePlace
  <2>2. Whole("enter", locals)
    BY <1>3, <1>5 DEF Whole, Continues, Opening, In
  <2>3. /\ locals.run \in 0..Len(runs') /\ locals.week \in 0..Len(runs')
        /\ ToSet(locals.graders) \subseteq earned /\ "enter" \in Turning
    BY <1>1, <1>3, <1>5, LengthOfRuns DEF RInv, Continues, Turning
  <2>4. locals.run # 0 /\ runs'[locals.run].by # c =>
           /\ locals.phase \in {"downstream", "promotion"} /\ locals.week = 0
           /\ Available(job[c].run)'
    <3>1. job'[c] = locals
      BY <1>5, MovesOn
    <3>2. QED
      BY <1>1, <1>5, <3>1 DEF In, Available
  <2>5. QED
    BY <1>1, <1>2, <1>5, <2>1, <2>2, <2>3, <2>4, Handover
<1>6. CASE In(c, "screen") /\ Moves(c, "enter", [job[c] EXCEPT !.specs = Flag(c).candidates])
  <2> DEFINE locals == [job[c] EXCEPT !.specs = Flag(c).candidates]
  <2>1. /\ JobFields \subseteq DOMAIN locals /\ locals.result = job[c].result /\ locals.week = 0
        /\ locals.graders = job[c].graders /\ locals.phase = job[c].phase /\ locals.run = 0
    BY <1>2, <1>3 DEF Continues, JobFields, Fields
  <2>2. Moves(c, "enter", locals) /\ ~In(c, "downstream")
    BY <1>6 DEF In
  <2> HIDE DEF locals
  <2>3. QED
    BY <1>5, <2>1, <2>2
<1>7. ASSUME NEW i \in Meant(c), NEW r \in IF In(c, "downstream") THEN RunsWith(Flag(c).key) ELSE {0},
             Moves(c, "enter", [job[c] EXCEPT !.specs = <<Flag(c).candidates[i]>>, !.run = r])
      PROVE  Advances(c)
  <2> DEFINE locals == [job[c] EXCEPT !.specs = <<Flag(c).candidates[i]>>, !.run = r]
  <2>1. /\ JobFields \subseteq DOMAIN locals /\ locals.result = job[c].result /\ locals.week = 0
        /\ locals.graders = job[c].graders /\ locals.phase = job[c].phase /\ locals.run = r
        /\ locals.specs = <<Flag(c).candidates[i]>>
    BY <1>2, <1>3 DEF Continues, JobFields, Fields
  <2>2. Moves(c, "enter", locals)
    BY <1>7
  <2> HIDE DEF locals
  <2>4. In(c, "downstream") => r \in DOMAIN runs /\ runs[r].kind = "compare" /\ Available(r)
    BY <1>7 DEF RunsWith, Available
  <2>5. ~In(c, "downstream") => r = 0
    BY <1>7
  <2>6. In(c, "downstream") => r # 0
    BY <2>4, LengthOfRuns DEF RInv
  <2>7. QED
    BY <1>5, <2>1, <2>2, <2>4, <2>5, <2>6
<1>8. "error" \in Codes /\ "validation" \in Codes
  BY DEF Codes
<1>9. CASE ~Flag(c).readable /\ Exits(c, "error") /\ UNCHANGED job
  BY <1>4, <1>8, <1>9
<1>10. QED
  BY <1>4, <1>6, <1>7, <1>8, <1>9 DEF Load

LEMMA CheckPackAdvances ==
  ASSUME RInv, NEW c \in Commands, CheckPack(c), UNCHANGED plan PROVE Advances(c)
<1>1. /\ cmd[c].at = "check" /\ Runs(c) /\ cmd[c].at \in Opening
      /\ UNCHANGED <<runs, candidates, reported, configs, earned, killed, faults>>
  BY DEF CheckPack, At, Opening, db, UnchangedGraders
<1>2. /\ \A r \in DOMAIN runs : runs[r].by = c /\ runs[r].lost = "none" => runs[r].status \in Final
      /\ job[c].week = 0 /\ job[c].run = 0
  BY <1>1, OpeningSettled
<1>3. Continues(c, job[c]) /\ Mine(c) /\ job[c].phase = "weekly"
  BY <1>1, Continuing DEF RInv, Mine, Tidy, In
<1>4. CASE Exits(c, "error") /\ UNCHANGED job
  <2>1. DOMAIN cmd' = Commands /\ DOMAIN job' = Commands /\ Others(c)
    BY <1>4 DEF Exits, Others, RInv
  <2>2. Frame(c)
    BY <1>1, <2>1, SamePlace
  <2>3. QED
    BY <1>1, <1>2, <1>4, <2>2, ExitsAt DEF Codes
<1>5. CASE Moves(c, "enter", job[c])
  <2>1. Frame(c)
    BY <1>1, <1>5, MovesOn, SamePlace
  <2>2. Whole("enter", job[c]) /\ "enter" \in Turning
    BY <1>2, <1>3 DEF Whole, Continues, Opening, Turning
  <2>3. /\ job[c].run \in 0..Len(runs') /\ job[c].week \in 0..Len(runs')
        /\ ToSet(job[c].graders) \subseteq earned
        /\ \A r \in DOMAIN runs' : runs'[r].by = c /\ runs'[r].lost = "none" => runs'[r].status \in Final
    BY <1>1, <1>2, <1>3, LengthOfRuns DEF RInv, Continues
  <2>4. QED
    BY <1>1, <1>2, <1>5, <2>1, <2>2, <2>3, Handover
<1>6. QED
  BY <1>4, <1>5 DEF CheckPack

-----------------------------------------------------------------------------
(***************************************************************************)
(* The beginning of a function: Enter and Create.                          *)
(***************************************************************************)

LEMMA EnterAdvances ==
  ASSUME RInv, NEW c \in Commands, Enter(c), UNCHANGED plan PROVE Advances(c)
<1> DEFINE locals == [job[c] EXCEPT !.todo = CasesToEnter(c),
                                    !.graders = IF In(c, "screen") THEN <<ScreeningGrader>> ELSE <<>>]
<1>1. /\ cmd[c].at = "enter" /\ Runs(c)
      /\ UNCHANGED <<candidates, reported, configs, earned, killed>>
      /\ \E ok \in BOOLEAN : Attempt(ok)
  BY DEF Enter, At, UnchangedGraders
<1>2. Continues(c, job[c]) /\ Mine(c)
  BY Continuing DEF RInv
<1>3. CASE In(c, "downstream") /\ Returned(c, "error") /\ runs' = WithLost(job[c].run, "unread")
  <2> DEFINE failed == [job[c] EXCEPT !.err = "error"]
  <2>1. Continues(c, failed) /\ failed.err = "error"
    BY <1>2 DEF Continues, JobFields, Fields
  <2>2. Moves(c, "returned", failed)
    BY <1>3 DEF Returned
  <2> HIDE DEF failed
  <2>3. RunsGrow(c) /\ DOMAIN runs' = DOMAIN runs
    <3>1. "failed" \in Statuses /\ "failed" \in Final
      BY DEF Statuses, Final
    <3>2. job[c].run # 0 /\ (runs[job[c].run].by = c \/ Available(job[c].run))
      BY <1>1, <1>3, OwnOrAvailable
    <3>3. runs[job[c].run].kind = "compare"
      BY <1>2, <1>3, <3>2 DEF Mine, Ranged, In, Comparing
    <3>4. QED
      BY <1>3, <3>1, <3>2, <3>3, RowChanged
  <2>4. Frame(c)
    <3>1. DOMAIN cmd' = Commands /\ DOMAIN job' = Commands /\ Others(c)
      BY <2>2, MovesOn
    <3>2. RowsGrow(c)
      BY <1>1, <2>3, SameCandidates
    <3>3. QED
      BY <1>1, <2>3, <3>1, <3>2, FrameOf
  <2>5. ASSUME NEW r \in DOMAIN runs', runs'[r].by = c, runs'[r].lost = "none", r # job[c].week
        PROVE  runs'[r].status \in Final
    <3>1. {"kind", "by", "status", "lost"} \subseteq DOMAIN runs[r] /\ r \in DOMAIN runs
      BY <2>3, <2>5 DEF RInv, RunsRight
    <3>2. r # job[c].run /\ runs'[r] = runs[r]
      BY <1>3, <2>5, <3>1 DEF WithLost
    <3>3. QED
      BY <1>1, <2>5, <3>1, <3>2, OpenRows
  <2>6. QED
    BY <1>1, <2>1, <2>2, <2>4, <2>5, ReturnsTo
<1>4. CASE ~In(c, "downstream") /\ Returned(c, "error") /\ runs' = runs
  BY <1>1, <1>4, ReturnsFrom
<1>5. ASSUME Moves(c, IF In(c, "downstream") THEN "drift" ELSE "create", locals), UNCHANGED runs,
             ~CannotEnter(c)
      PROVE  Advances(c)
  <2>1. /\ JobFields \subseteq DOMAIN locals
        /\ locals.phase = job[c].phase /\ locals.run = job[c].run
        /\ locals.week = job[c].week /\ locals.specs = job[c].specs /\ locals.result = job[c].result
        /\ locals.graders = IF In(c, "screen") THEN <<ScreeningGrader>> ELSE <<>>
    BY <1>2 DEF Continues, JobFields, Fields
  <2> HIDE DEF locals
  <2>2. /\ ToSet(locals.graders) \subseteq earned
        /\ In(c, "screen") => Len(locals.graders) = 1
    <3>1. CASE In(c, "screen")
      <4>1. ScreeningGrader \in earned
        BY <1>5, <3>1, ScreeningHasEarnedIt DEF CannotEnter
      <4>2. locals.graders = <<ScreeningGrader>>
        BY <2>1, <3>1
      <4>3. QED
        BY <4>1, <4>2 DEF ToSet
    <3>2. CASE ~In(c, "screen")
      BY <2>1, <3>2 DEF ToSet
    <3>3. QED
      BY <3>1, <3>2
  <2>3. Continues(c, locals)
    BY <1>2, <2>1, <2>2 DEF Continues
  <2>4. Frame(c)
    BY <1>1, <1>5, MovesOn, SamePlace
  <2>5. CASE In(c, "downstream")
    <3>1. Equipment("drift", locals)
      BY <2>1, <2>5 DEF Equipment, Asking, In
    <3>2. \A r \in DOMAIN runs' : r \in DOMAIN runs /\ runs'[r] = runs[r]
      BY <1>5
    <3>3. Moves(c, "drift", locals)
      BY <1>5, <2>5
    <3>4. UNCHANGED candidates /\ runs'[job[c].run].status = runs[job[c].run].status
      BY <1>1, <1>5
    <3>5. QED
      BY <1>1, <2>3, <2>4, <2>5, <3>1, <3>2, <3>3, <3>4, WorksOnWith DEF Working
  <2>6. CASE ~In(c, "downstream")
    <3>1. Whole("create", locals) /\ "create" \in Turning
      BY <1>1, <1>2, <2>1, <2>2, <2>6 DEF Whole, Continues, Opening, Turning, Mine, Tidy, In
    <3>2. /\ locals.run \in 0..Len(runs') /\ locals.week \in 0..Len(runs')
          /\ locals.week # 0 => runs'[locals.week].by = c
          /\ locals.phase \in Comparing /\ locals.run # 0 => runs'[locals.run].kind = "compare"
      BY <1>2, <1>5, <2>1 DEF Mine, Ranged
    <3>3. \A r \in DOMAIN runs' : runs'[r].by = c /\ runs'[r].lost = "none" =>
            runs'[r].status \in Final \/ r = locals.week
      BY <1>1, <1>5, <2>1, <2>6, OpenRows DEF Working
    <3>4. ~In(c, "promotion")
      BY <1>1, <1>2 DEF Mine, Tidy
    <3>5. ~ (locals.run # 0 /\ runs'[locals.run].by # c)
      BY <1>1, <1>2, <1>5, <2>1, <2>6, <3>4 DEF Mine, Borrowed, In
    <3>6. Moves(c, "create", locals)
      BY <1>5, <2>6
    <3>7. QED
      BY <1>1, <2>2, <2>4, <3>1, <3>2, <3>3, <3>5, <3>6, Handover
  <2>7. QED
    BY <2>5, <2>6
<1>6. QED
  BY <1>3, <1>4, <1>5 DEF Enter

LEMMA CreateAdvances ==
  ASSUME RInv, NEW c \in Commands, Create(c), UNCHANGED plan PROVE Advances(c)
<1> DEFINE locals == [job[c] EXCEPT !.run = Len(runs) + 1]
           row == [kind |-> KindOf(job[c].phase), by |-> c, status |-> "created",
                   invocation |-> Len(cmd[c].script), lost |-> "none",
                   scope |-> IF In(c, "sentinel")
                             THEN SelectSentinelCases(plan.pack, Flag(c).week) ELSE <<>>]
<1>1. /\ cmd[c].at = "create" /\ Runs(c)
      /\ UNCHANGED <<candidates, reported, configs, earned, killed>>
      /\ \E ok \in BOOLEAN : Attempt(ok)
  BY DEF Create, At, UnchangedGraders
<1>2. Continues(c, job[c]) /\ Mine(c) /\ Equipment("create", job[c]) /\ ~In(c, "promotion")
  BY <1>1, Continuing DEF RInv, Mine, Tidy
<1>3. CASE Returned(c, "error") /\ UNCHANGED runs
  BY <1>1, <1>3, ReturnsFrom
<1>4. CASE runs' = Append(runs, row) /\ Moves(c, "running", locals)
  <2>1. /\ JobFields \subseteq DOMAIN locals
        /\ locals.phase = job[c].phase /\ locals.run = Len(runs) + 1
        /\ locals.week = job[c].week /\ locals.specs = job[c].specs /\ locals.result = job[c].result
        /\ locals.graders = job[c].graders
    BY <1>2 DEF Continues, JobFields, Fields
  <2>2. {"kind", "by", "status", "lost"} \subseteq DOMAIN row /\ row.by = c /\ row.status \in Statuses
        /\ row.lost = "none" /\ row.status \notin Final /\ row.kind = KindOf(job[c].phase)
    BY DEF Statuses, Final
  <2> HIDE DEF locals, row
  <2>3. /\ RunsGrow(c) /\ DOMAIN runs \subseteq DOMAIN runs'
        /\ Len(runs') = Len(runs) + 1 /\ runs'[Len(runs')] = row
        /\ \A r \in DOMAIN runs : runs'[r] = runs[r]
        /\ DOMAIN runs' = DOMAIN runs \cup {Len(runs')}
    BY <1>4, <2>2, RowAppended
  <2>4. /\ DOMAIN cmd' = Commands /\ DOMAIN job' = Commands /\ Others(c)
        /\ job'[c] = locals /\ DOMAIN cmd'[c] = DOMAIN cmd[c]
        /\ cmd'[c].at = "running" /\ cmd'[c].exit = cmd[c].exit /\ cmd'[c].script = cmd[c].script
    BY <1>4, MovesOn
  <2>5. Frame(c)
    BY <1>1, <2>3, <2>4, SameCandidates, FrameOf
  <2>6. Len(runs) \in Nat /\ DOMAIN runs = 1..Len(runs)
    BY LengthOfRuns DEF RInv
  <2>7. Tidy(c)'
    BY <1>1, <1>2, <2>1, <2>4 DEF Mine, Tidy, Continues, In, Invocations, Opening, Working
  <2>8. Equipment(cmd[c].at, job[c])'
    BY <1>2, <2>1, <2>4 DEF Equipment, Asking
  <2>9. Ranged(c)'
    <3>1. job[c].phase \in Comparing => job[c].phase = "downstream" \/ row.kind = "compare"
      BY <1>2, <2>2 DEF KindOf, Comparing, In
    <3>2. job[c].phase # "downstream"
      BY <1>1, <1>2 DEF Mine, Tidy, In
    <3>3. /\ job[c].week \in 0..Len(runs') /\ (job[c].week # 0 => runs'[job[c].week].by = c)
      BY <2>3, StillRanged
    <3>4. QED
      BY <2>1, <2>2, <2>3, <2>4, <2>6, <3>1, <3>2, <3>3 DEF Ranged
  <2>10. Accounted(c)'
    <3>1. ASSUME NEW r \in DOMAIN runs', runs'[r].by = c, runs'[r].lost = "none", runs'[r].status \notin Final
          PROVE  Holds(c, r)'
      <4>1. CASE r = Len(runs')
        BY <1>2, <2>1, <2>3, <2>4, <4>1 DEF Holds, Working, In
      <4>2. CASE r # Len(runs')
        <5>1. r = job[c].week
          BY <1>1, <2>3, <3>1, <4>2, OpenRows DEF Working
        <5>2. QED
          BY <2>1, <2>4, <5>1 DEF Holds
      <4>3. QED
        BY <4>1, <4>2
    <3>2. QED
      BY <2>4, <3>1 DEF Accounted
  <2>11. Uncompared(c)'
    <3>1. \A x \in DOMAIN candidates : x[1] # Len(runs) + 1
      BY <2>6 DEF RInv, CandidatesRight
    <3>2. QED
      BY <1>1, <2>1, <2>2, <2>3, <2>4, <3>1 DEF Uncompared, Available
  <2>12. Borrowed(c)' /\ Snapshot(c)' /\ Judged(c)'
    BY <2>1, <2>2, <2>3, <2>4 DEF Borrowed, Snapshot, Judged
  <2>13. Qualified(c)'
    BY <1>2, <2>1, <2>4, <2>5 DEF Mine, Qualified, ToSet, Frame
  <2>14. QED
    BY <2>5, <2>7, <2>8, <2>9, <2>10, <2>11, <2>12, <2>13 DEF Advances, Mine
<1>5. QED
  BY <1>3, <1>4 DEF Create

-----------------------------------------------------------------------------
(***************************************************************************)
(* The candidate's row: read here, written there.                          *)
(***************************************************************************)

LEMMA RowStep ==
  ASSUME RInv, NEW c \in Commands, cmd[c].at \in {"upsert", "refresh", "insert", "promote", "readRow"},
         job[c].run # 0, NEW step \in {"refresh", "readRow", "writeRow"}, NEW locals, Continues(c, locals), Moves(c, step, locals),
         Equipment(step, locals), Frame(c), UNCHANGED runs, Uncompared(c)', Snapshot(c)', Judged(c)'
  PROVE  Advances(c)
<1>1. /\ job'[c] = locals
      /\ cmd'[c].at = step /\ cmd'[c].exit = cmd[c].exit /\ cmd'[c].script = cmd[c].script
      /\ DOMAIN cmd'[c] = DOMAIN cmd[c]
  BY MovesOn
<1>2. Mine(c) /\ Row(c)' = Row(c)
  BY <1>1 DEF RInv, Row, Candidate, Continues
<1>3. Tidy(c)'
  BY <1>1, <1>2 DEF Mine, Tidy, Equipment, Continues, In, Invocations, Opening, Working
<1>4. Equipment(cmd[c].at, job[c])'
  BY <1>1 DEF Equipment
<1>5. Ranged(c)'
  BY <1>1, <1>2 DEF Mine, Ranged, Continues, In
<1>6. Accounted(c)'
  <2>1. \A r : Holds(c, r) => Holds(c, r)'
    BY <1>1 DEF Holds, In, Continues, Working
  <2>2. Runs(c)' => Runs(c)
    BY DEF Frame, Runs
  <2>3. QED
    BY <1>1, <1>2, <2>1, <2>2 DEF Mine, Accounted
<1>7. Borrowed(c)'
  BY <1>1, <1>2, BorrowedStays DEF Borrowed, Continues, Working
<1>8. Qualified(c)'
  BY <1>1 DEF Qualified, Continues, ToSet, Frame
<1>9. QED
  BY <1>3, <1>4, <1>5, <1>6, <1>7, <1>8 DEF Advances, Mine

\* Find, and Refresh after it, where there is a row.
LEMMA StaysAtRow ==
  ASSUME RInv, NEW c \in Commands, cmd[c].at \in {"upsert", "refresh"}, NEW step \in {"refresh", "readRow"},
         Moves(c, step, job[c]), Row(c) \in DOMAIN candidates,
         UNCHANGED <<runs, candidates, reported, configs, earned, killed>>, \E ok \in BOOLEAN : Attempt(ok)
  PROVE  Advances(c)
<1>1. Continues(c, job[c]) /\ Mine(c) /\ Equipment(cmd[c].at, job[c])
  BY Continuing DEF RInv
<1>2. /\ job'[c] = job[c] /\ cmd'[c].at = step /\ Frame(c)
  BY MovesOn, SamePlace
<1>3. job[c].run # 0 /\ Equipment(step, job[c]) /\ job[c].phase \in {"screen", "compare", "downstream"}
  BY <1>1 DEF Mine, Ranged, Working, Equipment, Asking
<1>4. Uncompared(c)'
  <2>1. BeforeResult(c)' => BeforeResult(c)
    BY <1>2 DEF BeforeResult, Working
  <2>2. QED
    BY <1>1, <1>2, <2>1 DEF Mine, Uncompared, Available
<1>5. Snapshot(c)' /\ Judged(c)'
  BY <1>2, <1>3 DEF Snapshot, Judged, In, Row, Candidate
<1>6. QED
  BY <1>1, <1>2, <1>3, <1>4, <1>5, RowStep

LEMMA FindAdvances ==
  ASSUME RInv, NEW c \in Commands, Find(c), UNCHANGED plan PROVE Advances(c)
<1>1. /\ cmd[c].at = "upsert" /\ cmd[c].at \in Working
      /\ UNCHANGED <<runs, candidates, reported, configs, earned, killed>>
      /\ \E ok \in BOOLEAN : Attempt(ok)
  BY DEF Find, At, Working, db, UnchangedGraders
<1>2. Continues(c, job[c]) /\ Mine(c) /\ Equipment("upsert", job[c])
  BY <1>1, Continuing DEF RInv
<1>3. CASE Row(c) \in DOMAIN candidates /\ Moves(c, "refresh", job[c])
  BY <1>1, <1>3, StaysAtRow
<1>4. CASE Moves(c, "insert", job[c])
  <2>1. Equipment("insert", job[c])
    BY <1>2 DEF Equipment, Asking
  <2>2. QED
    BY <1>1, <1>2, <1>4, <2>1, WorksOn DEF Working
<1>5. QED
  BY <1>3, <1>4 DEF Find

LEMMA RefreshAdvances ==
  ASSUME RInv, NEW c \in Commands, Refresh(c), UNCHANGED plan PROVE Advances(c)
<1>1. /\ cmd[c].at = "refresh" /\ cmd[c].at \in Working
      /\ UNCHANGED <<runs, candidates, reported, configs, earned, killed>>
      /\ \E ok \in BOOLEAN : Attempt(ok)
  BY DEF Refresh, At, Working, db, UnchangedGraders
<1>2. Row(c) \in DOMAIN candidates /\ ~In(c, "promotion")
  BY <1>1 DEF RInv, Mine, Snapshot, Equipment, In
<1>3. CASE Fails(c, "error")
  BY <1>1, <1>2, <1>3, FailsAt
<1>4. CASE Moves(c, "readRow", job[c])
  BY <1>1, <1>2, <1>4, StaysAtRow
<1>5. QED
  BY <1>3, <1>4 DEF Refresh

LEMMA InsertAdvances ==
  ASSUME RInv, NEW c \in Commands, Insert(c), UNCHANGED plan PROVE Advances(c)
<1>1. /\ cmd[c].at = "insert" /\ cmd[c].at \in Working
      /\ UNCHANGED <<runs, reported, configs, earned, killed>>
      /\ \E ok \in BOOLEAN : Attempt(ok)
  BY DEF Insert, At, Working, UnchangedGraders
<1>2. Continues(c, job[c]) /\ Mine(c) /\ Equipment("insert", job[c])
  BY <1>1, Continuing DEF RInv
<1>3. CASE UNCHANGED candidates /\ Fails(c, "error")
  BY <1>1, <1>3, FailsAt
<1>4. CASE /\ candidates' = [x \in DOMAIN candidates \cup {Row(c)} |->
                               IF x \in DOMAIN candidates THEN candidates[x] ELSE NoRow]
           /\ Moves(c, "readRow", job[c])
  <2>1. job[c].run # 0 /\ job[c].run \in DOMAIN runs /\ Row(c)[1] = job[c].run
    BY <1>1, <1>2, LengthOfRuns DEF Mine, Ranged, RInv, Row
  <2>2. /\ DOMAIN candidates' = DOMAIN candidates \cup {Row(c)}
        /\ \A x \in DOMAIN candidates : candidates'[x] = candidates[x]
        /\ \A x \in DOMAIN candidates' \ DOMAIN candidates : candidates'[x] = NoRow
    BY <1>4
  <2>3. Founded(NoRow) /\ NoRow.compare = <<>>
    BY DEF Founded, NoRow
  <2>4. CandidatesRight'
    <3>1. ASSUME NEW x \in DOMAIN candidates' PROVE x[1] \in DOMAIN runs' /\ Founded(candidates'[x])
      <4>1. CASE x \in DOMAIN candidates
        BY <1>1, <2>2, <4>1 DEF RInv, CandidatesRight
      <4>2. CASE x \notin DOMAIN candidates
        BY <1>1, <2>1, <2>2, <2>3, <4>2
      <4>3. QED
        BY <4>1, <4>2
    <3>2. QED
      BY <3>1 DEF CandidatesRight, Founded, Passes, NoRow
  <2>5. RowsGrow(c)
    BY <2>2, <2>3, <2>4 DEF RowsGrow
  <2>6. /\ DOMAIN cmd' = Commands /\ DOMAIN job' = Commands /\ Others(c)
        /\ job'[c] = job[c] /\ cmd'[c].at = "readRow"
    BY <1>4, MovesOn
  <2>7. Frame(c)
    BY <1>1, <2>5, <2>6, SameRuns, FrameOf
  <2>8. /\ job[c].phase \in {"screen", "compare", "downstream"}
        /\ Equipment("readRow", job[c])
    BY <1>2 DEF Equipment, Asking
  <2>9. Uncompared(c)'
    <3>1. BeforeResult(c)' => BeforeResult(c)
      BY <1>1, <2>6 DEF BeforeResult
    <3>2. BeforeResult(c) => \A x \in DOMAIN candidates' : x[1] = job[c].run => candidates'[x].compare = <<>>
      BY <1>2, <2>2, <2>3 DEF Mine, Uncompared, Available
    <3>3. QED
      BY <1>1, <1>2, <2>6, <3>1, <3>2 DEF Mine, Uncompared, Available
  <2>10. Snapshot(c)' /\ Judged(c)'
    BY <2>2, <2>6, <2>8 DEF Snapshot, Judged, In, Row, Candidate
  <2>11. QED
    BY <1>1, <1>2, <1>4, <2>1, <2>7, <2>8, <2>9, <2>10, RowStep
<1>5. QED
  BY <1>3, <1>4 DEF Insert

LEMMA PromoteAdvances ==
  ASSUME RInv, NEW c \in Commands, Promote(c), UNCHANGED plan PROVE Advances(c)
<1> DEFINE row == candidates[Row(c)]
           locals == [job[c] EXCEPT !.result.promote = Checklist(row.compare[1], row.downstream[1])]
<1>1. /\ cmd[c].at = "promote" /\ Runs(c)
      /\ UNCHANGED <<runs, candidates, reported, configs, earned, killed>>
      /\ \E ok \in BOOLEAN : Attempt(ok)
  BY DEF Promote, At, db, UnchangedGraders
<1>2. Continues(c, job[c]) /\ Mine(c) /\ job[c].phase = "promotion"
  BY <1>1, Continuing DEF RInv, Mine, Tidy, In
<1>3. CASE Returned(c, "error")
  BY <1>1, <1>3, ReturnsFrom
<1>4. CASE Row(c) \in DOMAIN candidates /\ HasEvidence(row) /\ Moves(c, "readRow", locals)
  <2>1. /\ JobFields \subseteq DOMAIN locals /\ DOMAIN locals.result = DOMAIN NoResult
        /\ locals.phase = job[c].phase /\ locals.run = job[c].run
        /\ locals.week = job[c].week /\ locals.specs = job[c].specs
        /\ locals.result.hard = job[c].result.hard
        /\ locals.graders = job[c].graders
        /\ locals.result.promote = Checklist(row.compare[1], row.downstream[1])
    BY <1>2 DEF Continues, JobFields, Fields, NoResult
  <2>2. Founded(row) /\ row.compare # <<>> /\ row.downstream # <<>>
    BY <1>4 DEF RInv, CandidatesRight, HasEvidence
  <2>3. Checklist(row.compare[1], row.downstream[1]) => Passes(row.compare[1])
    <3>1. row.compare[1].hard \in Int
      BY <2>2 DEF Founded
    <3>2. PICK compare : compare = row.compare[1]
      OBVIOUS
    <3>3. QED
      BY <3>1, <3>2 DEF Checklist, Passes
  <2> HIDE DEF locals
  <2>4. Continues(c, locals)
    BY <1>2, <2>1 DEF Continues
  <2>5. job[c].run # 0
    <3>1. Row(c)[1] \in DOMAIN runs /\ Row(c)[1] = job[c].run
      BY <1>4 DEF RInv, CandidatesRight, Row
    <3>2. QED
      BY <3>1, LengthOfRuns DEF RInv
  <2>6. /\ job'[c] = locals /\ cmd'[c].at = "readRow" /\ Frame(c)
    BY <1>1, <1>4, MovesOn, SamePlace
  <2>7. Equipment("readRow", locals)
    BY <1>2, <2>1 DEF Equipment, Asking
  <2>8. Row(c)' = Row(c) /\ candidates' = candidates
    BY <1>1, <2>1, <2>6 DEF Row, Candidate
  <2>9. Uncompared(c)' /\ Snapshot(c)' /\ Judged(c)'
    <3>1. ~ BeforeResult(c)'
      BY <1>2, <2>1, <2>6 DEF BeforeResult
    <3>2. Snapshot(c)'
      BY <1>4, <2>6, <2>8 DEF Snapshot
    <3>3. Judged(c)'
      <4>1. /\ candidates'[Row(c)'] = row
            /\ job'[c].result.promote => Passes(row.compare[1])
        BY <2>1, <2>3, <2>6, <2>8
      <4>2. PICK x : x = row
        OBVIOUS
      <4> HIDE DEF row
      <4>3. QED
        BY <2>2, <4>1 DEF Judged, Passes
    <3>4. QED
      BY <3>1, <3>2, <3>3 DEF Uncompared
  <2>10. QED
    BY <1>1, <1>4, <2>4, <2>5, <2>6, <2>7, <2>9, RowStep
<1>5. QED
  BY <1>3, <1>4 DEF Promote

LEMMA StoreFailsAt ==
  ASSUME RInv, NEW c \in Commands, Runs(c), cmd[c].at \in {"readRow", "writeRow"}, StoreFails(c),
         UNCHANGED <<runs, candidates, reported, configs, earned, killed>>,
         \E ok \in BOOLEAN : Attempt(ok)
  PROVE  Advances(c)
<1>1. cmd[c].at \in Working
  BY DEF Working
<1>2. CASE In(c, "promotion")
  <2>1. Returned(c, "error")
    BY <1>2 DEF StoreFails
  <2>2. QED
    BY <1>1, <1>2, <2>1, ReturnsFrom
<1>3. CASE ~In(c, "promotion")
  <2>1. Fails(c, "error")
    BY <1>3 DEF StoreFails
  <2>2. QED
    BY <1>1, <1>3, <2>1, FailsAt
<1>4. QED
  BY <1>2, <1>3

LEMMA ReadRowAdvances ==
  ASSUME RInv, NEW c \in Commands, ReadRow(c), UNCHANGED plan PROVE Advances(c)
<1> DEFINE locals == [job[c] EXCEPT !.row = candidates[Row(c)]]
<1>1. /\ cmd[c].at = "readRow" /\ cmd[c].at \in Working /\ Runs(c)
      /\ UNCHANGED <<runs, candidates, reported, configs, earned, killed>>
      /\ \E ok \in BOOLEAN : Attempt(ok)
  BY DEF ReadRow, At, Working, db, UnchangedGraders
<1>2. Continues(c, job[c]) /\ Mine(c) /\ Equipment("readRow", job[c])
  BY <1>1, Continuing DEF RInv
<1>3. CASE StoreFails(c)
  BY <1>1, <1>3, StoreFailsAt
<1>4. CASE Moves(c, "writeRow", locals)
  <2>1. /\ Continues(c, locals) /\ locals.phase = job[c].phase /\ locals.graders = job[c].graders
        /\ locals.row = candidates[Row(c)] /\ locals.result = job[c].result
        /\ locals.run = job[c].run /\ locals.specs = job[c].specs
    BY <1>2 DEF Continues, JobFields, Fields
  <2> HIDE DEF locals
  <2>2. job[c].run # 0 /\ Row(c) \in DOMAIN candidates
    BY <1>1, <1>2 DEF Mine, Ranged, Snapshot
  <2>3. Founded(candidates[Row(c)])
    BY <2>2 DEF RInv, CandidatesRight
  <2>4. /\ job'[c] = locals /\ cmd'[c].at = "writeRow" /\ Frame(c)
    BY <1>1, <1>4, MovesOn, SamePlace
  <2>5. Row(c)' = Row(c) /\ candidates' = candidates
    BY <1>1, <2>1, <2>4 DEF Row, Candidate
  <2>6. Equipment("writeRow", locals)
    BY <1>2, <2>1 DEF Equipment, Asking
  <2>7. Uncompared(c)'
    <3>1. BeforeResult(c)' => BeforeResult(c)
      BY <1>1, <2>1, <2>4 DEF BeforeResult
    <3>2. QED
      BY <1>1, <1>2, <2>1, <2>4, <2>5, <3>1 DEF Mine, Uncompared, Available
  <2>8. /\ In(c, "promotion") => candidates[Row(c)].compare # <<>> /\ candidates[Row(c)].downstream # <<>>
        /\ In(c, "promotion") /\ job[c].result.promote => Passes(candidates[Row(c)].compare[1])
    BY <1>1, <1>2 DEF Mine, Judged
  <2>9. Judged(c)'
    <3>1. /\ In(c, "promotion")' = In(c, "promotion") /\ job'[c].result = job[c].result
          /\ candidates'[Row(c)'] = candidates[Row(c)]
      BY <2>1, <2>4, <2>5 DEF In
    <3>2. PICK x : x = candidates[Row(c)]
      OBVIOUS
    <3>3. QED
      BY <2>8, <3>1, <3>2 DEF Judged, Passes
  <2>10. Snapshot(c)'
    <3>1. /\ In(c, "promotion")' = In(c, "promotion")
          /\ candidates'[Row(c)'] = candidates[Row(c)] /\ Row(c)' \in DOMAIN candidates'
          /\ job'[c].row = candidates[Row(c)]
      BY <2>1, <2>2, <2>4, <2>5 DEF In
    <3>2. PICK x : x = candidates[Row(c)]
      OBVIOUS
    <3>3. QED
      BY <2>3, <2>8, <3>1, <3>2 DEF Snapshot, Founded, Passes, NoRow
  <2>11. QED
    BY <1>1, <1>4, <2>1, <2>2, <2>4, <2>6, <2>7, <2>9, <2>10, RowStep
<1>5. QED
  BY <1>3, <1>4 DEF ReadRow

\* What WriteRow makes of the row: the result of a comparison only before there
\* is one, and a promotion only on the evidence Promotion has read.
LEMMA WrittenRow ==
  ASSUME RInv, NEW c \in Commands, cmd[c].at = "writeRow",
         NEW row, row = WithResult(job[c].row, job[c].phase, job[c].result)
  PROVE  /\ Founded(row)
         /\ row.compare = candidates[Row(c)].compare \/ BeforeResult(c)
         /\ candidates[Row(c)].downstream # <<>> => row.downstream # <<>>
         /\ In(c, "screen") => row.compare = candidates[Row(c)].compare
<1> DEFINE old == job[c].row
           now == candidates[Row(c)]
           result == job[c].result
<1>1. Mine(c) /\ Equipment("writeRow", job[c])
  BY Continuing DEF RInv
<1>2. /\ Row(c) \in DOMAIN candidates /\ Founded(old) /\ Founded(now)
      /\ old.compare = now.compare
      /\ In(c, "screen") \/ In(c, "compare") => old = now
      /\ In(c, "promotion") => old.downstream # <<>>
  BY <1>1 DEF Mine, Snapshot, RInv, CandidatesRight, In
<1>3. DOMAIN result = DOMAIN NoResult /\ result.hard \in Int
  BY <1>1 DEF Mine, Tidy
<1>4. CASE In(c, "screen")
  <2>1. row = [old EXCEPT !.screen = <<result.screen>>]
    BY <1>4 DEF WithResult, In
  <2> HIDE DEF old, now, result
  <2>2. /\ DOMAIN row = DOMAIN NoRow /\ row.compare = old.compare /\ row.downstream = old.downstream
        /\ row.promotion = old.promotion
    BY <1>2, <2>1 DEF Founded, NoRow
  <2>3. Founded(row)
    BY <1>2, <2>2 DEF Founded, Passes
  <2>4. QED
    BY <1>2, <1>4, <2>2, <2>3 DEF now
<1>5. CASE In(c, "compare")
  <2> DEFINE compare == [hard |-> result.hard, priority |-> result.priority, profile |-> result.profile]
  <2>1. row = [old EXCEPT !.compare = <<compare>>]
    BY <1>5 DEF WithResult, In
  <2>2. BeforeResult(c)
    BY <1>5 DEF BeforeResult, Working, In
  <2>3. now.compare = <<>>
    BY <1>1, <1>2, <2>2 DEF Mine, Uncompared, Available, Row
  <2>4. compare.hard \in Int
    BY <1>3
  <2> HIDE DEF old, now, result, compare
  <2>5. /\ DOMAIN row = DOMAIN NoRow /\ row.compare = <<compare>> /\ row.downstream = old.downstream
        /\ row.promotion = old.promotion
    BY <1>2, <2>1 DEF Founded, NoRow
  <2>6. row.promotion = <<>>
    BY <1>2, <2>3, <2>5 DEF Founded
  <2>7. Founded(row)
    BY <2>4, <2>5, <2>6 DEF Founded
  <2>8. QED
    BY <1>2, <1>5, <2>2, <2>5, <2>7 DEF now, In
<1>6. CASE In(c, "downstream")
  <2>1. row = [old EXCEPT !.downstream = <<result.net>>]
    BY <1>6 DEF WithResult, In
  <2> HIDE DEF old, now, result
  <2>2. /\ DOMAIN row = DOMAIN NoRow /\ row.compare = old.compare /\ row.downstream = <<result.net>>
        /\ row.promotion = old.promotion
    BY <1>2, <2>1 DEF Founded, NoRow
  <2>3. row.downstream # <<>>
    BY <2>2
  <2>4. Founded(row)
    BY <1>2, <2>2, <2>3 DEF Founded, Passes
  <2>5. QED
    BY <1>2, <1>6, <2>2, <2>3, <2>4 DEF now, In
<1>7. CASE In(c, "promotion")
  <2>1. row = [old EXCEPT !.promotion = <<result.promote>>]
    BY <1>7 DEF WithResult, In
  <2>2. /\ now.compare # <<>> /\ now.downstream # <<>>
        /\ result.promote => Passes(now.compare[1])
    BY <1>1, <1>7 DEF Mine, Judged
  <2> HIDE DEF old, now, result
  <2>3. /\ DOMAIN row = DOMAIN NoRow /\ row.compare = old.compare /\ row.downstream = old.downstream
        /\ row.promotion = <<result.promote>>
    BY <1>2, <2>1 DEF Founded, NoRow
  <2>4. row.promotion[1] = result.promote
    BY <2>3
  <2>5. Founded(row)
    BY <1>2, <1>7, <2>2, <2>3, <2>4 DEF Founded, Passes
  <2>6. QED
    BY <1>2, <1>7, <2>3, <2>5 DEF now, In
<1>8. QED
  BY <1>1, <1>4, <1>5, <1>6, <1>7 DEF Equipment, In

LEMMA WriteRowAdvances ==
  ASSUME RInv, NEW c \in Commands, WriteRow(c), UNCHANGED plan PROVE Advances(c)
<1> DEFINE clean == [job[c] EXCEPT !.row = NoRow, !.result = NoResult]
           taken == [clean EXCEPT !.specs = Tail(@)]
           row == WithResult(job[c].row, job[c].phase, job[c].result)
<1>1. /\ cmd[c].at = "writeRow" /\ cmd[c].at \in Working /\ Runs(c)
      /\ UNCHANGED <<runs, reported, configs, earned, killed>>
      /\ \E ok \in BOOLEAN : Attempt(ok)
  BY DEF WriteRow, At, Working, UnchangedGraders
<1>2. Continues(c, job[c]) /\ Mine(c) /\ Equipment("writeRow", job[c])
  BY <1>1, Continuing DEF RInv
<1>3. CASE UNCHANGED candidates /\ StoreFails(c)
  BY <1>1, <1>3, StoreFailsAt
<1>4. CASE /\ candidates' = [candidates EXCEPT ![Row(c)] = row]
           /\ CASE In(c, "screen") -> Moves(c, "screenOne", taken)
                [] In(c, "promotion") -> Moves(c, "returned", clean)
                [] OTHER -> Moves(c, "finishing", clean)
  <2>1. Row(c) \in DOMAIN candidates /\ Row(c)[1] = job[c].run
    BY <1>1, <1>2 DEF Mine, Snapshot, Row
  <2>2. /\ Founded(row)
        /\ row.compare = candidates[Row(c)].compare \/ BeforeResult(c)
        /\ candidates[Row(c)].downstream # <<>> => row.downstream # <<>>
        /\ In(c, "screen") => row.compare = candidates[Row(c)].compare
    BY <1>1, WrittenRow
  <2>3. NoResult.hard \in Int
    BY DEF NoResult
  <2>4. /\ Continues(c, clean) /\ clean.phase = job[c].phase /\ clean.graders = job[c].graders
        /\ clean.err = job[c].err /\ clean.week = job[c].week /\ clean.run = job[c].run
    BY <1>2, <2>3 DEF Continues, JobFields, Fields
  <2> HIDE DEF clean, row
  <2>5. /\ JobFields \subseteq DOMAIN taken /\ taken.phase = job[c].phase /\ taken.run = job[c].run
        /\ taken.week = job[c].week /\ taken.graders = job[c].graders /\ taken.result = clean.result
    BY <2>4 DEF Continues, JobFields, Fields
  <2> HIDE DEF taken
  <2>6. /\ DOMAIN candidates' = DOMAIN candidates /\ candidates'[Row(c)] = row
        /\ \A x \in DOMAIN candidates \ {Row(c)} : candidates'[x] = candidates[x]
    BY <1>4, <2>1
  <2>7. CandidatesRight'
    <3>1. ASSUME NEW x \in DOMAIN candidates' PROVE x[1] \in DOMAIN runs' /\ Founded(candidates'[x])
      <4>1. CASE x = Row(c)
        BY <1>1, <2>1, <2>2, <2>6, <4>1 DEF RInv, CandidatesRight
      <4>2. CASE x # Row(c)
        BY <1>1, <2>6, <4>2 DEF RInv, CandidatesRight
      <4>3. QED
        BY <4>1, <4>2
    <3>2. QED
      BY <3>1 DEF CandidatesRight, Founded, Passes, NoRow
  <2>8. RowsGrow(c)
    BY <1>1, <2>1, <2>2, <2>6, <2>7 DEF RowsGrow
  <2>9. ASSUME NEW step, NEW locals, Moves(c, step, locals) PROVE Frame(c)
    BY <1>1, <2>8, <2>9, MovesOn, SameRuns, FrameOf
  <2>10. CASE In(c, "promotion")
    <3>1. Moves(c, "returned", clean)
      BY <1>4, <2>10 DEF In
    <3>2. ASSUME NEW r \in DOMAIN runs', runs'[r].by = c, runs'[r].lost = "none", r # job[c].week
          PROVE  runs'[r].status \in Final
      BY <1>1, <2>10, <3>2, OpenRows
    <3>3. ~ (clean.phase \in {"compare", "adopted"})
      BY <2>4, <2>10 DEF In
    <3>4. QED
      BY <1>1, <2>4, <2>9, <3>1, <3>2, <3>3, ReturnsTo
  <2>11. CASE ~In(c, "promotion") /\ ~In(c, "screen")
    <3>1. Moves(c, "finishing", clean)
      BY <1>4, <2>11
    <3>2. Equipment("finishing", clean)
      BY DEF Equipment, Asking
    <3>3. \A r \in DOMAIN runs' : r \in DOMAIN runs /\ runs'[r] = runs[r]
      BY <1>1
    <3>4. QED
      BY <1>1, <2>4, <2>9, <2>11, <3>1, <3>2, <3>3, WorksOnWith DEF Working
  <2>12. CASE In(c, "screen")
    <3>1. Moves(c, "screenOne", taken)
      BY <1>4, <2>12 DEF In
    <3>2. /\ Frame(c) /\ job'[c] = taken /\ cmd'[c].at = "screenOne" /\ cmd'[c].exit = cmd[c].exit
          /\ cmd'[c].script = cmd[c].script /\ DOMAIN cmd'[c] = DOMAIN cmd[c]
      BY <2>9, <3>1, MovesOn
    <3>3. Tidy(c)'
      <4>1. DOMAIN taken.result = DOMAIN NoResult /\ taken.result.hard \in Int /\ taken.phase = "screen"
        BY <2>4, <2>5, <2>12 DEF Continues, In
      <4>2. "screenOne" \notin Opening \cup {"done", "promote", "check", "withdraw", "grade", "decide", "start", "sync"}
        BY DEF Opening
      <4>3. /\ cmd[c].script \in Seq(Invocations) /\ cmd[c].script # <<>> /\ cmd[c].exit \in Codes
            /\ CmdFields \subseteq DOMAIN cmd[c]
        BY <1>1, <1>2 DEF Mine, Tidy
      <4>4. QED
        BY <2>5, <3>2, <4>1, <4>2, <4>3 DEF Tidy, In, Invocations
    <3>4. Equipment(cmd[c].at, job[c])'
      BY <1>2, <2>5, <2>12, <3>2 DEF Equipment, Asking, In
    <3>5. Ranged(c)'
      BY <1>1, <1>2, <2>5, <3>2 DEF Mine, Ranged, Working
    <3>6. Accounted(c)'
      <4>1. \A r : Holds(c, r) => Holds(c, r)'
        BY <1>1, <2>5, <2>12, <3>2 DEF Holds, In, Working
      <4>2. Runs(c)' => Runs(c)
        BY <3>2 DEF Frame, Runs
      <4>3. QED
        BY <1>1, <1>2, <3>2, <4>1, <4>2 DEF Mine, Accounted
    <3>7. BeforeResult(c)
      BY <1>1, <2>12 DEF BeforeResult, In
    <3>8. Uncompared(c)'
      <4>1. \A x \in DOMAIN candidates' : x[1] = job[c].run => candidates'[x].compare = <<>>
        BY <1>2, <2>1, <2>2, <2>6, <2>12, <3>7 DEF Mine, Uncompared, Available
      <4>2. QED
        BY <1>1, <1>2, <2>5, <3>2, <3>7, <4>1 DEF Mine, Uncompared, Available
    <3>9. Borrowed(c)' /\ Snapshot(c)' /\ Judged(c)'
      BY <1>1, <1>2, <2>5, <3>2, <3>7 DEF Mine, Uncompared, Borrowed, Snapshot, Judged
    <3>10. Qualified(c)'
      BY <1>2, <2>5, <3>2 DEF Mine, Qualified, ToSet, Frame
    <3>11. QED
      BY <3>2, <3>3, <3>4, <3>5, <3>6, <3>8, <3>9, <3>10 DEF Advances, Mine
  <2>13. QED
    BY <2>10, <2>11, <2>12
<1>5. QED
  BY <1>3, <1>4 DEF WriteRow

-----------------------------------------------------------------------------
(***************************************************************************)
(* The end of a function, of a week, of an invocation.                     *)
(***************************************************************************)

LEMMA CommandReturnsAdvances ==
  ASSUME RInv, NEW c \in Commands, CommandReturns(c), UNCHANGED plan PROVE Advances(c)
<1> DEFINE locals == [job[c] EXCEPT !.phase = "promotion"]
<1>1. /\ cmd[c].at = "returned" /\ Runs(c) /\ job[c].week = 0
      /\ UNCHANGED <<runs, candidates, reported, configs, earned, killed, faults>>
  BY DEF CommandReturns, At, db, UnchangedGraders
<1>2. Continues(c, job[c]) /\ Mine(c) /\ ~In(c, "adopted")
  BY <1>1, Continuing DEF RInv, Mine, Tidy
<1>3. \A r \in DOMAIN runs' : runs'[r].by = c /\ runs'[r].lost = "none" => runs'[r].status \in Final
  <2>1. \A r \in DOMAIN runs : r # job[c].week
    BY <1>1, LengthOfRuns DEF RInv
  <2>2. QED
    BY <1>1, <1>2, <2>1, OpenRows DEF Working
<1>4. CASE Exits(c, Code(job[c].err)) /\ UNCHANGED job
  <2>1. DOMAIN cmd' = Commands /\ DOMAIN job' = Commands /\ Others(c)
    BY <1>4 DEF Exits, Others, RInv
  <2>2. Frame(c)
    BY <1>1, <2>1, SamePlace
  <2>3. Code(job[c].err) \in Codes
    BY DEF Code, Codes
  <2>4. QED
    BY <1>1, <1>3, <1>4, <2>2, <2>3, ExitsAt
<1>5. CASE In(c, "downstream") /\ Moves(c, "promote", locals)
  <2>1. /\ JobFields \subseteq DOMAIN locals /\ locals.phase = "promotion"
        /\ locals.run = job[c].run /\ locals.week = job[c].week /\ locals.specs = job[c].specs
        /\ locals.graders = job[c].graders /\ locals.result = job[c].result
    BY <1>2 DEF Continues, JobFields, Fields
  <2>2. Moves(c, "promote", locals)
    BY <1>5
  <2> HIDE DEF locals
  <2>3. Frame(c)
    BY <1>1, <2>2, MovesOn, SamePlace
  <2>4. Whole("promote", locals) /\ "promote" \in Turning
    BY <1>2, <2>1 DEF Whole, Continues, Opening, Turning
  <2>5. /\ locals.run \in 0..Len(runs') /\ locals.week \in 0..Len(runs')
        /\ locals.week # 0 => runs'[locals.week].by = c
        /\ locals.phase \in Comparing /\ locals.run # 0 => runs'[locals.run].kind = "compare"
        /\ ToSet(locals.graders) \subseteq earned
    BY <1>1, <1>2, <1>5, <2>1 DEF Mine, Ranged, Continues, Comparing, In
  <2>6. locals.run # 0 /\ runs'[locals.run].by # c =>
           /\ locals.phase \in {"downstream", "promotion"} /\ locals.week = 0
           /\ Available(job[c].run)'
    <3>1. job'[c] = locals
      BY <2>2, MovesOn
    <3>2. QED
      BY <1>1, <1>2, <2>1, <3>1 DEF Mine, Borrowed, Available
  <2>7. QED
    BY <1>1, <1>3, <2>2, <2>3, <2>4, <2>5, <2>6, Handover
<1>6. QED
  BY <1>4, <1>5 DEF CommandReturns

\* The steps of a weekly run, one after the other.
Weekly(c) ==
  /\ cmd[c].at = "returned" /\ Runs(c) /\ job[c].week # 0
  /\ UNCHANGED <<runs, candidates, reported, configs, earned, killed, faults>>

LEMMA WeekOnly ==
  ASSUME RInv, NEW c \in Commands, Weekly(c)
  PROVE  /\ \A r \in DOMAIN runs' :
              runs'[r].by = c /\ runs'[r].lost = "none" =>
                \/ runs'[r].status \in Final
                \/ r = job[c].week
                \/ r = job[c].run /\ In(c, "adopted") /\ job[c].err = "none"
         /\ job[c].run \in 0..Len(runs') /\ job[c].week \in 0..Len(runs')
         /\ job[c].run # 0 => runs'[job[c].run].by = c
         /\ runs'[job[c].week].by = c
         /\ job[c].phase \in Comparing /\ job[c].run # 0 => runs'[job[c].run].kind = "compare"
<1>1. Mine(c)
  BY DEF RInv
<1>2. \A r \in DOMAIN runs' :
        runs'[r].by = c /\ runs'[r].lost = "none" =>
          \/ runs'[r].status \in Final
          \/ r = job[c].week
          \/ r = job[c].run /\ In(c, "adopted") /\ job[c].err = "none"
  BY OpenRows DEF Weekly, Working
<1>3. QED
  BY <1>1, <1>2 DEF Mine, Ranged, Borrowed, Weekly

LEMMA SettlesAdvances ==
  ASSUME RInv, NEW c \in Commands, Weekly(c), NEW locals, Moves(c, "settle", locals),
         JobFields \subseteq DOMAIN locals, locals.phase = job[c].phase, locals.run = job[c].run,
         locals.week = job[c].week, locals.result = job[c].result, ToSet(locals.graders) \subseteq earned,
         job[c].err # "none" \/ ~In(c, "adopted")
  PROVE  Advances(c)
<1>1. Frame(c)
  BY MovesOn, SamePlace DEF Weekly
<1>2. Whole("settle", locals) /\ "settle" \in Turning
  BY Continuing DEF Whole, Continues, Opening, Turning, Weekly
<1>3. /\ locals.run \in 0..Len(runs') /\ locals.week \in 0..Len(runs')
      /\ runs'[locals.week].by = c
      /\ locals.phase \in Comparing /\ locals.run # 0 => runs'[locals.run].kind = "compare"
      /\ \A r \in DOMAIN runs' :
           runs'[r].by = c /\ runs'[r].lost = "none" => runs'[r].status \in Final \/ r = locals.week
  BY WeekOnly
<1>4. QED
  BY <1>1, <1>2, <1>3, Handover DEF Weekly

LEMMA SettlesEmpty ==
  ASSUME RInv, NEW c \in Commands, Weekly(c), Settles(c), job[c].err # "none" \/ ~In(c, "adopted")
  PROVE  Advances(c)
<1> DEFINE locals == [job[c] EXCEPT !.specs = <<>>, !.todo = <<>>, !.graders = <<>>]
<1>1. /\ JobFields \subseteq DOMAIN locals /\ locals.phase = job[c].phase /\ locals.run = job[c].run
      /\ locals.week = job[c].week /\ locals.result = job[c].result /\ locals.graders = <<>>
  BY Continuing DEF Continues, JobFields, Fields
<1>2. Moves(c, "settle", locals)
  BY DEF Settles
<1> HIDE DEF locals
<1>3. ToSet(locals.graders) \subseteq earned
  BY <1>1 DEF ToSet
<1>4. QED
  BY <1>1, <1>2, <1>3, SettlesAdvances

LEMMA BeginsAdvances ==
  ASSUME RInv, NEW c \in Commands, Weekly(c), NEW phase \in {"sentinel", "screen", "compare", "adopted"},
         NEW specs, Begins(c, phase, specs), job[c].err # "none" \/ ~In(c, "adopted")
  PROVE  Advances(c)
<1> DEFINE locals == [Idle EXCEPT !.phase = phase, !.week = job[c].week, !.specs = specs]
<1>1. /\ JobFields \subseteq DOMAIN locals /\ locals.phase = phase /\ locals.run = 0
      /\ locals.week = job[c].week /\ locals.result = NoResult /\ locals.graders = <<>>
  BY DEF Idle, JobFields, Fields
<1>2. Moves(c, "enter", locals)
  BY DEF Begins
<1> HIDE DEF locals
<1>3. Frame(c)
  BY <1>2, MovesOn, SamePlace DEF Weekly
<1>4. Whole("enter", locals) /\ "enter" \in Turning
  BY <1>1 DEF Whole, NoResult, Opening, Turning, Weekly
<1>5. ToSet(locals.graders) \subseteq earned
  BY <1>1 DEF ToSet
<1>6. /\ locals.run \in 0..Len(runs') /\ locals.week \in 0..Len(runs')
      /\ runs'[locals.week].by = c
      /\ \A r \in DOMAIN runs' :
           runs'[r].by = c /\ runs'[r].lost = "none" => runs'[r].status \in Final \/ r = locals.week
  BY <1>1, WeekOnly
<1>7. QED
  BY <1>1, <1>2, <1>3, <1>4, <1>5, <1>6, Handover DEF Weekly

LEMMA ForEachAdvances ==
  ASSUME RInv, NEW c \in Commands, Weekly(c), NEW specs, ForEach(c, specs),
         job[c].err # "none" \/ ~In(c, "adopted")
  PROVE  Advances(c)
<1>1. Begins(c, "compare", specs) \/ Begins(c, "adopted", specs) \/ Settles(c)
  BY DEF ForEach
<1>2. QED
  BY <1>1, BeginsAdvances, SettlesEmpty

LEMMA TakeCandidatesAdvances ==
  ASSUME RInv, NEW c \in Commands, Weekly(c), TakeCandidates(c), ~In(c, "adopted")
  PROVE  Advances(c)
<1> DEFINE locals == [job[c] EXCEPT !.err = "error"]
<1>1. CASE Moves(c, "settle", locals)
  <2>1. /\ JobFields \subseteq DOMAIN locals /\ locals.phase = job[c].phase /\ locals.run = job[c].run
        /\ locals.week = job[c].week /\ locals.result = job[c].result
        /\ ToSet(locals.graders) \subseteq earned
    BY Continuing DEF Continues, JobFields, Fields
  <2> HIDE DEF locals
  <2>2. QED
    BY <1>1, <2>1, SettlesAdvances
<1>2. CASE Begins(c, "screen", Flag(c).candidates)
  BY <1>2, BeginsAdvances
<1>3. CASE ForEach(c, Flag(c).candidates)
  BY <1>3, ForEachAdvances
<1>4. QED
  BY <1>1, <1>2, <1>3 DEF TakeCandidates

\* Downstream on the run of the comparison, and Promotion after it.
LEMMA FollowsAdvances ==
  ASSUME RInv, NEW c \in Commands, Weekly(c), job[c].err = "none",
         NEW step, NEW phase, Moves(c, step, [job[c] EXCEPT !.phase = phase]),
         \/ step = "enter" /\ phase = "downstream" /\ (In(c, "compare") \/ In(c, "adopted"))
         \/ step = "promote" /\ phase = "promotion" /\ In(c, "downstream")
  PROVE  Advances(c)
<1> DEFINE locals == [job[c] EXCEPT !.phase = phase]
<1>1. /\ JobFields \subseteq DOMAIN locals /\ locals.phase = phase /\ locals.run = job[c].run
      /\ locals.week = job[c].week /\ locals.result = job[c].result
      /\ ToSet(locals.graders) \subseteq earned
  BY Continuing DEF Continues, JobFields, Fields
<1>2. Moves(c, step, locals)
  OBVIOUS
<1> HIDE DEF locals
<1>3. Frame(c)
  BY <1>2, MovesOn, SamePlace DEF Weekly
<1>4. step = "enter" => job[c].run # 0
  <2>1. Mine(c)
    BY DEF RInv
  <2>2. QED
    BY <2>1 DEF Mine, Ranged, In, Weekly
<1>5. Whole(step, locals) /\ step \in Turning
  BY <1>1, <1>4, Continuing DEF Whole, Continues, Opening, Turning, Weekly
<1>6. /\ locals.run \in 0..Len(runs') /\ locals.week \in 0..Len(runs')
      /\ locals.run # 0 => runs'[locals.run].by = c /\ runs'[locals.run].kind = "compare"
      /\ runs'[locals.week].by = c
  BY <1>1, WeekOnly DEF In, Comparing
<1>7. \A r \in DOMAIN runs' :
        runs'[r].by = c /\ runs'[r].lost = "none" =>
          \/ runs'[r].status \in Final
          \/ r = locals.run /\ step = "enter" /\ locals.phase = "downstream"
          \/ r = locals.week /\ step # "report"
  BY <1>1, WeekOnly DEF In
<1>8. QED
  BY <1>1, <1>2, <1>3, <1>5, <1>6, <1>7, Handover DEF Weekly

LEMMA NextStepAdvances ==
  ASSUME RInv, NEW c \in Commands, NextStep(c), UNCHANGED plan PROVE Advances(c)
<1>1. Weekly(c)
  BY DEF NextStep, At, Weekly, db, UnchangedGraders
<1>2. CASE job[c].err # "none"
  BY <1>1, <1>2, SettlesEmpty DEF NextStep
<1>3. CASE job[c].err = "none" /\ (In(c, "weekly") \/ In(c, "sentinel"))
  <2>1. TakeCandidates(c) \/ Begins(c, "sentinel", <<>>)
    <3>1. CASE In(c, "weekly")
      BY <1>3, <3>1 DEF NextStep, In
    <3>2. CASE In(c, "sentinel")
      BY <1>3, <3>2 DEF NextStep, In
    <3>3. QED
      BY <1>3, <3>1, <3>2
  <2>2. ~In(c, "adopted")
    BY <1>3 DEF In
  <2>3. QED
    BY <1>1, <2>1, <2>2, TakeCandidatesAdvances, BeginsAdvances
<1>4. CASE job[c].err = "none" /\ (In(c, "compare") \/ In(c, "adopted") \/ In(c, "downstream"))
  <2>1. \/ ~In(c, "adopted") /\ \E specs : ForEach(c, specs)
        \/ /\ In(c, "compare") \/ In(c, "adopted")
           /\ Moves(c, "enter", [job[c] EXCEPT !.phase = "downstream"])
        \/ In(c, "downstream") /\ Moves(c, "promote", [job[c] EXCEPT !.phase = "promotion"])
    <3>1. CASE In(c, "compare")
      BY <1>4, <3>1 DEF NextStep, In
    <3>2. CASE In(c, "adopted")
      BY <1>4, <3>2 DEF NextStep, In
    <3>3. CASE In(c, "downstream")
      BY <1>4, <3>3 DEF NextStep, In
    <3>4. QED
      BY <1>4, <3>1, <3>2, <3>3
  <2>2. QED
    BY <1>1, <1>4, <2>1, ForEachAdvances, FollowsAdvances
<1>5. CASE /\ job[c].err = "none" /\ ~In(c, "weekly") /\ ~In(c, "sentinel")
           /\ ~In(c, "compare") /\ ~In(c, "adopted") /\ ~In(c, "downstream")
  <2>1. \E specs : ForEach(c, specs)
    BY <1>5 DEF NextStep
  <2>2. QED
    BY <1>1, <1>5, <2>1, ForEachAdvances
<1>6. QED
  BY <1>2, <1>3, <1>4, <1>5

LEMMA SettleWeekAdvances ==
  ASSUME RInv, NEW c \in Commands, SettleWeek(c), UNCHANGED plan PROVE Advances(c)
<1>1. /\ cmd[c].at = "settle" /\ Runs(c)
      /\ UNCHANGED <<candidates, reported, configs, earned, killed>>
  BY DEF SettleWeek, At, UnchangedGraders
<1>2. PICK ok \in BOOLEAN :
        /\ Attempt(ok) /\ Finish(job[c].week, Outcome(c), ok)
        /\ IF Has(c, "report") THEN Moves(c, "report", job[c])
           ELSE Exits(c, Code(job[c].err)) /\ UNCHANGED job
  BY DEF SettleWeek
<1>3. Outcome(c) \in Final /\ Outcome(c) \in Statuses
  BY DEF Outcome, Final, Statuses
<1>4. Continues(c, job[c]) /\ Mine(c)
  BY Continuing DEF RInv
<1>5. DOMAIN cmd' = Commands /\ DOMAIN job' = Commands /\ Others(c)
  <2>1. CASE Has(c, "report")
    BY <1>2, <2>1, MovesOn
  <2>2. CASE ~Has(c, "report")
    BY <1>2, <2>2 DEF Exits, Others, RInv
  <2>3. QED
    BY <2>1, <2>2
<1>6. /\ Frame(c) /\ DOMAIN runs' = DOMAIN runs
      /\ \A q \in DOMAIN runs \ {job[c].week} : runs'[q] = runs[q]
      /\ job[c].week \in DOMAIN runs => runs'[job[c].week].lost # "none" \/ runs'[job[c].week].status = Outcome(c)
  <2>1. \E y \in BOOLEAN : Attempt(y)
    BY <1>2
  <2>2. PICK r, status : r = job[c].week /\ status = Outcome(c)
    OBVIOUS
  <2>3. /\ Sets(r, status, ok, "statement") /\ status \in Final /\ status \in Statuses
        /\ r \in DOMAIN runs => runs[r].by = c
    BY <1>2, <1>3, <1>4, <2>2, LengthOfRuns DEF Finish, Mine, Ranged, RInv
  <2>4. /\ Frame(c) /\ DOMAIN runs' = DOMAIN runs
        /\ \A q \in DOMAIN runs \ {r} : runs'[q] = runs[q]
        /\ r \in DOMAIN runs => runs'[r].lost # "none" \/ runs'[r].status = status
    BY <1>1, <1>5, <2>1, <2>3, FinishFrame
  <2>5. QED
    BY <2>2, <2>4
<1>7. \A r \in DOMAIN runs' : runs'[r].by = c /\ runs'[r].lost = "none" => runs'[r].status \in Final
  <2>1. ASSUME NEW r \in DOMAIN runs', runs'[r].by = c, runs'[r].lost = "none"
        PROVE  runs'[r].status \in Final
    <3>1. CASE r = job[c].week
      BY <1>3, <1>6, <2>1, <3>1
    <3>2. CASE r # job[c].week
      BY <1>1, <1>6, <2>1, <3>2, OpenRows DEF Working
    <3>3. QED
      BY <3>1, <3>2
  <2>2. QED
    BY <2>1
<1>8. CASE ~Has(c, "report")
  <2>1. Exits(c, Code(job[c].err)) /\ job' = job
    BY <1>2, <1>8
  <2>2. Code(job[c].err) \in Codes
    BY DEF Code, Codes
  <2>3. QED
    BY <1>1, <1>6, <1>7, <1>8, <2>1, <2>2, ExitsAt
<1>9. CASE Has(c, "report")
  <2>1. Moves(c, "report", job[c])
    BY <1>2, <1>9
  <2>2. Whole("report", job[c]) /\ "report" \in Turning
    BY <1>1, <1>4 DEF Whole, Continues, Opening, Turning, Mine, Tidy, In
  <2>3. /\ job[c].run \in 0..Len(runs') /\ job[c].week \in 0..Len(runs')
        /\ job[c].week # 0 => runs'[job[c].week].by = c
        /\ job[c].phase \in Comparing /\ job[c].run # 0 => runs'[job[c].run].kind = "compare"
        /\ ToSet(job[c].graders) \subseteq earned
    BY <1>4, <1>6, StillRanged DEF Frame, Continues
  <2>4. QED
    BY <1>1, <1>6, <1>7, <2>1, <2>2, <2>3, Handover
<1>10. QED
  BY <1>8, <1>9

LEMMA WriteReportAdvances ==
  ASSUME RInv, NEW c \in Commands, WriteReport(c), UNCHANGED plan PROVE Advances(c)
<1>1. /\ cmd[c].at = "report" /\ Runs(c)
      /\ UNCHANGED <<runs, candidates, job, configs, earned, killed, faults>>
      /\ reported' = reported \cup {job[c].week}
  BY DEF WriteReport, At, UnchangedGraders
<1>2. PICK code \in {"error", Code(job[c].err)} : Exits(c, code)
  BY DEF WriteReport
<1>3. code \in Codes
  BY DEF Code, Codes
<1>4. DOMAIN cmd' = Commands /\ DOMAIN job' = Commands /\ Others(c)
  BY <1>1, <1>2 DEF Exits, Others, RInv
<1>5. Frame(c)
  <2>1. RunsGrow(c) /\ RowsGrow(c)
    BY <1>1, SameRuns, SameCandidates
  <2>2. GradersRight' /\ earned \subseteq earned' /\ FaultsRight' /\ killed \subseteq killed'
    BY <1>1, SameGraders, FaultsBounded
  <2>3. QED
    BY <1>1, <1>4, <2>1, <2>2 DEF Frame
<1>6. \A r \in DOMAIN runs' : runs'[r].by = c /\ runs'[r].lost = "none" => runs'[r].status \in Final
  BY <1>1, OpenRows DEF Working
<1>7. QED
  BY <1>1, <1>2, <1>3, <1>5, <1>6, ExitsAt

-----------------------------------------------------------------------------
(***************************************************************************)
(* A new invocation, a process that is killed, the commands about graders. *)
(***************************************************************************)

LEMMA FreshLocals ==
  ASSUME NEW script \in Seq(Invocations)
  PROVE  /\ CmdFields \subseteq DOMAIN Invocation(script) /\ JobFields \subseteq DOMAIN Idle
         /\ Invocation(script).script = script /\ Invocation(script).pos = 1
         /\ Invocation(script).exit = "none"
         /\ Invocation(script).at = IF script = <<>> THEN "done" ELSE "start"
         /\ Idle.phase = "none" /\ Idle.run = 0 /\ Idle.week = 0 /\ Idle.result = NoResult
         /\ Idle.graders = <<>>
  BY DEF Invocation, Idle, CmdFields, JobFields, Fields

LEMMA FreshStart ==
  ASSUME RInv, NEW c \in Commands, Frame(c), NEW script \in Seq(Invocations),
         cmd'[c] = Invocation(script), job'[c] = Idle,
         Runs(c)' => \A r \in DOMAIN runs' :
           runs'[r].by = c /\ runs'[r].lost = "none" => runs'[r].status \in Final
  PROVE  Advances(c)
<1>1. /\ CmdFields \subseteq DOMAIN cmd'[c] /\ JobFields \subseteq DOMAIN job'[c]
      /\ cmd'[c].script = script /\ cmd'[c].pos = 1 /\ cmd'[c].exit = "none"
      /\ cmd'[c].at = IF script = <<>> THEN "done" ELSE "start"
      /\ job'[c].phase = "none" /\ job'[c].run = 0 /\ job'[c].week = 0 /\ job'[c].result = NoResult
      /\ job'[c].graders = <<>>
  BY FreshLocals
<1>2. Tidy(c)'
  BY <1>1 DEF Tidy, In, Invocations, Codes, NoResult
<1>3. Equipment(cmd[c].at, job[c])'
  BY <1>1 DEF Equipment, Asking
<1>4. Ranged(c)'
  <2>1. Len(runs') \in Nat
    BY DEF Frame, RunsGrow, RunsRight
  <2>2. QED
    BY <1>1, <2>1 DEF Ranged, Working, In
<1>5. Accounted(c)'
  BY <1>1 DEF Accounted
<1>6. Uncompared(c)' /\ Snapshot(c)' /\ Judged(c)' /\ Borrowed(c)'
  BY <1>1 DEF Uncompared, BeforeResult, Snapshot, Judged, Borrowed, Working
<1>7. Qualified(c)'
  BY <1>1 DEF Qualified, ToSet
<1>8. QED
  BY <1>2, <1>3, <1>4, <1>5, <1>6, <1>7 DEF Advances, Mine

LEMMA NextInvocationAdvances ==
  ASSUME RInv, NEW c \in Commands, NextInvocation(c), UNCHANGED plan PROVE Advances(c)
<1>1. /\ cmd[c].at = "exited" /\ Runs(c)
      /\ UNCHANGED <<runs, candidates, reported, configs, earned, killed, faults>>
      /\ cmd' = [cmd EXCEPT ![c] = Invocation(Tail(cmd[c].script))]
      /\ job' = [job EXCEPT ![c] = Idle]
  BY DEF NextInvocation, At, db, UnchangedGraders
<1>2. /\ DOMAIN cmd' = Commands /\ DOMAIN job' = Commands /\ Others(c)
      /\ cmd'[c] = Invocation(Tail(cmd[c].script)) /\ job'[c] = Idle
  BY <1>1 DEF RInv, Others
<1>3. Frame(c)
  BY <1>1, <1>2, SamePlace
<1>4. Tail(cmd[c].script) \in Seq(Invocations)
  <2>1. cmd[c].script \in Seq(Invocations) /\ cmd[c].script # <<>>
    BY <1>1 DEF RInv, Mine, Tidy
  <2>2. QED
    BY <2>1
<1>5. \A r \in DOMAIN runs' : runs'[r].by = c /\ runs'[r].lost = "none" => runs'[r].status \in Final
  BY <1>1, OpenRows DEF Working
<1>6. QED
  BY <1>2, <1>3, <1>4, <1>5, FreshStart

LEMMA KillAdvances ==
  ASSUME RInv, NEW c \in Commands, Kill(c) PROVE Advances(c)
<1>1. /\ c \notin killed /\ AnotherFault /\ killed' = killed \cup {c}
      /\ cmd' = [cmd EXCEPT ![c] = Invocation(<<>>)] /\ job' = [job EXCEPT ![c] = Idle]
      /\ UNCHANGED <<runs, candidates, reported, configs, earned, faults>>
  BY DEF Kill, Runs, db
<1>2. /\ DOMAIN cmd' = Commands /\ DOMAIN job' = Commands /\ Others(c)
      /\ cmd'[c] = Invocation(<<>>) /\ job'[c] = Idle
  BY <1>1 DEF RInv, Others
<1>3. FaultsRight'
  <2>1. IsFiniteSet(killed) /\ faults \in Nat /\ Cardinality(killed) \in Nat /\ MaxFaults \in Nat
    BY FS_CardinalityType, FaultsConstant DEF RInv, FaultsRight
  <2>2. IsFiniteSet(killed') /\ Cardinality(killed') = Cardinality(killed) + 1
    BY <1>1, <2>1, FS_AddElement
  <2>3. QED
    BY <1>1, <2>1, <2>2 DEF FaultsRight, AnotherFault
<1>4. Frame(c)
  BY <1>1, <1>2, <1>3, SameRuns, SameCandidates, SameGraders DEF Frame
<1>5. <<>> \in Seq(Invocations) /\ ~ Runs(c)'
  BY <1>1 DEF Runs
<1>6. QED
  BY <1>2, <1>4, <1>5, FreshStart

\* A step of graders status or calibrate, which touches no job.
LEMMA OpeningGoes ==
  ASSUME RInv, NEW c \in Commands, Runs(c), cmd[c].at \in Opening,
         DOMAIN cmd' = Commands, \A d \in Commands \ {c} : cmd'[d] = cmd[d],
         UNCHANGED <<runs, candidates, reported, job, killed>>,
         UNCHANGED faults \/ \E ok \in BOOLEAN : Attempt(ok),
         GradersRight', earned \subseteq earned',
         CmdFields \subseteq DOMAIN cmd'[c], cmd'[c].script = cmd[c].script, cmd'[c].exit \in Codes,
         cmd'[c].at \in (Opening \ {"check"}) \cup {"exited"},
         cmd'[c].at \in {"withdraw", "grade", "decide"} => Head(cmd'[c].todo) \in Hashes,
         cmd'[c].at \in {"start", "sync"} => cmd'[c].pos \in Nat \ {0}
  PROVE  Advances(c)
<1>1. /\ \A r \in DOMAIN runs : runs[r].by = c /\ runs[r].lost = "none" => runs[r].status \in Final
      /\ job[c].week = 0 /\ job[c].run = 0 /\ Mine(c) /\ job'[c] = job[c]
  BY OpeningSettled DEF RInv
<1>2. Frame(c)
  <2>1. RunsGrow(c) /\ RowsGrow(c)
    BY SameRuns, SameCandidates
  <2>2. FaultsRight' /\ killed \subseteq killed'
    BY FaultsBounded
  <2>3. DOMAIN job' = Commands /\ Others(c)
    BY DEF RInv, Others
  <2>4. QED
    BY <2>1, <2>2, <2>3 DEF Frame
<1>3. cmd'[c].at \notin {"done", "enter", "create", "promote", "check", "returned"} \cup Working
  BY DEF Opening, Working
<1>4. Tidy(c)'
  <2>1. ~In(c, "promotion")
    BY <1>1 DEF Mine, Tidy, Opening
  <2>2. cmd[c].at # "done"
    BY DEF Opening
  <2>3. QED
    BY <1>1, <1>3, <2>1, <2>2 DEF Mine, Tidy, In, Invocations
<1>5. Equipment(cmd[c].at, job[c])'
  BY <1>3 DEF Equipment, Asking, Working, Opening
<1>6. Ranged(c)'
  BY <1>1, <1>3 DEF Mine, Ranged, In, Working
<1>7. Accounted(c)'
  BY <1>1 DEF Accounted
<1>8. Uncompared(c)' /\ Snapshot(c)' /\ Judged(c)' /\ Borrowed(c)'
  BY <1>3 DEF Uncompared, BeforeResult, Snapshot, Judged, Borrowed, Working
<1>9. Qualified(c)'
  <2>1. cmd'[c].at # "comparing"
    BY <1>3 DEF Working
  <2>2. ToSet(job[c].graders)' = ToSet(job[c].graders)
    BY DEF ToSet
  <2>3. QED
    BY <1>1, <2>1, <2>2 DEF Mine, Qualified
<1>10. QED
  BY <1>2, <1>4, <1>5, <1>6, <1>7, <1>8, <1>9 DEF Advances, Mine

\* A calibration on record; who it admits has earned it.
LEMMA CalibrationRight ==
  ASSUME RInv, NEW h, NEW calibration, NEW admitted \in BOOLEAN,
         configs' = WithCalibration(h, calibration, admitted),
         admitted => WithinLimit(calibration) /\ h \in earned',
         earned \subseteq earned', earned' \subseteq Hashes
  PROVE  GradersRight'
<1>1. /\ DOMAIN configs' = DOMAIN configs
      /\ \A g \in DOMAIN configs \ {h} : configs'[g] = configs[g]
      /\ h \in DOMAIN configs =>
           /\ DOMAIN configs'[h] = DOMAIN configs[h] /\ configs'[h].key = configs[h].key
           /\ configs'[h].admitted = admitted /\ configs'[h].calibration = calibration
  BY DEF WithCalibration, RInv, GradersRight
<1>2. ASSUME NEW g \in DOMAIN configs'
      PROVE  /\ {"key", "role", "admitted", "calibration"} \subseteq DOMAIN configs'[g]
             /\ configs'[g].key \in Nat
             /\ configs'[g].admitted => WithinLimit(configs'[g].calibration) /\ g \in earned'
  <2>1. CASE g = h
    BY <1>1, <2>1 DEF RInv, GradersRight
  <2>2. CASE g # h
    BY <1>1, <2>2 DEF RInv, GradersRight, Admitted
  <2>3. QED
    BY <2>1, <2>2
<1>3. QED
  BY <1>1, <1>2 DEF RInv, GradersRight, Admitted, WithinLimit

\* A row known by its hash keeps its admission, a new one has none.
LEMMA UpsertedRight ==
  ASSUME RInv, NEW e \in [hash : Hashes, key : Nat, role : STRING], configs' = Upserted(e), UNCHANGED earned
  PROVE  GradersRight'
<1>1. e.hash \in Hashes /\ e.key \in Nat
  OBVIOUS
<1>2. /\ DOMAIN configs' = DOMAIN configs \cup {e.hash}
      /\ \A g \in DOMAIN configs \ {e.hash} : configs'[g] = configs[g]
  BY DEF Upserted
<1>3. e.hash \in DOMAIN configs => configs'[e.hash] = [configs[e.hash] EXCEPT !.key = e.key, !.role = e.role]
  BY DEF Upserted
<1>4. e.hash \notin DOMAIN configs =>
        configs'[e.hash] = [key |-> e.key, role |-> e.role, admitted |-> FALSE, calibration |-> [kind |-> "none"]]
  BY DEF Upserted
<1>5. ASSUME NEW g \in DOMAIN configs'
      PROVE  /\ {"key", "role", "admitted", "calibration"} \subseteq DOMAIN configs'[g]
             /\ configs'[g].key \in Nat
             /\ configs'[g].admitted => WithinLimit(configs'[g].calibration) /\ g \in earned'
  <2>1. CASE g = e.hash /\ g \in DOMAIN configs
    BY <1>1, <1>3, <2>1 DEF RInv, GradersRight, Admitted
  <2>2. CASE g = e.hash /\ g \notin DOMAIN configs
    BY <1>1, <1>4, <2>2
  <2>3. CASE g # e.hash
    BY <1>2, <2>3 DEF RInv, GradersRight, Admitted
  <2>4. QED
    BY <2>1, <2>2, <2>3
<1>6. QED
  BY <1>1, <1>2, <1>5 DEF RInv, GradersRight, Admitted, WithinLimit

LEMMA GradersStepAdvances ==
  ASSUME RInv, NEW c \in Commands, GradersStep(c), UNCHANGED <<db, job, plan>>
  PROVE  Advances(c)
<1>1. /\ cmd[c].at \in {"sync", "calibrate", "withdraw", "grade", "decide", "recordFailure"} /\ Runs(c)
      /\ UNCHANGED <<runs, candidates, reported, job, killed>>
  BY DEF GradersStep, SyncEntry, Synced, StartCalibration, Withdraw, GradeItems, Decide, RecordFailure, At, db
<1>2. cmd[c].at \in Opening /\ Mine(c) /\ CmdFields \subseteq DOMAIN cmd[c] /\ DOMAIN cmd = Commands
  BY <1>1 DEF Opening, RInv, Mine, Tidy
<1>3. GradersRight /\ earned \subseteq Hashes
  BY DEF RInv, GradersRight
<1>4. ASSUME GradersRight', earned \subseteq earned', UNCHANGED faults \/ \E ok \in BOOLEAN : Attempt(ok),
             NEW step \in {"recordFailure", "grade"}, Go(c, step),
             step = "grade" => Head(cmd[c].todo) \in Hashes
      PROVE  Advances(c)
  <2>1. /\ DOMAIN cmd' = Commands /\ \A d \in Commands \ {c} : cmd'[d] = cmd[d]
        /\ CmdFields \subseteq DOMAIN cmd'[c] /\ cmd'[c].script = cmd[c].script
        /\ cmd'[c].exit = cmd[c].exit /\ cmd'[c].at = step /\ cmd'[c].todo = cmd[c].todo
    BY <1>2, <1>4 DEF Go, CmdFields
  <2>2. step \in (Opening \ {"check"}) \cup {"exited"} /\ cmd[c].exit \in Codes
    BY <1>2 DEF Opening, Mine, Tidy
  <2>3. QED
    BY <1>1, <1>2, <1>4, <2>1, <2>2, OpeningGoes
<1>5. ASSUME GradersRight', earned \subseteq earned', UNCHANGED faults \/ \E ok \in BOOLEAN : Attempt(ok),
             NEW code \in Codes, Exits(c, code)
      PROVE  Advances(c)
  <2>1. /\ DOMAIN cmd' = Commands /\ \A d \in Commands \ {c} : cmd'[d] = cmd[d]
        /\ CmdFields \subseteq DOMAIN cmd'[c] /\ cmd'[c].script = cmd[c].script
        /\ cmd'[c].exit = code /\ cmd'[c].at = "exited"
    BY <1>2, <1>5 DEF Exits, CmdFields
  <2>2. QED
    BY <1>1, <1>2, <1>5, <2>1, OpeningGoes
<1>6. ASSUME GradersRight', earned \subseteq earned', UNCHANGED faults \/ \E ok \in BOOLEAN : Attempt(ok),
             NEW how, NextTarget(c, how)
      PROVE  Advances(c)
  <2>1. PICK code, todo, failed, row :
          /\ code \in Codes
          /\ cmd' = [cmd EXCEPT ![c].todo = todo, ![c].failed = failed, ![c].row = row,
                                ![c].at = IF Len(cmd[c].todo) = 1 THEN "exited" ELSE "calibrate",
                                ![c].exit = IF Len(cmd[c].todo) = 1 THEN code ELSE "none"]
    <3>1. \A failed : IF "error" \in failed THEN "error" \in Codes
                      ELSE IF "over" \in failed THEN "blocked" \in Codes ELSE "ok" \in Codes
      BY DEF Codes
    <3>2. QED
      BY <1>6, <3>1 DEF NextTarget
  <2>2. /\ DOMAIN cmd' = Commands /\ \A d \in Commands \ {c} : cmd'[d] = cmd[d]
        /\ CmdFields \subseteq DOMAIN cmd'[c] /\ cmd'[c].script = cmd[c].script
        /\ cmd'[c].exit \in Codes /\ cmd'[c].at \in {"exited", "calibrate"}
    BY <1>2, <2>1 DEF CmdFields, Codes
  <2>3. cmd'[c].at \in (Opening \ {"check"}) \cup {"exited"}
    BY <2>2 DEF Opening
  <2>4. QED
    BY <1>1, <1>2, <1>6, <2>2, <2>3, OpeningGoes
<1>7. UNCHANGED <<configs, earned>> => GradersRight' /\ earned \subseteq earned'
  BY SameGraders
<1>8. CASE SyncEntry(c)
  <2>1. cmd[c].at = "sync" /\ UNCHANGED earned /\ cmd[c].pos \in Nat \ {0} /\ cmd[c].pos <= Len(Flag(c).file)
    BY <1>2, <1>8 DEF SyncEntry, At, Entries, Mine, Tidy
  <2>2. \E ok \in BOOLEAN : Attempt(ok)
    BY <1>8 DEF SyncEntry
  <2>3. CASE UNCHANGED configs /\ Exits(c, "error")
    BY <1>5, <1>7, <2>1, <2>2, <2>3 DEF Codes
  <2>4. CASE configs' = Upserted(Entries(c)[cmd[c].pos]) /\ cmd' = [cmd EXCEPT ![c].pos = @ + 1]
    <3>1. Entries(c)[cmd[c].pos] \in [hash : Hashes, key : Nat, role : STRING]
      <4>1. Flag(c).file \in Seq([hash : Hashes, key : Nat, role : STRING])
        BY <2>1, FlagLegal
      <4>2. \A S, s : s \in Seq(S) => \A i \in 1..Len(s) : s[i] \in S
        OBVIOUS
      <4>3. cmd[c].pos \in 1..Len(Flag(c).file)
        BY <2>1, <4>1
      <4>4. QED
        BY <4>1, <4>2, <4>3 DEF Entries
    <3>2. GradersRight' /\ earned \subseteq earned'
      BY <2>1, <2>4, <3>1, UpsertedRight
    <3>3. /\ DOMAIN cmd' = Commands /\ \A d \in Commands \ {c} : cmd'[d] = cmd[d]
          /\ CmdFields \subseteq DOMAIN cmd'[c] /\ cmd'[c].script = cmd[c].script
          /\ cmd'[c].exit = cmd[c].exit /\ cmd'[c].at = "sync" /\ cmd'[c].pos = cmd[c].pos + 1
      BY <1>2, <2>1, <2>4 DEF CmdFields
    <3>4. /\ cmd'[c].at \in (Opening \ {"check"}) \cup {"exited"} /\ cmd[c].exit \in Codes
          /\ cmd'[c].pos \in Nat \ {0}
      BY <1>2, <2>1, <3>3 DEF Opening, Mine, Tidy
    <3>5. QED
      BY <1>1, <1>2, <2>2, <3>2, <3>3, <3>4, OpeningGoes
  <2>5. QED
    BY <1>8, <2>3, <2>4 DEF SyncEntry
<1>9. CASE Synced(c)
  <2>1. UNCHANGED <<configs, earned>> /\ (UNCHANGED faults \/ \E ok \in BOOLEAN : Attempt(ok))
    BY <1>9 DEF Synced
  <2>2. CASE \E code \in Codes : Exits(c, code)
    BY <1>5, <1>7, <2>1, <2>2
  <2>3. CASE cmd' = [cmd EXCEPT ![c].at = "calibrate", ![c].todo = Targets(c), ![c].failed = {}]
    <3>1. /\ DOMAIN cmd' = Commands /\ \A d \in Commands \ {c} : cmd'[d] = cmd[d]
          /\ CmdFields \subseteq DOMAIN cmd'[c] /\ cmd'[c].script = cmd[c].script
          /\ cmd'[c].exit = cmd[c].exit /\ cmd'[c].at = "calibrate"
      BY <1>2, <2>3 DEF CmdFields
    <3>2. cmd'[c].at \in (Opening \ {"check"}) \cup {"exited"} /\ cmd[c].exit \in Codes
      BY <1>2, <3>1 DEF Opening, Mine, Tidy
    <3>3. QED
      BY <1>1, <1>2, <1>7, <2>1, <3>1, <3>2, OpeningGoes
  <2>4. (\E code \in Codes : Exits(c, code))
        \/ cmd' = [cmd EXCEPT ![c].at = "calibrate", ![c].todo = Targets(c), ![c].failed = {}]
    <3>1. "ok" \in Codes /\ "error" \in Codes /\ "validation" \in Codes
      BY DEF Codes
    <3>2. QED
      BY <1>9, <3>1 DEF Synced
  <2>5. QED
    BY <2>2, <2>3, <2>4
<1>10. CASE StartCalibration(c)
  <2>1. UNCHANGED <<configs, earned>> /\ (UNCHANGED faults \/ \E ok \in BOOLEAN : Attempt(ok))
    BY <1>10 DEF StartCalibration
  <2>2. CASE Go(c, "recordFailure")
    BY <1>4, <1>7, <2>1, <2>2
  <2>3. CASE /\ Target(c) \in Strict
             /\ cmd' = [cmd EXCEPT ![c].at = "withdraw", ![c].row = configs[Target(c)].calibration]
    <3>1. /\ DOMAIN cmd' = Commands /\ \A d \in Commands \ {c} : cmd'[d] = cmd[d]
          /\ CmdFields \subseteq DOMAIN cmd'[c] /\ cmd'[c].script = cmd[c].script
          /\ cmd'[c].exit = cmd[c].exit /\ cmd'[c].at = "withdraw" /\ cmd'[c].todo = cmd[c].todo
      BY <1>2, <2>3 DEF CmdFields
    <3>2. cmd'[c].at \in (Opening \ {"check"}) \cup {"exited"} /\ cmd[c].exit \in Codes
      BY <1>2, <3>1 DEF Opening, Mine, Tidy
    <3>3. Head(cmd'[c].todo) \in Hashes
      BY <2>3, <3>1, GraderConstants DEF Target
    <3>4. QED
      BY <1>1, <1>2, <1>7, <2>1, <3>1, <3>2, <3>3, OpeningGoes
  <2>4. QED
    BY <1>10, <2>2, <2>3 DEF StartCalibration
<1>11. CASE Withdraw(c)
  <2>1. /\ UNCHANGED earned /\ \E ok \in BOOLEAN : Attempt(ok)
        /\ Head(cmd[c].todo) \in Hashes
    BY <1>2, <1>11 DEF Withdraw, At, Mine, Tidy
  <2>2. CASE configs' = WithCalibration(Target(c), cmd[c].row, FALSE) /\ Go(c, "grade")
    <3>1. GradersRight'
      BY <1>3, <2>1, <2>2, CalibrationRight
    <3>2. QED
      BY <1>4, <2>1, <2>2, <3>1
  <2>3. CASE UNCHANGED configs /\ Go(c, "recordFailure")
    BY <1>4, <1>7, <2>1, <2>3
  <2>4. QED
    BY <1>11, <2>2, <2>3 DEF Withdraw
<1>12. CASE GradeItems(c)
  <2>1. UNCHANGED <<configs, earned, faults>> /\ Head(cmd[c].todo) \in Hashes
    BY <1>2, <1>12 DEF GradeItems, At, Mine, Tidy
  <2>2. CASE Go(c, "recordFailure")
    BY <1>4, <1>7, <2>1, <2>2
  <2>3. ASSUME NEW n,
               cmd' = [cmd EXCEPT ![c].at = "decide", ![c].row = [kind |-> "graded", reversals |-> n]]
        PROVE  Advances(c)
    <3>1. /\ DOMAIN cmd' = Commands /\ \A d \in Commands \ {c} : cmd'[d] = cmd[d]
          /\ CmdFields \subseteq DOMAIN cmd'[c] /\ cmd'[c].script = cmd[c].script
          /\ cmd'[c].exit = cmd[c].exit /\ cmd'[c].at = "decide" /\ cmd'[c].todo = cmd[c].todo
      BY <1>2, <2>3 DEF CmdFields
    <3>2. cmd'[c].at \in (Opening \ {"check"}) \cup {"exited"} /\ cmd[c].exit \in Codes
      BY <1>2, <3>1 DEF Opening, Mine, Tidy
    <3>3. QED
      BY <1>1, <1>2, <1>7, <2>1, <3>1, <3>2, OpeningGoes
  <2>4. QED
    BY <1>12, <2>2, <2>3 DEF GradeItems
<1>13. CASE Decide(c)
  <2>1. (\E ok \in BOOLEAN : Attempt(ok)) /\ Target(c) \in Hashes
    BY <1>2, <1>13 DEF Decide, At, Mine, Tidy, Target
  <2>2. ASSUME NEW how, configs' = WithCalibration(Target(c), cmd[c].row, WithinLimit(cmd[c].row)),
               earned' = IF WithinLimit(cmd[c].row) THEN earned \cup {Target(c)} ELSE earned,
               NextTarget(c, how)
        PROVE  Advances(c)
    <3>1. earned \subseteq earned' /\ earned' \subseteq Hashes
          /\ (WithinLimit(cmd[c].row) => Target(c) \in earned')
      BY <1>3, <2>1, <2>2
    <3>2. WithinLimit(cmd[c].row) \in BOOLEAN
      BY DEF WithinLimit
    <3>3. GradersRight'
      BY <2>2, <3>1, <3>2, CalibrationRight
    <3>4. QED
      BY <1>6, <2>1, <2>2, <3>1, <3>3
  <2>3. CASE UNCHANGED <<configs, earned>> /\ Go(c, "recordFailure")
    BY <1>4, <1>7, <2>1, <2>3
  <2>4. QED
    BY <1>13, <2>2, <2>3 DEF Decide
<1>14. CASE RecordFailure(c)
  <2>1. /\ UNCHANGED earned /\ \E ok \in BOOLEAN : Attempt(ok)
        /\ NextTarget(c, "error")
        /\ \/ configs' = WithCalibration(Target(c), [kind |-> "error"], FALSE)
           \/ configs' = configs
    BY <1>14 DEF RecordFailure
  <2>2. GradersRight'
    BY <1>3, <1>7, <2>1, CalibrationRight
  <2>3. QED
    BY <1>6, <2>1, <2>2
<1>15. QED
  BY <1>8, <1>9, <1>10, <1>11, <1>12, <1>13, <1>14 DEF GradersStep

-----------------------------------------------------------------------------
(***************************************************************************)
(* The second invariant and what follows from it.                          *)
(***************************************************************************)

LEMMA InitRInv == Init => RInv
<1> SUFFICES ASSUME Init PROVE RInv
  OBVIOUS
<1>1. /\ plan \in Plans /\ configs = plan.configs /\ earned = Admitted(DOMAIN configs)
      /\ cmd = [c \in Commands |-> Invocation(plan.script[c])] /\ job = [c \in Commands |-> Idle]
      /\ runs = <<>> /\ candidates = <<>> /\ reported = {} /\ faults = 0 /\ killed = {}
  BY DEF Init
<1>2. GradersRight
  <2>1. \A h \in DOMAIN configs :
          /\ h \in Hashes
          /\ configs[h] \in [key : Nat, role : STRING, admitted : BOOLEAN, calibration : Calibrations]
          /\ configs[h].admitted => WithinLimit(configs[h].calibration)
    BY <1>1, PlanConstants
  <2>2. \A h \in DOMAIN configs :
          {"key", "role", "admitted", "calibration"} \subseteq DOMAIN configs[h] /\ configs[h].key \in Nat
    BY <2>1
  <2>3. Admitted(DOMAIN configs) \subseteq DOMAIN configs
    BY DEF Admitted
  <2>4. QED
    BY <1>1, <2>1, <2>2, <2>3 DEF GradersRight
<1>3. RunsRight /\ CandidatesRight
  BY <1>1 DEF RunsRight, CandidatesRight
<1>4. FaultsRight
  BY <1>1, FS_EmptySet, FaultsConstant DEF FaultsRight
<1>5. ASSUME NEW c \in Commands PROVE Mine(c)
  <2>1. plan.script[c] \in Seq(Invocations)
    BY <1>1, PlanConstants
  <2>2. PICK script : script = plan.script[c]
    OBVIOUS
  <2>3. cmd[c] = Invocation(script) /\ job[c] = Idle /\ script \in Seq(Invocations)
    BY <1>1, <2>1, <2>2
  <2>4. /\ CmdFields \subseteq DOMAIN cmd[c] /\ JobFields \subseteq DOMAIN job[c]
        /\ cmd[c].script = script /\ cmd[c].pos = 1 /\ cmd[c].exit = "none"
        /\ cmd[c].at = IF script = <<>> THEN "done" ELSE "start"
        /\ job[c].phase = "none" /\ job[c].run = 0 /\ job[c].week = 0 /\ job[c].result = NoResult
        /\ job[c].graders = <<>>
    BY <2>3, FreshLocals
  <2>5. Tidy(c)
    BY <2>3, <2>4 DEF Tidy, In, Codes, NoResult
  <2>6. Equipment(cmd[c].at, job[c])
    BY <2>4 DEF Equipment, Asking
  <2>7. Ranged(c) /\ Accounted(c)
    BY <1>1, <2>4 DEF Ranged, Accounted, Working, In
  <2>8. Uncompared(c) /\ Snapshot(c) /\ Judged(c) /\ Borrowed(c)
    BY <2>4 DEF Uncompared, BeforeResult, Snapshot, Judged, Borrowed, Working
  <2>9. Qualified(c)
    BY <2>4 DEF Qualified, ToSet
  <2>10. QED
    BY <2>5, <2>6, <2>7, <2>8, <2>9 DEF Mine
<1>6. QED
  BY <1>1, <1>2, <1>3, <1>4, <1>5 DEF RInv

LEMMA StutterRInv == RInv /\ UNCHANGED vars => RInv'
<1> SUFFICES ASSUME RInv, UNCHANGED vars PROVE RInv'
  OBVIOUS
<1>1. /\ cmd' = cmd /\ job' = job /\ runs' = runs /\ candidates' = candidates /\ reported' = reported
      /\ faults' = faults /\ killed' = killed /\ configs' = configs /\ earned' = earned
  BY DEF vars, db
<1>2. GradersRight'
  BY <1>1, SameGraders
<1>3. RunsRight' /\ CandidatesRight' /\ FaultsRight'
  BY <1>1 DEF RInv, RunsRight, CandidatesRight, FaultsRight, Founded, Passes, NoRow
<1>4. ASSUME NEW c \in Commands PROVE Mine(c)'
  <2>1. Mine(c)
    BY DEF RInv
  <2>2. Tidy(c)'
    BY <1>1, <2>1 DEF Mine, Tidy, In, Invocations
  <2>3. Equipment(cmd[c].at, job[c])'
    BY <1>1, <2>1 DEF Mine, Equipment
  <2>4. Ranged(c)' /\ Accounted(c)'
    BY <1>1, <2>1 DEF Mine, Ranged, In, Accounted, Holds, Runs, Has, Flag
  <2>5. Uncompared(c)' /\ Borrowed(c)'
    BY <1>1, <2>1 DEF Mine, Uncompared, BeforeResult, Borrowed, Available
  <2>6. Row(c)' = Row(c)
    BY <1>1 DEF Row, Candidate
  <2>7. Snapshot(c)'
    BY <1>1, <2>1, <2>6 DEF Mine, Snapshot, In, Founded, Passes, NoRow
  <2>8. Judged(c)'
    BY <1>1, <2>1, <2>6 DEF Mine, Judged, In, Passes
  <2>9. Qualified(c)'
    BY <1>1, <2>1 DEF Mine, Qualified, ToSet
  <2>10. QED
    BY <2>2, <2>3, <2>4, <2>5, <2>7, <2>8, <2>9 DEF Mine
<1>5. QED
  BY <1>1, <1>2, <1>3, <1>4 DEF RInv

LEMMA StepRInv == RInv /\ [Next]_vars => RInv'
<1> SUFFICES ASSUME RInv, [Next]_vars PROVE RInv'
  OBVIOUS
<1>1. ASSUME NEW c \in Commands, Advances(c) PROVE RInv'
  <2>1. Frame(c) /\ Mine(c)'
    BY <1>1 DEF Advances
  <2>2. \A d \in Commands : Mine(d)'
    BY <2>1, OthersKeep
  <2>3. QED
    BY <2>1, <2>2 DEF RInv, Frame, RunsGrow, RowsGrow
<1>2. ASSUME NEW c \in Commands, Command(c) PROVE RInv'
  <2>1. CASE GradersStep(c) /\ UNCHANGED <<db, job, plan>>
    BY <1>1, <2>1, GradersStepAdvances
  <2>2. CASE UNCHANGED plan /\ (Open(c) \/ Load(c) \/ CheckPack(c) \/ Enter(c) \/ Create(c) \/ MarkRunning(c))
    BY <1>1, <2>2, OpenAdvances, LoadAdvances, CheckPackAdvances, EnterAdvances, CreateAdvances,
       MarkRunningAdvances
  <2>3. CASE UNCHANGED plan /\ (Pair(c) \/ CheckDrift(c) \/ Block(c) \/ Baselines(c) \/ Cases(c))
    BY <1>1, <2>3, PairAdvances, CheckDriftAdvances, BlockAdvances, BaselinesCoverAdvance, CasesAdvance
  <2>4. CASE /\ UNCHANGED plan
             /\ Generate(c) \/ GenerateCouncils(c) \/ GradeAll(c) \/ Resolve(c) \/ CompareCase(c)
                \/ InsertSentinel(c)
    BY <1>1, <2>4, GenerateAdvances, GradeAllAdvances, ResolveAdvances, CompareCaseAdvances,
       InsertSentinelAdvances
  <2>5. CASE UNCHANGED plan /\ (Tally(c) \/ Summarise(c) \/ Cover(c) \/ CloseCase(c))
    BY <1>1, <2>5, TallyAdvances, SummariseAdvances, BaselinesCoverAdvance, CloseCaseAdvances
  <2>6. CASE UNCHANGED plan /\ (Find(c) \/ Refresh(c) \/ Insert(c) \/ Promote(c) \/ ReadRow(c) \/ WriteRow(c))
    BY <1>1, <2>6, FindAdvances, RefreshAdvances, InsertAdvances, PromoteAdvances, ReadRowAdvances, WriteRowAdvances
  <2>7. CASE UNCHANGED plan /\ (Complete(c) \/ FailRun(c) \/ CommandReturns(c) \/ NextStep(c))
    BY <1>1, <2>7, CompleteAdvances, FailRunAdvances, CommandReturnsAdvances, NextStepAdvances
  <2>8. CASE UNCHANGED plan /\ (SettleWeek(c) \/ WriteReport(c) \/ NextInvocation(c))
    BY <1>1, <2>8, SettleWeekAdvances, WriteReportAdvances, NextInvocationAdvances
  <2>9. QED
    BY <1>2, <2>1, <2>2, <2>3, <2>4, <2>5, <2>6, <2>7, <2>8 DEF Command
<1>3. ASSUME NEW c \in Commands, Kill(c) PROVE RInv'
  BY <1>1, <1>3, KillAdvances
<1>4. CASE UNCHANGED vars
  BY <1>4, StutterRInv
<1>5. QED
  BY <1>2, <1>3, <1>4 DEF Next, AllEnded

LEMMA AlwaysRInv == Spec => []RInv
  BY InitRInv, StepRInv, PTL DEF Spec

\* The rows of the store and the locals of every command keep their shape: a
\* known status and owner, a candidate only in a run there is, one grader while
\* screening and two in every comparison, and no admitted grader without a
\* graded calibration, however many statements fail.
THEOREM HarnessTypes == Spec => []HarnessTypeOK
<1>1. RInv => HarnessTypeOK
  <2> SUFFICES ASSUME RInv PROVE HarnessTypeOK
    OBVIOUS
  <2>1. \A r \in DOMAIN runs : runs[r].status \in Statuses /\ runs[r].by \in Commands
    BY DEF RInv, RunsRight
  <2>2. /\ DOMAIN configs \subseteq Hashes /\ earned \subseteq Hashes
        /\ \A h \in DOMAIN configs : configs[h].calibration.kind = "graded" \/ ~configs[h].admitted
    BY DEF RInv, GradersRight, WithinLimit
  <2>3. \A row \in DOMAIN candidates : row[1] \in DOMAIN runs
    BY DEF RInv, CandidatesRight
  <2>4. ASSUME NEW c \in Commands
        PROVE  /\ cmd[c].exit \in Codes
               /\ job[c].run \in 0..Len(runs) /\ job[c].week \in 0..Len(runs)
               /\ cmd[c].at \in {"pool", "grading", "resolve", "comparing", "compared", "cover"} =>
                    Len(job[c].graders) = IF In(c, "screen") THEN 1 ELSE 2
    <3>1. Tidy(c) /\ Equipment(cmd[c].at, job[c]) /\ Ranged(c)
      BY DEF RInv, Mine
    <3>2. QED
      BY <3>1 DEF Tidy, Equipment, Ranged, Asking, In
  <2>5. faults + Cardinality(killed) <= MaxFaults
    BY DEF RInv, FaultsRight
  <2>6. QED
    BY <2>1, <2>2, <2>3, <2>4, <2>5 DEF HarnessTypeOK
<1>2. QED
  BY <1>1, AlwaysRInv, PTL

\* SelectionGraders, SelectGrader, resolveGraders: every grader that compares two
\* responses has passed a calibration once, and no row says admitted beyond the
\* limit, whatever graders calibrate and an edited graders file do in between.
THEOREM GradersHaveEarnedIt == Spec => []GradersEarnedIt
<1>1. RInv => GradersEarnedIt
  <2> SUFFICES ASSUME RInv PROVE GradersEarnedIt
    OBVIOUS
  <2>1. ASSUME NEW c \in Commands, At(c, "comparing") PROVE ToSet(job[c].using) \subseteq earned
    BY <2>1 DEF RInv, Mine, Qualified, At
  <2>2. QED
    BY <2>1 DEF GradersEarnedIt, RInv, GradersRight
<1>2. QED
  BY <1>1, AlwaysRInv, PTL

\* Promotion and UpdateCandidateResults: a promotion on record has both results
\* beside it, and says promote only where the comparison on record passes the
\* rules, though two commands may read the row, and each write all of it back,
\* in any order.
THEOREM PromotionsAreFounded == Spec => []PromotionHasEvidence
<1>1. RInv => PromotionHasEvidence
  <2> SUFFICES ASSUME RInv, NEW x \in DOMAIN candidates, candidates[x].promotion # <<>>
               PROVE  /\ candidates[x].compare # <<>> /\ candidates[x].downstream # <<>>
                      /\ candidates[x].promotion[1] =>
                           /\ ~candidates[x].compare[1].priority /\ candidates[x].compare[1].hard >= 0
                           /\ candidates[x].compare[1].profile # "poor"
    BY DEF PromotionHasEvidence
  <2>1. Founded(candidates[x])
    BY DEF RInv, CandidatesRight
  <2>2. QED
    BY <2>1 DEF Founded, Passes
<1>2. QED
  BY <1>1, AlwaysRInv, PTL

\* FailRun, FinishRun, writeReport: when an invocation has exited, every row it
\* created is blocked, failed or complete, but for the three ways RunsSettle
\* names; and a weekly run has come to its report.
THEOREM RunsAreSettled == Spec => []RunsSettle
<1>1. RInv => RunsSettle
  <2> SUFFICES ASSUME RInv, NEW c \in Commands, Runs(c), cmd[c].at = "exited"
               PROVE  /\ \A r \in DOMAIN runs : runs[r].by = c =>
                           \/ runs[r].status \in Final
                           \/ runs[r].lost \in {"statement", "unstarted"}
                           \/ runs[r].lost = "unread" /\ runs[r].kind = "compare"
                      /\ job[c].week # 0 /\ Has(c, "report") => job[c].week \in reported
    BY DEF RunsSettle, At
  <2>1. Accounted(c) /\ RunsRight
    BY DEF RInv, Mine
  <2>2. \A r \in DOMAIN runs : ~ Holds(c, r)
    BY DEF Holds, Working
  <2>3. \A r \in DOMAIN runs : runs[r].by = c /\ runs[r].lost = "none" => runs[r].status \in Final
    BY <2>1, <2>2 DEF Accounted
  <2>4. QED
    BY <2>1, <2>3 DEF Accounted, RunsRight
<1>2. QED
  BY <1>1, AlwaysRInv, PTL

-----------------------------------------------------------------------------
\* What Only keeps.
LEMMA OnlyHolds ==
  ASSUME NEW S, NEW s \in Seq(S), NEW T
  PROVE  /\ Only(s, T) \in Seq(S)
         /\ ToSet(Only(s, T)) = ToSet(s) \cap T
         /\ IsInjective(s) => IsInjective(Only(s, T))
<1> DEFINE kept(i) == IF s[i] \in T THEN <<s[i]>> ELSE <<>>
           parts == [i \in DOMAIN s |-> kept(i)]
<1>1. Len(s) \in Nat /\ DOMAIN s = 1..Len(s) /\ \A i \in DOMAIN s : s[i] \in S
  BY LenProperties
<1>2. \A i \in DOMAIN s : kept(i) \in Seq(S)
  BY <1>1
<1>3. \A i \in DOMAIN s : \A x : x \in ToSet(kept(i)) <=> x = s[i] /\ x \in T
  <2>1. ToSet(<<>>) = {}
    BY DEF ToSet
  <2>2. \A x : ToSet(<<x>>) = {x}
    BY DEF ToSet
  <2>3. QED
    BY <2>1, <2>2
<1>4. \A i \in DOMAIN s : IsInjective(kept(i))
  BY DEF IsInjective
<1> HIDE DEF kept
<1>5. parts \in [1..Len(s) -> Seq(S)]
  BY <1>1, <1>2
<1>6. parts \in Seq(Seq(S)) /\ DOMAIN parts = DOMAIN s /\ \A i \in DOMAIN s : parts[i] = kept(i)
  BY <1>1, <1>5
<1>7. Only(s, T) = FlattenSeq(parts)
  BY DEF Only, kept
<1> HIDE DEF parts
<1>8. /\ Only(s, T) \in Seq(S)
      /\ \A x : x \in ToSet(Only(s, T)) <=> \E i \in DOMAIN s : x \in ToSet(kept(i))
  BY <1>6, <1>7, FlattenHolds
<1>9. \A x : x \in ToSet(Only(s, T)) <=> x \in ToSet(s) /\ x \in T
  <2>1. \A x : x \in ToSet(s) <=> \E i \in DOMAIN s : x = s[i]
    BY DEF ToSet
  <2>2. QED
    BY <1>3, <1>8, <2>1, Zenon
<1>10. ASSUME IsInjective(s) PROVE IsInjective(Only(s, T))
  <2>1. \A i, k \in DOMAIN s : s[i] = s[k] => i = k
    BY <1>10 DEF IsInjective
  <2>2. \A i, k \in DOMAIN parts : i # k => \A x : ~ (x \in ToSet(parts[i]) /\ x \in ToSet(parts[k]))
    BY <1>3, <1>6, <2>1
  <2>3. \A i \in DOMAIN parts : IsInjective(parts[i])
    BY <1>4, <1>6
  <2>4. QED
    BY <1>6, <1>7, <2>2, <2>3, FlattenInjective
<1>11. QED
  BY <1>8, <1>9, <1>10

\* A rotation says what was said, as often.
LEMMA RotateHolds ==
  ASSUME NEW S, NEW s \in Seq(S), s # <<>>, NEW offset \in Nat
  PROVE  /\ Rotate(s, offset) \in Seq(S) /\ Len(Rotate(s, offset)) = Len(s) /\ Len(s) \in Nat \ {0}
         /\ ToSet(Rotate(s, offset)) = ToSet(s)
         /\ IsInjective(s) => IsInjective(Rotate(s, offset))
<1> DEFINE n == Len(s)
           o == offset % n
           place(i) == IF i <= n - o THEN o + i ELSE i - (n - o)
           r == Rotate(s, offset)
<1>1. n \in Nat \ {0} /\ DOMAIN s = 1..n /\ \A i \in 1..n : s[i] \in S
  BY LenProperties
<1>2. o \in 0..(n - 1)
  BY <1>1
<1>3. r = [i \in 1..n |-> s[place(i)]]
  BY <1>1 DEF Rotate
<1> HIDE DEF n, o, r
<1>4. \A i \in 1..n : place(i) \in 1..n
  BY <1>1, <1>2
<1>5. r \in [1..n -> S]
  BY <1>1, <1>3, <1>4
<1>6. r \in Seq(S) /\ Len(r) = n /\ DOMAIN r = 1..n
  BY <1>1, <1>5
<1>7. \A i \in 1..n : place(i) \in 1..n /\ r[i] = s[place(i)]
  BY <1>3, <1>4
<1>8. \A i, k \in 1..n : place(i) = place(k) => i = k
  BY <1>1, <1>2
<1>9. \A k \in 1..n : \E i \in 1..n : place(i) = k
  <2>1. ASSUME NEW k \in 1..n, k <= o PROVE k + (n - o) \in 1..n /\ place(k + (n - o)) = k
    BY <1>1, <1>2, <2>1
  <2>2. ASSUME NEW k \in 1..n, ~ (k <= o) PROVE k - o \in 1..n /\ place(k - o) = k
    BY <1>1, <1>2, <2>2
  <2> HIDE DEF place
  <2>3. QED
    BY <2>1, <2>2
<1> HIDE DEF place
<1>10. ToSet(r) = ToSet(s)
  <2>1. \A x : x \in ToSet(r) <=> \E i \in 1..n : x = r[i]
    BY <1>6 DEF ToSet
  <2>2. \A x : x \in ToSet(s) <=> \E i \in 1..n : x = s[i]
    BY <1>1 DEF ToSet
  <2>3. \A x : x \in ToSet(r) => x \in ToSet(s)
    BY <1>7, <2>1, <2>2
  <2>4. ASSUME NEW x \in ToSet(s) PROVE x \in ToSet(r)
    <3>1. PICK k \in 1..n : x = s[k]
      BY <2>2
    <3>2. PICK i \in 1..n : place(i) = k
      BY <1>9
    <3>3. x = r[i]
      BY <1>7, <3>1, <3>2
    <3>4. QED
      BY <2>1, <3>3
  <2>5. QED
    BY <2>3, <2>4
<1>11. IsInjective(s) => IsInjective(r)
  BY <1>1, <1>6, <1>7, <1>8 DEF IsInjective
<1>12. QED
  BY <1>1, <1>6, <1>10, <1>11 DEF n, r

LEMMA FamiliesListed ==
  ASSUME NEW pack, pack \in Seq(ToSet(pack)), NEW tag
  PROVE  /\ SentinelFamilies(pack, tag) \in Seq(DOMAIN pack) /\ IsInjective(SentinelFamilies(pack, tag))
         /\ ToSet(SentinelFamilies(pack, tag)) = SentinelTagged(pack, tag)
<1>1. /\ Places(pack) \in Seq(DOMAIN pack) /\ IsInjective(Places(pack))
      /\ ToSet(Places(pack)) = DOMAIN pack
  <2>1. Len(pack) \in Nat /\ DOMAIN pack = 1..Len(pack)
    BY LenProperties
  <2>2. Places(pack) \in [1..Len(pack) -> DOMAIN pack]
    BY <2>1 DEF Places
  <2>3. IsInjective(Places(pack)) /\ ToSet(Places(pack)) = DOMAIN pack
    BY DEF IsInjective, Places, ToSet
  <2>4. QED
    BY <2>1, <2>2, <2>3
<1>2. SentinelTagged(pack, tag) \subseteq DOMAIN pack
  BY DEF SentinelTagged
<1> DEFINE all == Places(pack)
           T == SentinelTagged(pack, tag)
<1> HIDE DEF all, T
<1>3. Only(all, T) = SentinelFamilies(pack, tag)
  BY DEF SentinelFamilies, all, T
<1>4. all \in Seq(DOMAIN pack) /\ IsInjective(all) /\ DOMAIN pack \cap T = T /\ ToSet(all) = DOMAIN pack
  BY <1>1, <1>2 DEF all, T
<1>5. /\ Only(all, T) \in Seq(DOMAIN pack) /\ IsInjective(Only(all, T))
      /\ ToSet(Only(all, T)) = ToSet(all) \cap T
  BY <1>4, OnlyHolds
<1>6. QED
  BY <1>3, <1>4, <1>5 DEF T

\* The first picks are a safety family and a control family, another one where
\* there is one; and there are as many picks as are needed.
LEMMA PicksHold ==
  ASSUME NEW pack, pack \in Seq(ToSet(pack)), NEW week \in Nat,
         SentinelFamilies(pack, "safety") # <<>>, SentinelFamilies(pack, "control") # <<>>
  PROVE  /\ Len(SentinelPicks(pack, week)) = Larger(2, SentinelCount)
         /\ DOMAIN SentinelPicks(pack, week) = 1..Larger(2, SentinelCount)
         /\ SentinelPicks(pack, week)[1] \in SentinelTagged(pack, "safety")
         /\ SentinelPicks(pack, week)[2] \in SentinelTagged(pack, "control")
         /\ SentinelTagged(pack, "control") # {SentinelPicks(pack, week)[1]} =>
              SentinelPicks(pack, week)[2] # SentinelPicks(pack, week)[1]
<1> DEFINE all == SentinelFamilies(pack, "sentinel")
           need == Larger(2, SentinelCount)
           safeties == Rotate(SentinelFamilies(pack, "safety"), week)
           controls == Rotate(SentinelFamilies(pack, "control"), week)
           safety == safeties[1]
           control == ControlPick(safety, controls)
           hard == Only(Rotate(SentinelFamilies(pack, "hard"), week), DOMAIN pack \ {safety, control})
           more == First(hard, need - 2)
           some == <<safety, control>> \o more
           rest == [i \in 1..(need - Len(some)) |-> Rotate(all, week + Len(some) + i - 1)[1]]
           S == DOMAIN pack
           Members == {safety, control} \cup S \cup {rest[i] : i \in DOMAIN rest}
<1>1. need \in Nat /\ need >= 2
  BY PlanConstants DEF Larger
<1>2. /\ safeties \in Seq(S) /\ Len(safeties) \in Nat \ {0}
      /\ ToSet(safeties) = SentinelTagged(pack, "safety")
  BY FamiliesListed, RotateHolds
<1>3. /\ controls \in Seq(S) /\ Len(controls) \in Nat \ {0} /\ IsInjective(controls)
      /\ ToSet(controls) = SentinelTagged(pack, "control")
  BY FamiliesListed, RotateHolds
<1>4. Rotate(SentinelFamilies(pack, "hard"), week) \in Seq(S)
  <2>1. SentinelFamilies(pack, "hard") \in Seq(S)
    BY FamiliesListed
  <2>2. CASE SentinelFamilies(pack, "hard") # <<>>
    BY <2>1, <2>2, RotateHolds
  <2>3. CASE SentinelFamilies(pack, "hard") = <<>>
    <3>1. Rotate(<<>>, week) \in [{} -> S]
      BY DEF Rotate
    <3>2. [1..0 -> S] \subseteq Seq(S) /\ 1..0 = {}
      OBVIOUS
    <3>3. QED
      BY <2>3, <3>1, <3>2
  <2>4. QED
    BY <2>2, <2>3
<1>5. safety \in ToSet(safeties)
  BY <1>2 DEF ToSet
<1>6. /\ control \in ToSet(controls)
      /\ ToSet(controls) # {safety} => control # safety
  <2>1. DOMAIN controls = 1..Len(controls)
    BY <1>3
  <2>2. \A i \in 1..Len(controls) : controls[i] \in ToSet(controls)
    BY <2>1 DEF ToSet
  <2>3. CASE controls[1] = safety /\ Len(controls) > 1
    <3>1. control = controls[2] /\ 2 \in 1..Len(controls) /\ 1 \in 1..Len(controls)
      BY <1>3, <2>3 DEF ControlPick
    <3>2. controls[2] # controls[1]
      BY <1>3, <2>1, <3>1 DEF IsInjective
    <3>3. QED
      BY <2>2, <2>3, <3>1, <3>2
  <2>4. CASE ~ (controls[1] = safety /\ Len(controls) > 1)
    <3>1. control = controls[1] /\ 1 \in 1..Len(controls)
      BY <1>3, <2>4 DEF ControlPick
    <3>2. controls[1] = safety => ToSet(controls) = {safety}
      <4>1. SUFFICES ASSUME controls[1] = safety PROVE ToSet(controls) = {safety}
        OBVIOUS
      <4>2. ~ (Len(controls) > 1)
        BY <2>4, <4>1, Zenon
      <4> DEFINE n == Len(controls)
      <4> HIDE DEF n
      <4>3. n \in Nat \ {0} /\ ~ (n > 1)
        BY <1>3, <4>2 DEF n
      <4>4. n = 1
        BY <4>3
      <4>5. DOMAIN controls = {1}
        BY <2>1, <4>4 DEF n
      <4>6. QED
        BY <4>1, <4>5 DEF ToSet
    <3>3. QED
      BY <2>2, <3>1, <3>2
  <2>5. QED
    BY <2>3, <2>4
<1> HIDE DEF control, safety, safeties, controls, need, all
<1>7. hard \in Seq(S)
  BY <1>4, OnlyHolds
<1> HIDE DEF hard
<1>8. more \in Seq(S) /\ Len(more) \in 0..(need - 2)
  <2>1. Len(hard) \in Nat /\ \A i \in 1..Len(hard) : hard[i] \in S
    BY <1>7, LenProperties
  <2> DEFINE k == Smaller(need - 2, Len(hard))
  <2>2. k \in 0..(need - 2) /\ k <= Len(hard)
    BY <1>1, <2>1 DEF Smaller
  <2>3. more = SubSeq(hard, 1, k)
    BY DEF First
  <2> HIDE DEF k
  <2>4. QED
    BY <2>1, <2>2, <2>3
<1> HIDE DEF more
<1>9. some \in Seq(Members) /\ Len(some) \in 2..need /\ some[1] = safety /\ some[2] = control
  <2>1. <<safety, control>> \in Seq(Members) /\ Len(<<safety, control>>) = 2 /\ more \in Seq(Members)
    <3>1. S \subseteq Members /\ safety \in Members /\ control \in Members
      OBVIOUS
    <3> HIDE DEF Members
    <3>2. QED
      BY <1>8, <3>1, SeqMonotonic
  <2>2. /\ some \in Seq(Members) /\ Len(some) = 2 + Len(more)
        /\ some[1] = <<safety, control>>[1] /\ some[2] = <<safety, control>>[2]
    <3> HIDE DEF Members
    <3>1. QED
      BY <1>8, <2>1, ConcatProperties
  <2>3. QED
    BY <1>1, <1>8, <2>2
<1>10. rest \in Seq(Members) /\ Len(rest) = need - Len(some)
  <2>1. need - Len(some) \in Nat
    BY <1>1, <1>9
  <2>2. rest \in [1..(need - Len(some)) -> Members]
    OBVIOUS
  <2> HIDE DEF rest, some, Members
  <2>3. QED
    BY <2>1, <2>2
<1>11. SentinelPicks(pack, week) = some \o rest
  BY DEF SentinelPicks, some, rest, need, safety, control, safeties, controls, hard, more, all
<1> HIDE DEF some, rest, Members
<1>12. /\ Len(some \o rest) = need /\ DOMAIN (some \o rest) = 1..need
       /\ (some \o rest)[1] = safety /\ (some \o rest)[2] = control
  <2>1. /\ some \o rest \in Seq(Members) /\ Len(some \o rest) = Len(some) + Len(rest)
        /\ (some \o rest)[1] = some[1] /\ (some \o rest)[2] = some[2]
    <3> DEFINE picks == some \o rest
    <3>1. /\ picks \in Seq(Members) /\ Len(picks) = Len(some) + Len(rest)
          /\ \A i \in 1..(Len(some) + Len(rest)) : picks[i] = IF i <= Len(some) THEN some[i] ELSE rest[i - Len(some)]
      BY <1>9, <1>10, ConcatProperties
    <3> HIDE DEF picks
    <3>2. Len(some) \in Nat /\ Len(rest) \in Nat /\ 2 <= Len(some)
      BY <1>1, <1>9, <1>10
    <3>3. picks[1] = some[1] /\ picks[2] = some[2]
      BY <3>1, <3>2
    <3>4. QED
      BY <3>1, <3>3 DEF picks
  <2>2. QED
    BY <1>1, <1>9, <1>10, <2>1
<1>13. QED
  BY <1>2, <1>3, <1>5, <1>6, <1>11, <1>12 DEF need

\* What SentinelIsComplete says of the cases of a run.
ScopeRight(scope) ==
  LET families(tag) == SentinelTagged(plan.pack, tag)
  IN /\ Len(scope) = Larger(2, SentinelCount) /\ DOMAIN scope = 1..Larger(2, SentinelCount)
     /\ scope[1].family \in families("safety") /\ scope[2].family \in families("control")
     /\ families("control") # {scope[1].family} => scope[2].family # scope[1].family

LEMMA ScopeHolds ==
  ASSUME plan \in Plans, NEW week \in Nat, SelectSentinelCases(plan.pack, week) # <<>>
  PROVE  ScopeRight(SelectSentinelCases(plan.pack, week))
<1> DEFINE pack == plan.pack
           picks == SentinelPicks(pack, week)
           need == Larger(2, SentinelCount)
           case(i) == Rotate(Places(pack[picks[i]].bundles), week + i - 1)[1]
           scope == [i \in DOMAIN picks |-> [family |-> picks[i], case |-> case(i)]]
<1>1. pack \in Seq(ToSet(pack)) /\ need \in Nat /\ need >= 2
  BY PlanConstants DEF Larger
<1>2. /\ SentinelFamilies(pack, "safety") # <<>> /\ SentinelFamilies(pack, "control") # <<>>
      /\ SelectSentinelCases(pack, week) = scope
  BY DEF SelectSentinelCases
<1>3. /\ DOMAIN picks = 1..need
      /\ picks[1] \in SentinelTagged(pack, "safety") /\ picks[2] \in SentinelTagged(pack, "control")
      /\ SentinelTagged(pack, "control") # {picks[1]} => picks[2] # picks[1]
  BY <1>1, <1>2, PicksHold
<1> HIDE DEF picks, need, case
<1>4. scope \in [1..need -> {[family |-> picks[i], case |-> case(i)] : i \in 1..need}]
  BY <1>3
<1>5. Len(scope) = need /\ DOMAIN scope = 1..need
  BY <1>1, <1>4
<1>6. scope[1].family = picks[1] /\ scope[2].family = picks[2]
  BY <1>1, <1>3
<1>7. QED
  BY <1>2, <1>3, <1>5, <1>6 DEF ScopeRight, need

SentinelJob == [seat : STRING, pick : Nat]

\* Every seat has a job for every case: one to be done, or its row is there.
Covered(todo, scope, rows, r) ==
  \A s \in DOMAIN Seats, i \in DOMAIN scope :
    \/ [seat |-> Seats[s], pick |-> i] \in ToSet(todo)
    \/ [seat |-> Seats[s], pick |-> i, run |-> r] \in rows

LEMMA JobsHold ==
  ASSUME plan \in Plans, NEW week \in Nat,
         SentinelJobs(SelectSentinelCases(plan.pack, week)) # <<>>
  PROVE  LET scope == SelectSentinelCases(plan.pack, week)
         IN /\ SentinelJobs(scope) \in Seq(SentinelJob) /\ scope # <<>>
            /\ Covered(SentinelJobs(scope), scope, {}, 0)
<1> DEFINE scope == SelectSentinelCases(plan.pack, week)
           need == Larger(2, SentinelCount)
           jobs(s) == [i \in DOMAIN scope |-> [seat |-> Seats[s], pick |-> i]]
           all == [s \in DOMAIN Seats |-> jobs(s)]
<1>1. need \in Nat /\ Seats \in Seq(STRING)
  BY PlanConstants DEF Larger
<1>2. Len(Seats) \in Nat /\ DOMAIN Seats = 1..Len(Seats) /\ \A s \in DOMAIN Seats : Seats[s] \in STRING
  BY <1>1, LenProperties
<1>3. PICK n \in Nat : DOMAIN scope = 1..n
  <2>1. CASE scope = <<>>
    BY <2>1
  <2>2. CASE scope # <<>>
    BY <1>1, <2>2, ScopeHolds DEF ScopeRight
  <2>3. QED
    BY <2>1, <2>2
<1> HIDE DEF scope
<1>4. \A s \in DOMAIN Seats : jobs(s) \in Seq(SentinelJob) /\ DOMAIN jobs(s) = 1..n
  <2>1. \A s \in DOMAIN Seats : jobs(s) \in [1..n -> SentinelJob]
    BY <1>2, <1>3 DEF SentinelJob
  <2> HIDE DEF jobs
  <2>2. QED
    BY <1>3, <2>1
<1>5. \A s \in DOMAIN Seats, i \in DOMAIN scope : [seat |-> Seats[s], pick |-> i] \in ToSet(jobs(s))
  BY DEF ToSet
<1>6. n = 0 => \A s \in DOMAIN Seats : ToSet(jobs(s)) = {}
  BY <1>3 DEF ToSet
<1>7. SentinelJobs(scope) = FlattenSeq(all)
  BY DEF SentinelJobs
<1> HIDE DEF jobs
<1>8. all \in Seq(Seq(SentinelJob)) /\ DOMAIN all = DOMAIN Seats /\ \A s \in DOMAIN Seats : all[s] = jobs(s)
  <2>1. all \in [1..Len(Seats) -> Seq(SentinelJob)]
    BY <1>2, <1>4
  <2>2. QED
    BY <1>2, <2>1
<1> HIDE DEF all
<1>9. /\ SentinelJobs(scope) \in Seq(SentinelJob)
      /\ \A x : x \in ToSet(SentinelJobs(scope)) <=> \E s \in DOMAIN Seats : x \in ToSet(jobs(s))
  BY <1>7, <1>8, FlattenHolds
<1>10. Covered(SentinelJobs(scope), scope, {}, 0)
  BY <1>5, <1>9 DEF Covered
<1>11. scope # <<>>
  <2>1. SUFFICES ASSUME scope = <<>> PROVE FALSE
    OBVIOUS
  <2>2. n = 0
    BY <1>3, <2>1
  <2>3. SentinelJobs(scope) # <<>>
    BY DEF scope
  <2>4. SentinelJobs(scope)[1] \in ToSet(SentinelJobs(scope))
    BY <1>9, <2>3 DEF ToSet
  <2>5. QED
    BY <1>6, <1>9, <2>2, <2>4
<1>12. QED
  BY <1>9, <1>10, <1>11 DEF scope

(***************************************************************************)
(* The third invariant.                                                    *)
(***************************************************************************)

\* A sentinel run has its row, and jobs to do.
Preparing == {"running", "pair", "drift", "baselines", "pool", "resolve", "comparing", "compared"}

\* It has none yet, or does no more.
Loose == {"enter", "blocked", "failing", "returned", "settle", "report", "exited"}

SentinelRun(r) ==
  /\ {"kind", "scope", "status"} \subseteq DOMAIN runs[r]
  /\ runs[r].kind = "sentinel" => ScopeRight(runs[r].scope)
  /\ runs[r].kind = "sentinel" /\ runs[r].status = "complete" => Covered(<<>>, runs[r].scope, sentinelRows, r)

\* Only Sentinel works on a sentinel run, and only once.
OtherRuns(c) ==
  /\ job[c].run # 0 /\ ~In(c, "sentinel") => runs[job[c].run].kind # "sentinel"
  /\ job[c].week # 0 => runs[job[c].week].kind # "sentinel"

JobsLeft(c) ==
  In(c, "sentinel") =>
    /\ cmd[c].at \in Loose \cup Preparing \cup {"create", "finishing"}
    /\ cmd[c].at = "enter" => job[c].run = 0
    /\ cmd[c].at \in Preparing \cup {"create"} => job[c].todo \in Seq(SentinelJob) /\ job[c].todo # <<>>
    /\ cmd[c].at = "create" =>
         LET scope == SelectSentinelCases(plan.pack, Flag(c).week)
         IN scope # <<>> /\ Covered(job[c].todo, scope, {}, 0)
    /\ cmd[c].at \in Preparing => Covered(job[c].todo, runs[job[c].run].scope, sentinelRows, job[c].run)
    /\ cmd[c].at = "finishing" => Covered(<<>>, runs[job[c].run].scope, sentinelRows, job[c].run)

SInv ==
  /\ plan \in Plans
  /\ \A r \in DOMAIN runs : SentinelRun(r)
  /\ \A x \in DOMAIN candidates : runs[x[1]].kind # "sentinel"
  /\ \A c \in Commands : OtherRuns(c) /\ JobsLeft(c)

LEMMA CoveredStays ==
  ASSUME NEW todo, NEW scope, NEW rows, NEW more, NEW r, rows \subseteq more, Covered(todo, scope, rows, r)
  PROVE  Covered(todo, scope, more, r)
  BY DEF Covered

\* Rows of runs keep what they are about, and results stay.
RowsStand ==
  /\ plan' = plan /\ sentinelRows \subseteq sentinelRows'
  /\ DOMAIN runs \subseteq DOMAIN runs'
  /\ \A r \in DOMAIN runs :
       /\ {"kind", "scope", "status"} \subseteq DOMAIN runs'[r]
       /\ runs'[r].kind = runs[r].kind /\ runs'[r].scope = runs[r].scope

\* What a step of c has to show.
Tracks(c) ==
  /\ Others(c) /\ RowsStand
  /\ \A r \in DOMAIN runs' : SentinelRun(r)'
  /\ \A x \in DOMAIN candidates' : runs'[x[1]].kind # "sentinel"
  /\ OtherRuns(c)' /\ JobsLeft(c)'

LEMMA RunsOfJobs ==
  ASSUME RInv, NEW c \in Commands
  PROVE  /\ job[c].run # 0 => job[c].run \in DOMAIN runs
         /\ job[c].week # 0 => job[c].week \in DOMAIN runs
         /\ cmd[c].at \in Preparing \cup {"finishing"} => job[c].run \in DOMAIN runs
         /\ JobFields \subseteq DOMAIN job[c] /\ CmdFields \subseteq DOMAIN cmd[c]
<1>1. DOMAIN runs = 1..Len(runs) /\ Len(runs) \in Nat
  BY LengthOfRuns DEF RInv
<1>2. Ranged(c) /\ Tidy(c)
  BY DEF RInv, Mine
<1>3. Preparing \cup {"finishing"} \subseteq Working
  BY DEF Preparing, Working
<1>4. QED
  BY <1>1, <1>2, <1>3 DEF Ranged, Tidy

LEMMA ScopeStays ==
  ASSUME NEW scope, ScopeRight(scope), plan' = plan, NEW same, same = scope
  PROVE  ScopeRight(same)'
  BY DEF ScopeRight

LEMMA TracksKeeps ==
  ASSUME RInv, SInv, NEW c \in Commands, Tracks(c)
  PROVE  SInv'
<1>1. ASSUME NEW d \in Commands, d # c PROVE OtherRuns(d)' /\ JobsLeft(d)'
  <2>1. cmd'[d] = cmd[d] /\ job'[d] = job[d] /\ RowsStand
    BY <1>1 DEF Tracks, Others
  <2>2. OtherRuns(d) /\ JobsLeft(d)
    BY DEF SInv
  <2>3. /\ job[d].run # 0 => job[d].run \in DOMAIN runs
        /\ job[d].week # 0 => job[d].week \in DOMAIN runs
        /\ cmd[d].at \in Preparing \cup {"finishing"} => job[d].run \in DOMAIN runs
    BY RunsOfJobs
  <2>4. OtherRuns(d)'
    BY <2>1, <2>2, <2>3 DEF OtherRuns, In, RowsStand
  <2>5. SUFFICES ASSUME In(d, "sentinel") PROVE JobsLeft(d)'
    BY <2>1, <2>4 DEF JobsLeft, In
  <2>6. cmd[d].at \in Preparing =>
          Covered(job[d].todo, runs'[job[d].run].scope, sentinelRows', job[d].run)
    BY <2>1, <2>2, <2>3, <2>5, CoveredStays DEF JobsLeft, RowsStand
  <2>7. cmd[d].at = "finishing" => Covered(<<>>, runs'[job[d].run].scope, sentinelRows', job[d].run)
    BY <2>1, <2>2, <2>3, <2>5, CoveredStays DEF JobsLeft, RowsStand
  <2>8. /\ cmd[d].at \in Loose \cup Preparing \cup {"create", "finishing"}
        /\ cmd[d].at = "enter" => job[d].run = 0
        /\ cmd[d].at \in Preparing \cup {"create"} => job[d].todo \in Seq(SentinelJob) /\ job[d].todo # <<>>
        /\ cmd[d].at = "create" =>
             LET scope == SelectSentinelCases(plan.pack, Flag(d).week)
             IN scope # <<>> /\ Covered(job[d].todo, scope, {}, 0)
    BY <2>2, <2>5 DEF JobsLeft
  <2>9. Flag(d)' = Flag(d) /\ plan' = plan
    BY <2>1 DEF Flag, RowsStand
  <2>10. QED
    BY <2>1, <2>6, <2>7, <2>8, <2>9 DEF JobsLeft
<1>2. plan' \in Plans
  BY DEF SInv, Tracks, RowsStand
<1>3. QED
  BY <1>1, <1>2 DEF SInv, Tracks

\* The rows of runs and candidates, where a step writes none.
LEMMA Untouched ==
  ASSUME RInv, SInv, UNCHANGED <<runs, candidates, sentinelRows, plan>>
  PROVE  /\ RowsStand /\ \A r \in DOMAIN runs' : SentinelRun(r)'
         /\ \A x \in DOMAIN candidates' : runs'[x[1]].kind # "sentinel"
<1>1. \A r \in DOMAIN runs : SentinelRun(r)
  BY DEF SInv
<1>2. RowsStand
  BY <1>1 DEF SentinelRun, RowsStand
<1>3. \A r \in DOMAIN runs' : SentinelRun(r)'
  BY <1>1, ScopeStays DEF SentinelRun
<1>4. QED
  BY <1>2, <1>3 DEF SInv

\* A function goes from step to step with its run and week.
LEMMA KeepsOn ==
  ASSUME RInv, SInv, NEW c \in Commands, NEW step, NEW locals, Moves(c, step, locals), RowsStand,
         locals.run = job[c].run, locals.week = job[c].week,
         locals.phase = "sentinel" <=> In(c, "sentinel"),
         In(c, "sentinel") =>
           \/ step \in Loose \ {"enter"}
           \/ cmd[c].at \in Preparing /\ step \in Preparing /\ locals.todo = job[c].todo
  PROVE  Others(c) /\ OtherRuns(c)' /\ JobsLeft(c)'
<1>1. Others(c) /\ job'[c] = locals /\ cmd'[c].at = step
  BY MovesOn
<1>2. OtherRuns(c) /\ JobsLeft(c)
  BY DEF SInv
<1>3. OtherRuns(c)'
  BY <1>1, <1>2, RunsOfJobs DEF OtherRuns, In, RowsStand
<1>4. JobsLeft(c)'
  <2>1. SUFFICES ASSUME In(c, "sentinel") PROVE JobsLeft(c)'
    BY <1>1 DEF JobsLeft, In
  <2>2. CASE step \in Loose \ {"enter"}
    BY <1>1, <2>2 DEF JobsLeft, Loose, Preparing
  <2>3. CASE cmd[c].at \in Preparing /\ step \in Preparing /\ locals.todo = job[c].todo
    <3>1. Covered(job[c].todo, runs'[job[c].run].scope, sentinelRows', job[c].run)
      BY <1>2, <2>1, <2>3, RunsOfJobs, CoveredStays DEF JobsLeft, RowsStand
    <3>2. job[c].todo \in Seq(SentinelJob) /\ job[c].todo # <<>>
      BY <1>2, <2>1, <2>3 DEF JobsLeft
    <3>3. step \notin {"enter", "create", "finishing"}
      BY <2>3 DEF Preparing
    <3>4. QED
      BY <1>1, <2>3, <3>1, <3>2, <3>3 DEF JobsLeft
  <2>4. QED
    BY <2>1, <2>2, <2>3
<1>5. QED
  BY <1>1, <1>3, <1>4

LEMMA ExitsOn ==
  ASSUME RInv, SInv, NEW c \in Commands, NEW code, Exits(c, code), job' = job, RowsStand
  PROVE  Others(c) /\ OtherRuns(c)' /\ JobsLeft(c)'
<1>1. Others(c) /\ cmd'[c].at = "exited"
  <2>1. DOMAIN cmd = Commands /\ CmdFields \subseteq DOMAIN cmd[c]
    BY RunsOfJobs DEF RInv
  <2>2. QED
    BY <2>1 DEF Others, Exits, CmdFields
<1>2. OtherRuns(c)
  BY DEF SInv
<1>3. OtherRuns(c)'
  BY <1>2, RunsOfJobs DEF OtherRuns, In, RowsStand
<1>4. JobsLeft(c)'
  BY <1>1 DEF JobsLeft, Loose, Preparing
<1>5. QED
  BY <1>1, <1>3, <1>4

\* Both of these for a step that writes no row of a run or a candidate.
LEMMA MovesQuietly ==
  ASSUME RInv, SInv, NEW c \in Commands, NEW step, NEW locals, Moves(c, step, locals),
         UNCHANGED <<runs, candidates, sentinelRows, plan>>,
         locals.run = job[c].run, locals.week = job[c].week,
         locals.phase = "sentinel" <=> In(c, "sentinel"),
         In(c, "sentinel") =>
           \/ step \in Loose \ {"enter"}
           \/ cmd[c].at \in Preparing /\ step \in Preparing /\ locals.todo = job[c].todo
  PROVE  Tracks(c)
  BY Untouched, KeepsOn DEF Tracks

LEMMA ExitsQuietly ==
  ASSUME RInv, SInv, NEW c \in Commands, NEW code, Exits(c, code),
         UNCHANGED <<job, runs, candidates, sentinelRows, plan>>
  PROVE  Tracks(c)
  BY Untouched, ExitsOn DEF Tracks

LEMMA ErrsQuietly ==
  ASSUME RInv, SInv, NEW c \in Commands, NEW err, Fails(c, err) \/ Returned(c, err),
         UNCHANGED <<runs, candidates, sentinelRows, plan>>
  PROVE  Tracks(c)
<1> DEFINE locals == [job[c] EXCEPT !.err = err]
<1>1. locals.run = job[c].run /\ locals.week = job[c].week /\ locals.phase = job[c].phase
  BY RunsOfJobs DEF JobFields, Fields
<1>2. PICK step \in {"failing", "returned"} : Moves(c, step, locals)
  BY DEF Fails, Returned
<1> HIDE DEF locals
<1>3. QED
  BY <1>1, <1>2, MovesQuietly DEF In, Loose

\* Where Sentinel never is.
LEMMA NotSentinel ==
  ASSUME SInv, NEW c \in Commands, cmd[c].at \notin Loose \cup Preparing \cup {"create", "finishing"}
  PROVE  ~In(c, "sentinel")
  BY DEF SInv, JobsLeft

\* A step of another function that writes no row of a run or a candidate.
LEMMA OtherMoves ==
  ASSUME RInv, SInv, NEW c \in Commands, NEW step, NEW locals, Moves(c, step, locals),
         UNCHANGED <<runs, candidates, sentinelRows, plan>>,
         locals.run = job[c].run, locals.week = job[c].week, locals.phase = job[c].phase,
         ~In(c, "sentinel")
  PROVE  Tracks(c)
  BY MovesQuietly DEF In

LEMMA PairTracks ==
  ASSUME RInv, SInv, NEW c \in Commands, Pair(c), UNCHANGED plan PROVE Tracks(c)
<1> DEFINE locals == [job[c] EXCEPT !.graders = SelectionPair]
           step == CASE In(c, "sentinel") -> "drift" [] In(c, "compare") -> "pool" [] OTHER -> "cases"
<1>1. cmd[c].at = "pair" /\ UNCHANGED <<runs, candidates, sentinelRows>>
  BY DEF Pair, At, db
<1>2. /\ locals.run = job[c].run /\ locals.week = job[c].week /\ locals.phase = job[c].phase
      /\ locals.todo = job[c].todo
  BY RunsOfJobs DEF JobFields, Fields
<1>3. In(c, "sentinel") => step = "drift"
  BY DEF In
<1> HIDE DEF locals, step
<1>4. CASE Moves(c, step, locals)
  BY <1>1, <1>2, <1>3, <1>4, MovesQuietly DEF In, Preparing
<1>5. CASE Fails(c, "error")
  BY <1>1, <1>5, ErrsQuietly
<1>6. QED
  BY <1>4, <1>5 DEF Pair, locals, step

LEMMA CheckDriftTracks ==
  ASSUME RInv, SInv, NEW c \in Commands, CheckDrift(c), UNCHANGED plan PROVE Tracks(c)
<1> DEFINE locals == [job[c] EXCEPT !.drifted = TRUE]
           step == IF In(c, "sentinel") THEN "baselines" ELSE "pair"
<1>1. cmd[c].at = "drift" /\ UNCHANGED <<runs, candidates, sentinelRows>>
  BY DEF CheckDrift, At, db
<1>2. locals.run = job[c].run /\ locals.week = job[c].week /\ locals.phase = job[c].phase
  BY RunsOfJobs DEF JobFields, Fields
<1>3. In(c, "sentinel") => step = "baselines"
  OBVIOUS
<1> HIDE DEF locals, step
<1>4. CASE Moves(c, step, job[c])
  BY <1>1, <1>3, <1>4, MovesQuietly DEF In, Preparing
<1>5. CASE Moves(c, "blocked", locals)
  BY <1>1, <1>2, <1>5, MovesQuietly DEF In, Loose
<1>6. CASE Fails(c, "error")
  BY <1>1, <1>6, ErrsQuietly
<1>7. QED
  BY <1>4, <1>5, <1>6 DEF CheckDrift, locals, step

LEMMA BaselinesTrack ==
  ASSUME RInv, SInv, NEW c \in Commands, Baselines(c), UNCHANGED plan PROVE Tracks(c)
<1>1. cmd[c].at = "baselines" /\ UNCHANGED <<runs, candidates, sentinelRows>>
  BY DEF Baselines, At, db
<1>2. CASE Moves(c, "pool", job[c])
  BY <1>1, <1>2, MovesQuietly DEF In, Preparing
<1>3. QED
  BY <1>1, <1>2, ErrsQuietly DEF Baselines

LEMMA GenerateTracks ==
  ASSUME RInv, SInv, NEW c \in Commands, Generate(c) \/ GenerateCouncils(c), UNCHANGED plan PROVE Tracks(c)
<1>1. cmd[c].at = "pool" /\ UNCHANGED <<runs, candidates, sentinelRows>>
  BY DEF Generate, GenerateCouncils, At, db
<1>2. CASE \E step : Moves(c, step, job[c]) /\ (In(c, "sentinel") => step = "resolve")
  BY <1>1, <1>2, MovesQuietly DEF In, Preparing
<1>3. CASE Fails(c, "error")
  BY <1>1, <1>3, ErrsQuietly
<1>4. In(c, "sentinel") => ~In(c, "screen") /\ ~In(c, "compare") /\ ~In(c, "downstream")
  BY DEF In
<1>5. QED
  BY <1>2, <1>3, <1>4 DEF Generate, GenerateCouncils

LEMMA ResolveTracks ==
  ASSUME RInv, SInv, NEW c \in Commands, Resolve(c), UNCHANGED plan PROVE Tracks(c)
<1>1. cmd[c].at = "resolve" /\ UNCHANGED <<runs, candidates, sentinelRows>>
  BY DEF Resolve, At, db
<1>2. CASE \E using : Moves(c, "comparing", [job[c] EXCEPT !.using = using])
  <2>1. PICK using : Moves(c, "comparing", [job[c] EXCEPT !.using = using])
    BY <1>2
  <2> DEFINE locals == [job[c] EXCEPT !.using = using]
  <2>2. /\ locals.run = job[c].run /\ locals.week = job[c].week /\ locals.phase = job[c].phase
        /\ locals.todo = job[c].todo
    BY RunsOfJobs DEF JobFields, Fields
  <2>3. Moves(c, "comparing", locals)
    BY <2>1
  <2> HIDE DEF locals
  <2>4. QED
    BY <1>1, <2>2, <2>3, MovesQuietly DEF In, Preparing
<1>3. CASE Fails(c, "error")
  BY <1>1, <1>3, ErrsQuietly
<1>4. QED
  BY <1>2, <1>3 DEF Resolve

LEMMA CompareCaseTracks ==
  ASSUME RInv, SInv, NEW c \in Commands, CompareCase(c), UNCHANGED plan PROVE Tracks(c)
<1>1. cmd[c].at = "comparing" /\ UNCHANGED <<runs, candidates, sentinelRows>>
  BY DEF CompareCase, At, db
<1>2. ASSUME NEW v, NEW step, Moves(c, step, [job[c] EXCEPT !.verdict = v, !.using = <<>>]),
             In(c, "sentinel") => step = "compared"
      PROVE  Tracks(c)
  <2> DEFINE locals == [job[c] EXCEPT !.verdict = v, !.using = <<>>]
  <2>1. /\ locals.run = job[c].run /\ locals.week = job[c].week /\ locals.phase = job[c].phase
        /\ locals.todo = job[c].todo
    BY RunsOfJobs DEF JobFields, Fields
  <2>2. Moves(c, step, locals)
    BY <1>2
  <2> HIDE DEF locals
  <2>3. QED
    BY <1>1, <1>2, <2>1, <2>2, MovesQuietly DEF In, Preparing
<1>3. In(c, "sentinel") => ~In(c, "downstream")
  BY DEF In
<1>4. CASE Fails(c, "error")
  BY <1>1, <1>4, ErrsQuietly
<1>5. QED
  BY <1>2, <1>3, <1>4 DEF CompareCase

\* Steps of the other functions.
LEMMA CasesTrack ==
  ASSUME RInv, SInv, NEW c \in Commands, Cases(c) \/ Cover(c) \/ CheckPack(c), UNCHANGED plan PROVE Tracks(c)
<1>1. /\ cmd[c].at \in {"cases", "screenOne", "cover", "check"}
      /\ UNCHANGED <<runs, candidates, sentinelRows>>
  BY DEF Cases, Cover, CheckPack, At, db
<1>2. ~In(c, "sentinel")
  BY <1>1, NotSentinel DEF Loose, Preparing
<1>3. CASE \E step : Moves(c, step, job[c])
  BY <1>1, <1>2, <1>3, OtherMoves
<1>4. CASE \E cases : Moves(c, "pool", [job[c] EXCEPT !.todo = cases])
  <2>1. PICK cases : Moves(c, "pool", [job[c] EXCEPT !.todo = cases])
    BY <1>4
  <2> DEFINE locals == [job[c] EXCEPT !.todo = cases]
  <2>2. locals.run = job[c].run /\ locals.week = job[c].week /\ locals.phase = job[c].phase
    BY RunsOfJobs DEF JobFields, Fields
  <2>3. Moves(c, "pool", locals)
    BY <2>1
  <2> HIDE DEF locals
  <2>4. QED
    BY <1>1, <1>2, <2>2, <2>3, OtherMoves
<1>5. CASE Fails(c, "error")
  BY <1>1, <1>5, ErrsQuietly
<1>6. CASE Exits(c, "error") /\ UNCHANGED job
  BY <1>1, <1>6, ExitsQuietly
<1>7. QED
  BY <1>3, <1>4, <1>5, <1>6 DEF Cases, Cover, CheckPack

LEMMA GradeAllTracks ==
  ASSUME RInv, SInv, NEW c \in Commands, GradeAll(c), UNCHANGED plan PROVE Tracks(c)
<1>1. cmd[c].at = "grading" /\ UNCHANGED <<runs, candidates, sentinelRows>>
  BY DEF GradeAll, At, db
<1>2. ~In(c, "sentinel")
  BY <1>1, NotSentinel DEF Loose, Preparing
<1>3. CASE Moves(c, "resolve", job[c])
  BY <1>1, <1>2, <1>3, OtherMoves
<1>4. ASSUME NEW screened, Moves(c, "upsert", [job[c] EXCEPT !.result.screen = screened]) PROVE Tracks(c)
  <2> DEFINE locals == [job[c] EXCEPT !.result.screen = screened]
  <2>1. locals.run = job[c].run /\ locals.week = job[c].week /\ locals.phase = job[c].phase
    BY RunsOfJobs DEF JobFields, Fields
  <2>2. Moves(c, "upsert", locals)
    BY <1>4
  <2> HIDE DEF locals
  <2>3. QED
    BY <1>1, <1>2, <2>1, <2>2, OtherMoves
<1>5. CASE Fails(c, "error")
  BY <1>1, <1>5, ErrsQuietly
<1>6. QED
  BY <1>3, <1>4, <1>5 DEF GradeAll

LEMMA TallyTracks ==
  ASSUME RInv, SInv, NEW c \in Commands, Tally(c), UNCHANGED plan PROVE Tracks(c)
<1> DEFINE result == IF job[c].again THEN job[c].result ELSE Tallied(job[c].result, FamilyAt(c), job[c].verdict)
           tallied == [job[c] EXCEPT !.todo = Tail(@), !.verdict = "none", !.result =
                         IF job[c].again THEN @ ELSE Tallied(@, FamilyAt(c), job[c].verdict)]
           repeated == [tallied EXCEPT !.again = TRUE, !.todo = FragilityCases(c)]
           ended == [tallied EXCEPT !.again = FALSE]
           Same(locals) == locals.run = job[c].run /\ locals.week = job[c].week /\ locals.phase = job[c].phase
<1>1. UNCHANGED <<runs, candidates, sentinelRows>> /\ ~In(c, "sentinel")
  BY DEF Tally, db, In
<1>2. Same(tallied) /\ Same(repeated) /\ Same(ended)
  BY RunsOfJobs DEF JobFields, Fields
<1>3. \/ \E step : Moves(c, step, tallied)
      \/ Moves(c, "pool", repeated)
      \/ Moves(c, "summary", ended)
  <2>1. CASE Len(job[c].todo) > 1
    BY <2>1 DEF Tally
  <2>2. CASE ~ (Len(job[c].todo) > 1) /\ Len(job[c].todo) = 1 /\ ~job[c].again
    BY <2>2 DEF Tally
  <2>3. CASE ~ (Len(job[c].todo) > 1) /\ ~ (Len(job[c].todo) = 1 /\ ~job[c].again)
    BY <2>3 DEF Tally
  <2>4. QED
    BY <2>1, <2>2, <2>3
<1> HIDE DEF tallied, repeated, ended
<1>4. QED
  BY <1>1, <1>2, <1>3, OtherMoves

LEMMA SummariseTracks ==
  ASSUME RInv, SInv, NEW c \in Commands, Summarise(c), UNCHANGED plan PROVE Tracks(c)
<1>1. cmd[c].at = "summary" /\ UNCHANGED <<runs, candidates, sentinelRows>>
  BY DEF Summarise, At, db
<1>2. ~In(c, "sentinel")
  BY <1>1, NotSentinel DEF Loose, Preparing
<1>3. ASSUME NEW p, Moves(c, "upsert", [job[c] EXCEPT !.result.profile = p]) PROVE Tracks(c)
  <2> DEFINE locals == [job[c] EXCEPT !.result.profile = p]
  <2>1. locals.run = job[c].run /\ locals.week = job[c].week /\ locals.phase = job[c].phase
    BY RunsOfJobs DEF JobFields, Fields
  <2>2. Moves(c, "upsert", locals)
    BY <1>3
  <2> HIDE DEF locals
  <2>3. QED
    BY <1>1, <1>2, <2>1, <2>2, OtherMoves
<1>4. CASE Fails(c, "error")
  BY <1>1, <1>4, ErrsQuietly
<1>5. QED
  BY <1>3, <1>4 DEF Summarise

LEMMA CloseCaseTracks ==
  ASSUME RInv, SInv, NEW c \in Commands, CloseCase(c), UNCHANGED plan PROVE Tracks(c)
<1> DEFINE closed == [job[c] EXCEPT !.result.net = @ + Worth(job[c].verdict), !.todo = Tail(@), !.again = FALSE,
                                    !.verdict = "none"]
           repeated == [job[c] EXCEPT !.again = TRUE, !.verdict = "none"]
           Same(locals) == locals.run = job[c].run /\ locals.week = job[c].week /\ locals.phase = job[c].phase
<1>1. UNCHANGED <<runs, candidates, sentinelRows>> /\ ~In(c, "sentinel")
  BY DEF CloseCase, db, In
<1>2. Same(closed) /\ Same(repeated)
  BY RunsOfJobs DEF JobFields, Fields
<1>3. \/ \E step : Moves(c, step, closed)
      \/ Moves(c, "pool", repeated)
  <2>1. CASE Repeats(c)
    BY <2>1 DEF CloseCase
  <2>2. CASE ~Repeats(c) /\ Len(job[c].todo) > 1
    BY <2>2 DEF CloseCase
  <2>3. CASE ~Repeats(c) /\ ~ (Len(job[c].todo) > 1)
    BY <2>3 DEF CloseCase
  <2>4. QED
    BY <2>1, <2>2, <2>3
<1> HIDE DEF closed, repeated
<1>4. QED
  BY <1>1, <1>2, <1>3, OtherMoves

LEMMA PromoteTracks ==
  ASSUME RInv, SInv, NEW c \in Commands, Promote(c), UNCHANGED plan PROVE Tracks(c)
<1>1. cmd[c].at = "promote" /\ UNCHANGED <<runs, candidates, sentinelRows>>
  BY DEF Promote, At, db
<1>2. ~In(c, "sentinel")
  BY <1>1, NotSentinel DEF Loose, Preparing
<1>3. ASSUME NEW p, Moves(c, "readRow", [job[c] EXCEPT !.result.promote = p]) PROVE Tracks(c)
  <2> DEFINE locals == [job[c] EXCEPT !.result.promote = p]
  <2>1. locals.run = job[c].run /\ locals.week = job[c].week /\ locals.phase = job[c].phase
    BY RunsOfJobs DEF JobFields, Fields
  <2>2. Moves(c, "readRow", locals)
    BY <1>3
  <2> HIDE DEF locals
  <2>3. QED
    BY <1>1, <1>2, <2>1, <2>2, OtherMoves
<1>4. CASE Returned(c, "error")
  BY <1>1, <1>4, ErrsQuietly
<1>5. QED
  BY <1>3, <1>4 DEF Promote

LEMMA StoreErrs ==
  ASSUME NEW c, StoreFails(c) PROVE Fails(c, "error") \/ Returned(c, "error")
  BY DEF StoreFails

LEMMA ReadRowTracks ==
  ASSUME RInv, SInv, NEW c \in Commands, ReadRow(c), UNCHANGED plan PROVE Tracks(c)
<1> DEFINE locals == [job[c] EXCEPT !.row = candidates[Row(c)]]
<1>1. cmd[c].at = "readRow" /\ UNCHANGED <<runs, candidates, sentinelRows>>
  BY DEF ReadRow, At, db
<1>2. ~In(c, "sentinel")
  BY <1>1, NotSentinel DEF Loose, Preparing
<1>3. locals.run = job[c].run /\ locals.week = job[c].week /\ locals.phase = job[c].phase
  BY RunsOfJobs DEF JobFields, Fields
<1> HIDE DEF locals
<1>4. CASE Moves(c, "writeRow", locals)
  BY <1>1, <1>2, <1>3, <1>4, OtherMoves
<1>5. CASE StoreFails(c)
  BY <1>1, <1>5, ErrsQuietly, StoreErrs
<1>6. QED
  BY <1>4, <1>5 DEF ReadRow, locals

LEMMA CommandReturnsTracks ==
  ASSUME RInv, SInv, NEW c \in Commands, CommandReturns(c), UNCHANGED plan PROVE Tracks(c)
<1> DEFINE locals == [job[c] EXCEPT !.phase = "promotion"]
<1>1. UNCHANGED <<runs, candidates, sentinelRows>>
  BY DEF CommandReturns, db
<1>2. locals.run = job[c].run /\ locals.week = job[c].week /\ locals.phase = "promotion"
  BY RunsOfJobs DEF JobFields, Fields
<1> HIDE DEF locals
<1>3. CASE In(c, "downstream") /\ Moves(c, "promote", locals)
  BY <1>1, <1>2, <1>3, MovesQuietly DEF In
<1>4. CASE \E code : Exits(c, code) /\ UNCHANGED job
  BY <1>1, <1>4, ExitsQuietly
<1>5. QED
  BY <1>3, <1>4 DEF CommandReturns, locals

LEMMA WriteReportTracks ==
  ASSUME RInv, SInv, NEW c \in Commands, WriteReport(c), UNCHANGED plan PROVE Tracks(c)
  BY ExitsQuietly DEF WriteReport

\* graders status and graders calibrate.
LEMMA GradersStepTracks ==
  ASSUME RInv, SInv, NEW c \in Commands, GradersStep(c), UNCHANGED <<db, job, plan>> PROVE Tracks(c)
<1>1. UNCHANGED <<runs, candidates, sentinelRows, plan>>
  BY DEF db
<1>2. cmd[c].at \in {"sync", "calibrate", "withdraw", "grade", "decide", "recordFailure"}
  BY DEF GradersStep, SyncEntry, Synced, StartCalibration, Withdraw, GradeItems, Decide, RecordFailure, At
<1>3. ~In(c, "sentinel")
  BY <1>2, NotSentinel DEF Loose, Preparing
<1>4. Others(c)
  BY GradersStepAdvances DEF Advances, Frame
<1>5. OtherRuns(c)'
  BY <1>1, RunsOfJobs DEF SInv, OtherRuns, In
<1>6. JobsLeft(c)'
  BY <1>3 DEF JobsLeft, In
<1>7. QED
  BY <1>1, <1>4, <1>5, <1>6, Untouched DEF Tracks

\* A row of a candidate is one of another run.
LEMMA CandidatesElsewhere ==
  ASSUME RInv, SInv, NEW c \in Commands, ~In(c, "sentinel"), job[c].run # 0,
         DOMAIN candidates' \subseteq DOMAIN candidates \cup {Row(c)}, UNCHANGED <<runs, sentinelRows, plan>>
  PROVE  /\ RowsStand /\ \A r \in DOMAIN runs' : SentinelRun(r)'
         /\ \A x \in DOMAIN candidates' : runs'[x[1]].kind # "sentinel"
<1>1. \A r \in DOMAIN runs : SentinelRun(r)
  BY DEF SInv
<1>2. RowsStand
  BY <1>1 DEF SentinelRun, RowsStand
<1>3. \A r \in DOMAIN runs' : SentinelRun(r)'
  BY <1>1, ScopeStays DEF SentinelRun
<1>4. Row(c)[1] = job[c].run /\ runs[job[c].run].kind # "sentinel"
  BY DEF Row, SInv, OtherRuns
<1>5. QED
  BY <1>2, <1>3, <1>4 DEF SInv

LEMMA UpsertTracks ==
  ASSUME RInv, SInv, NEW c \in Commands, Find(c) \/ Refresh(c) \/ Insert(c), UNCHANGED plan
  PROVE  Tracks(c)
<1>1. cmd[c].at \in {"upsert", "refresh", "insert"} /\ UNCHANGED <<runs, sentinelRows>>
  BY DEF Find, Refresh, Insert, At, db
<1>2. ~In(c, "sentinel")
  BY <1>1, NotSentinel DEF Loose, Preparing
<1>3. CASE /\ \E step \in {"refresh", "insert", "readRow"} : Moves(c, step, job[c])
           /\ DOMAIN candidates' \subseteq DOMAIN candidates \cup {Row(c)}
  <2>1. job[c].run # 0
    BY <1>1 DEF RInv, Mine, Ranged, Working
  <2>2. /\ RowsStand /\ \A r \in DOMAIN runs' : SentinelRun(r)'
        /\ \A x \in DOMAIN candidates' : runs'[x[1]].kind # "sentinel"
    BY <1>1, <1>2, <1>3, <2>1, CandidatesElsewhere
  <2>3. Others(c) /\ OtherRuns(c)' /\ JobsLeft(c)'
    BY <1>2, <1>3, <2>2, KeepsOn DEF In
  <2>4. QED
    BY <2>2, <2>3 DEF Tracks
<1>4. CASE Fails(c, "error") /\ UNCHANGED candidates
  BY <1>1, <1>4, ErrsQuietly
<1>5. QED
  BY <1>3, <1>4 DEF Find, Refresh, Insert, db

LEMMA WriteRowTracks ==
  ASSUME RInv, SInv, NEW c \in Commands, WriteRow(c), UNCHANGED plan PROVE Tracks(c)
<1> DEFINE clean == [job[c] EXCEPT !.row = NoRow, !.result = NoResult]
           next == [clean EXCEPT !.specs = Tail(@)]
           error == [job[c] EXCEPT !.err = "error"]
           Same(locals) == locals.run = job[c].run /\ locals.week = job[c].week /\ locals.phase = job[c].phase
<1>1. cmd[c].at = "writeRow" /\ UNCHANGED <<runs, sentinelRows>>
  BY DEF WriteRow, At
<1>2. ~In(c, "sentinel")
  BY <1>1, NotSentinel DEF Loose, Preparing
<1>3. Same(clean) /\ Same(next) /\ Same(error)
  BY RunsOfJobs DEF JobFields, Fields
<1>4. PICK locals \in {clean, next, error} : \E step : Moves(c, step, locals)
  <2>1. PICK ok \in BOOLEAN :
          CASE ~ok -> StoreFails(c)
            [] ok /\ In(c, "screen") -> Moves(c, "screenOne", next)
            [] ok /\ In(c, "promotion") -> Moves(c, "returned", clean)
            [] OTHER -> Moves(c, "finishing", clean)
    BY DEF WriteRow
  <2>2. StoreFails(c) => \E step : Moves(c, step, error)
    BY DEF StoreFails, Fails, Returned
  <2> HIDE DEF clean, next, error
  <2>3. QED
    BY <2>1, <2>2
<1>5. DOMAIN candidates' \subseteq DOMAIN candidates
  BY DEF WriteRow
<1>6. Same(locals)
  BY <1>3, <1>4
<1>7. job[c].run # 0
  BY <1>1 DEF RInv, Mine, Ranged, Working
<1>8. /\ RowsStand /\ \A r \in DOMAIN runs' : SentinelRun(r)'
      /\ \A x \in DOMAIN candidates' : runs'[x[1]].kind # "sentinel"
  BY <1>1, <1>2, <1>5, <1>7, CandidatesElsewhere
<1>9. Others(c) /\ OtherRuns(c)' /\ JobsLeft(c)'
  BY <1>2, <1>4, <1>6, <1>8, KeepsOn DEF In
<1>10. QED
  BY <1>8, <1>9 DEF Tracks

\* A run is finished, or known to be lost.
LEMMA RunsFinished ==
  ASSUME RInv, SInv, NEW c \in Commands, NEW r, NEW status, NEW ok \in BOOLEAN,
         NEW why, Sets(r, status, ok, why), UNCHANGED <<candidates, sentinelRows, plan>>,
         r \in DOMAIN runs /\ status = "complete" /\ runs[r].kind = "sentinel" =>
           Covered(<<>>, runs[r].scope, sentinelRows, r)
  PROVE  /\ RowsStand /\ \A q \in DOMAIN runs' : SentinelRun(q)'
         /\ \A x \in DOMAIN candidates' : runs'[x[1]].kind # "sentinel"
<1>1. \A q \in DOMAIN runs : SentinelRun(q)
  BY DEF SInv
<1>2. /\ DOMAIN runs' = DOMAIN runs
      /\ \A q \in DOMAIN runs :
           /\ {"kind", "scope", "status"} \subseteq DOMAIN runs'[q]
           /\ runs'[q].kind = runs[q].kind /\ runs'[q].scope = runs[q].scope
           /\ runs'[q].status = runs[q].status \/ (q = r /\ runs'[q].status = status)
  <2>1. \A q \in DOMAIN runs : {"kind", "scope", "status"} \subseteq DOMAIN runs[q]
    BY <1>1 DEF SentinelRun
  <2>2. CASE runs' = WithStatus(r, status)
    BY <2>1, <2>2 DEF WithStatus
  <2>3. CASE runs' = WithLost(r, why)
    BY <2>1, <2>3 DEF WithLost
  <2>4. QED
    BY <2>2, <2>3 DEF Sets
<1>3. RowsStand
  BY <1>2 DEF RowsStand
<1>4. ASSUME NEW q \in DOMAIN runs PROVE SentinelRun(q)'
  <2>1. SentinelRun(q)
    BY <1>1
  <2>2. runs[q].kind = "sentinel" => ScopeRight(runs[q].scope)'
    BY <1>2, <2>1, ScopeStays DEF SentinelRun
  <2>3. runs[q].kind = "sentinel" /\ runs'[q].status = "complete" =>
          Covered(<<>>, runs[q].scope, sentinelRows, q)
    BY <1>2, <2>1 DEF SentinelRun
  <2>4. QED
    BY <1>2, <2>2, <2>3 DEF SentinelRun
<1>5. \A x \in DOMAIN candidates : x[1] \in DOMAIN runs /\ runs[x[1]].kind # "sentinel"
  BY DEF SInv, RInv, CandidatesRight
<1>6. QED
  BY <1>2, <1>3, <1>4, <1>5

\* And the function that works on it returns, fails or goes on.
LEMMA FinishTracks ==
  ASSUME RInv, SInv, NEW c \in Commands, NEW r, NEW status, NEW ok \in BOOLEAN,
         NEW why, Sets(r, status, ok, why), UNCHANGED <<candidates, sentinelRows, plan>>,
         r \in DOMAIN runs /\ status = "complete" /\ runs[r].kind = "sentinel" =>
           Covered(<<>>, runs[r].scope, sentinelRows, r),
         \/ \E err : Fails(c, err) \/ Returned(c, err)
         \/ \E step \in Loose \ {"enter"} : Moves(c, step, job[c])
         \/ \E code : Exits(c, code) /\ UNCHANGED job
  PROVE  Tracks(c)
<1>1. /\ RowsStand /\ \A q \in DOMAIN runs' : SentinelRun(q)'
      /\ \A x \in DOMAIN candidates' : runs'[x[1]].kind # "sentinel"
  BY RunsFinished
<1>2. ASSUME NEW err, Fails(c, err) \/ Returned(c, err) PROVE Others(c) /\ OtherRuns(c)' /\ JobsLeft(c)'
  <2> DEFINE locals == [job[c] EXCEPT !.err = err]
  <2>1. locals.run = job[c].run /\ locals.week = job[c].week /\ locals.phase = job[c].phase
    BY RunsOfJobs DEF JobFields, Fields
  <2>2. PICK step \in {"failing", "returned"} : Moves(c, step, locals)
    BY <1>2 DEF Fails, Returned
  <2> HIDE DEF locals
  <2>3. QED
    BY <1>1, <2>1, <2>2, KeepsOn DEF In, Loose
<1>3. ASSUME NEW step \in Loose \ {"enter"}, Moves(c, step, job[c])
      PROVE  Others(c) /\ OtherRuns(c)' /\ JobsLeft(c)'
  BY <1>1, <1>3, KeepsOn DEF In
<1>4. Others(c) /\ OtherRuns(c)' /\ JobsLeft(c)'
  BY <1>1, <1>2, <1>3, ExitsOn
<1>5. QED
  BY <1>1, <1>4 DEF Tracks

LEMMA BlockTracks ==
  ASSUME RInv, SInv, NEW c \in Commands, Block(c) \/ FailRun(c), UNCHANGED plan PROVE Tracks(c)
<1>1. UNCHANGED <<candidates, sentinelRows>>
  BY DEF Block, FailRun
<1>2. PICK ok \in BOOLEAN, status \in {"blocked", "failed"} :
        Sets(job[c].run, status, ok, "statement") /\ \E err : Fails(c, err) \/ Returned(c, err)
  BY DEF Block, FailRun, Finish
<1>3. QED
  BY <1>1, <1>2, FinishTracks

\* A sentinel run is complete when no job is left; other functions complete others.
LEMMA CompleteTracks ==
  ASSUME RInv, SInv, NEW c \in Commands, Complete(c), UNCHANGED plan PROVE Tracks(c)
<1>1. cmd[c].at = "finishing" /\ UNCHANGED <<candidates, sentinelRows>>
  BY DEF Complete, At
<1>2. PICK ok \in BOOLEAN : Sets(job[c].run, "complete", ok, "statement") /\ \E err : Returned(c, err)
  BY DEF Complete, Finish
<1>3. runs[job[c].run].kind = "sentinel" => Covered(<<>>, runs[job[c].run].scope, sentinelRows, job[c].run)
  <2>1. OtherRuns(c) /\ JobsLeft(c)
    BY DEF SInv
  <2>2. job[c].run # 0
    BY <1>1 DEF RInv, Mine, Ranged, Working
  <2>3. QED
    BY <1>1, <2>1, <2>2 DEF OtherRuns, JobsLeft
<1>4. QED
  BY <1>1, <1>2, <1>3, FinishTracks

LEMMA SettleWeekTracks ==
  ASSUME RInv, SInv, NEW c \in Commands, SettleWeek(c), UNCHANGED plan PROVE Tracks(c)
<1>1. UNCHANGED <<candidates, sentinelRows>>
  BY DEF SettleWeek
<1>2. PICK ok \in BOOLEAN : /\ Sets(job[c].week, Outcome(c), ok, "statement")
                            /\ Moves(c, "report", job[c]) \/ (\E code : Exits(c, code) /\ UNCHANGED job)
  BY DEF SettleWeek, Finish
<1>3. job[c].week \in DOMAIN runs => runs[job[c].week].kind # "sentinel"
  <2>1. DOMAIN runs = 1..Len(runs) /\ Len(runs) \in Nat
    BY LengthOfRuns DEF RInv
  <2>2. QED
    BY <2>1 DEF SInv, OtherRuns
<1>4. QED
  BY <1>1, <1>2, <1>3, FinishTracks DEF Loose

(***************************************************************************)
(* How Sentinel comes to its run and its jobs.                             *)
(***************************************************************************)

LEMMA WeekLegal ==
  ASSUME RInv, NEW c \in Commands, cmd[c].at # "done"
  PROVE  Flag(c).week \in Nat
<1>1. cmd[c].script \in Seq(Invocations) /\ cmd[c].script # <<>>
  BY DEF RInv, Mine, Tidy
<1>2. Flag(c) \in Invocations
  BY <1>1 DEF Flag
<1>3. QED
  BY <1>2, PlanConstants

\* Where c takes up another function, or has none.
LEMMA TakesUp ==
  ASSUME RInv, SInv, NEW c \in Commands, Others(c), UNCHANGED <<runs, candidates, sentinelRows, plan>>,
         job'[c].run # 0 /\ job'[c].phase # "sentinel" => runs[job'[c].run].kind # "sentinel",
         job'[c].week # 0 => runs[job'[c].week].kind # "sentinel",
         job'[c].phase = "sentinel" =>
           cmd'[c].at \in Loose /\ (cmd'[c].at = "enter" => job'[c].run = 0)
  PROVE  Tracks(c)
<1>1. OtherRuns(c)'
  BY DEF OtherRuns, In
<1>2. JobsLeft(c)'
  BY DEF JobsLeft, In, Loose, Preparing
<1>3. QED
  BY <1>1, <1>2, Untouched DEF Tracks

LEMMA OpenTracks ==
  ASSUME RInv, SInv, NEW c \in Commands, Open(c), UNCHANGED plan PROVE Tracks(c)
<1> DEFINE locals == [job[c] EXCEPT !.phase = Flag(c).kind]
           step == FirstStep(Flag(c).kind)
<1>1. cmd[c].at = "start" /\ UNCHANGED <<runs, candidates, sentinelRows>>
  BY DEF Open, At, db
<1>2. locals.run = 0 /\ locals.week = 0
  <2>1. Tidy(c)
    BY DEF RInv, Mine
  <2>2. job[c].run = 0 /\ job[c].week = 0
    BY <1>1, <2>1 DEF Tidy, Opening
  <2>3. QED
    BY <2>2, RunsOfJobs DEF JobFields, Fields
<1>3. locals.phase = Flag(c).kind
  BY RunsOfJobs DEF JobFields, Fields
<1>4. Flag(c).kind = "sentinel" => step = "enter"
  BY DEF FirstStep
<1> HIDE DEF locals, step
<1>5. CASE Moves(c, step, locals)
  BY <1>1, <1>2, <1>3, <1>4, <1>5, MovesOn, TakesUp DEF Loose
<1>6. CASE Exits(c, "error") /\ UNCHANGED job
  BY <1>1, <1>6, ExitsQuietly
<1>7. QED
  BY <1>5, <1>6 DEF Open, locals, step

LEMMA LoadTracks ==
  ASSUME RInv, SInv, NEW c \in Commands, Load(c), UNCHANGED plan PROVE Tracks(c)
<1>1. cmd[c].at = "load" /\ UNCHANGED <<runs, candidates, sentinelRows>>
  BY DEF Load, At, db
<1>2. ~In(c, "sentinel")
  BY <1>1, NotSentinel DEF Loose, Preparing
<1>3. job[c].run = 0 /\ job[c].week = 0
  <2>1. Tidy(c)
    BY DEF RInv, Mine
  <2>2. QED
    BY <1>1, <2>1 DEF Tidy, Opening
<1>4. CASE \E code : Exits(c, code) /\ UNCHANGED job
  BY <1>1, <1>4, ExitsQuietly
<1>5. CASE Moves(c, "enter", [job[c] EXCEPT !.specs = Flag(c).candidates])
  <2> DEFINE locals == [job[c] EXCEPT !.specs = Flag(c).candidates]
  <2>1. locals.run = job[c].run /\ locals.week = job[c].week /\ locals.phase = job[c].phase
    BY RunsOfJobs DEF JobFields, Fields
  <2>2. Moves(c, "enter", locals)
    BY <1>5
  <2> HIDE DEF locals
  <2>3. QED
    BY <1>1, <1>2, <2>1, <2>2, OtherMoves
<1>6. ASSUME NEW i \in Meant(c), NEW r \in IF In(c, "downstream") THEN RunsWith(Flag(c).key) ELSE {0},
             Moves(c, "enter", [job[c] EXCEPT !.specs = <<Flag(c).candidates[i]>>, !.run = r])
      PROVE  Tracks(c)
  <2> DEFINE locals == [job[c] EXCEPT !.specs = <<Flag(c).candidates[i]>>, !.run = r]
  <2>1. locals.run = r /\ locals.week = job[c].week /\ locals.phase = job[c].phase
    BY RunsOfJobs DEF JobFields, Fields
  <2>2. Moves(c, "enter", locals)
    BY <1>6
  <2> HIDE DEF locals
  <2>3. r # 0 => runs[r].kind # "sentinel"
    BY <1>6 DEF RunsWith
  <2>4. QED
    BY <1>1, <1>2, <1>3, <2>1, <2>2, <2>3, MovesOn, TakesUp DEF In
<1>7. QED
  BY <1>4, <1>5, <1>6 DEF Load

\* Enter has a job for each seat and each case.
LEMMA EnterTracks ==
  ASSUME RInv, SInv, NEW c \in Commands, Enter(c), UNCHANGED plan PROVE Tracks(c)
<1> DEFINE locals == [job[c] EXCEPT !.todo = CasesToEnter(c),
                                    !.graders = IF In(c, "screen") THEN <<ScreeningGrader>> ELSE <<>>]
           scope == SelectSentinelCases(plan.pack, Flag(c).week)
<1>1. cmd[c].at = "enter" /\ UNCHANGED <<candidates, sentinelRows>>
  BY DEF Enter, At
<1>2. CASE In(c, "downstream") /\ Returned(c, "error") /\ runs' = WithLost(job[c].run, "unread")
  <2>1. Sets(job[c].run, "failed", FALSE, "unread")
    BY <1>2 DEF Sets
  <2>2. QED
    BY <1>1, <1>2, <2>1, FinishTracks
<1>3. CASE Returned(c, "error") /\ UNCHANGED runs
  BY <1>1, <1>3, ErrsQuietly
<1>4. ASSUME Moves(c, IF In(c, "downstream") THEN "drift" ELSE "create", locals), UNCHANGED runs,
             ~CannotEnter(c)
      PROVE  Tracks(c)
  <2>1. /\ locals.run = job[c].run /\ locals.week = job[c].week /\ locals.phase = job[c].phase
        /\ locals.todo = CasesToEnter(c)
    BY RunsOfJobs DEF JobFields, Fields
  <2>2. PICK step : Moves(c, step, locals) /\ step = IF In(c, "downstream") THEN "drift" ELSE "create"
    BY <1>4
  <2> HIDE DEF locals
  <2>3. CASE ~In(c, "sentinel")
    BY <1>1, <1>4, <2>1, <2>2, <2>3, OtherMoves
  <2>4. CASE In(c, "sentinel")
    <3>1. job'[c] = locals /\ cmd'[c].at = "create" /\ cmd'[c].script = cmd[c].script /\ Others(c)
      BY <2>2, <2>4, MovesOn DEF In
    <3>2. CasesToEnter(c) = SentinelJobs(scope) /\ SentinelJobs(scope) # <<>>
      BY <1>4, <2>4 DEF CasesToEnter, CannotEnter, In
    <3>3. plan \in Plans /\ Flag(c).week \in Nat
      BY <1>1, WeekLegal DEF SInv
    <3>4. /\ SentinelJobs(scope) \in Seq(SentinelJob) /\ scope # <<>>
          /\ Covered(SentinelJobs(scope), scope, {}, 0)
      BY <3>2, <3>3, JobsHold
    <3>5. SelectSentinelCases(plan.pack, Flag(c).week)' = scope
      BY <3>1 DEF Flag
    <3> HIDE DEF scope
    <3>6. JobsLeft(c)'
      BY <2>1, <3>1, <3>2, <3>4, <3>5 DEF JobsLeft, Preparing
    <3>7. OtherRuns(c)'
      BY <1>4, <2>1, <3>1, RunsOfJobs DEF SInv, OtherRuns, In
    <3>8. QED
      BY <1>1, <1>4, <3>1, <3>6, <3>7, Untouched DEF Tracks
  <2>5. QED
    BY <2>3, <2>4
<1>5. QED
  BY <1>2, <1>3, <1>4 DEF Enter

\* And the row of the run.
LEMMA CreateTracks ==
  ASSUME RInv, SInv, NEW c \in Commands, Create(c), UNCHANGED plan PROVE Tracks(c)
<1> DEFINE locals == [job[c] EXCEPT !.run = Len(runs) + 1]
           scope == IF In(c, "sentinel") THEN SelectSentinelCases(plan.pack, Flag(c).week) ELSE <<>>
           row == [kind |-> KindOf(job[c].phase), by |-> c, status |-> "created",
                   invocation |-> Len(cmd[c].script), lost |-> "none", scope |-> scope]
<1>1. cmd[c].at = "create" /\ UNCHANGED <<candidates, sentinelRows>>
  BY DEF Create, At
<1>2. CASE Returned(c, "error") /\ UNCHANGED runs
  BY <1>1, <1>2, ErrsQuietly
<1>3. CASE runs' = Append(runs, row) /\ Moves(c, "running", locals)
  <2>1. /\ locals.run = Len(runs) + 1 /\ locals.week = job[c].week /\ locals.phase = job[c].phase
        /\ locals.todo = job[c].todo
    BY RunsOfJobs DEF JobFields, Fields
  <2>2. /\ DOMAIN row = {"kind", "by", "status", "invocation", "lost", "scope"} /\ row.by = c
        /\ row.status = "created" /\ row.lost = "none"
        /\ row.kind = KindOf(job[c].phase) /\ row.scope = scope
    OBVIOUS
  <2>3. /\ KindOf(job[c].phase) = "sentinel" <=> In(c, "sentinel")
    BY DEF KindOf, In
  <2> HIDE DEF locals, row
  <2>4. /\ DOMAIN runs \subseteq DOMAIN runs'
        /\ Len(runs') = Len(runs) + 1 /\ runs'[Len(runs')] = row
        /\ \A r \in DOMAIN runs : runs'[r] = runs[r]
        /\ DOMAIN runs' = DOMAIN runs \cup {Len(runs')}
    BY <1>3, <2>2, RowAppended DEF Statuses
  <2>5. Others(c) /\ job'[c] = locals /\ cmd'[c].at = "running"
    BY <1>3, MovesOn
  <2>6. \A r \in DOMAIN runs : SentinelRun(r)
    BY DEF SInv
  <2>7. RowsStand
    BY <1>1, <2>4, <2>6 DEF RowsStand, SentinelRun
  <2>8. In(c, "sentinel") =>
          /\ job[c].todo \in Seq(SentinelJob) /\ job[c].todo # <<>>
          /\ scope # <<>> /\ Covered(job[c].todo, scope, {}, 0)
    BY <1>1 DEF SInv, JobsLeft
  <2>9. In(c, "sentinel") => ScopeRight(scope)
    <3>1. plan \in Plans /\ Flag(c).week \in Nat
      BY <1>1, WeekLegal DEF SInv
    <3>2. QED
      BY <2>8, <3>1, ScopeHolds
  <2>10. PICK cases, new : cases = scope /\ new = Len(runs')
    OBVIOUS
  <2> HIDE DEF scope
  <2>11. In(c, "sentinel") => ScopeRight(cases)'
    BY <2>9, <2>10, ScopeStays
  <2>12. SentinelRun(new)'
    BY <2>2, <2>3, <2>4, <2>10, <2>11 DEF SentinelRun
  <2>13. ASSUME NEW r \in DOMAIN runs PROVE SentinelRun(r)'
    <3>1. SentinelRun(r) /\ runs'[r] = runs[r]
      BY <2>4, <2>6
    <3>2. runs[r].kind = "sentinel" => ScopeRight(runs[r].scope)'
      BY <3>1, ScopeStays DEF SentinelRun
    <3>3. QED
      BY <1>1, <3>1, <3>2 DEF SentinelRun
  <2>14. \A x \in DOMAIN candidates' : runs'[x[1]].kind # "sentinel"
    BY <1>1, <2>4 DEF SInv, RInv, CandidatesRight
  <2>15. OtherRuns(c)'
    <3>1. job[c].week # 0 => runs'[job[c].week].kind # "sentinel"
      BY <2>4, RunsOfJobs DEF SInv, OtherRuns
    <3>2. QED
      BY <2>1, <2>2, <2>3, <2>4, <2>5, <3>1 DEF OtherRuns, In
  <2>16. JobsLeft(c)'
    <3>1. SUFFICES ASSUME In(c, "sentinel") PROVE JobsLeft(c)'
      BY <2>1, <2>5 DEF JobsLeft, In
    <3>2. Covered(job[c].todo, scope, sentinelRows', Len(runs'))
      BY <2>8, <3>1 DEF Covered
    <3>3. job'[c].run = Len(runs') /\ runs'[Len(runs')].scope = scope /\ job'[c].todo = job[c].todo
      BY <2>1, <2>2, <2>4, <2>5
    <3>4. QED
      BY <2>5, <2>8, <3>1, <3>2, <3>3 DEF JobsLeft, Preparing, Loose
  <2>17. QED
    BY <2>4, <2>5, <2>7, <2>10, <2>12, <2>13, <2>14, <2>15, <2>16 DEF Tracks
<1>4. QED
  BY <1>2, <1>3 DEF Create

LEMMA MarkRunningTracks ==
  ASSUME RInv, SInv, NEW c \in Commands, MarkRunning(c), UNCHANGED plan PROVE Tracks(c)
<1> DEFINE turned == [job[c] EXCEPT !.week = job[c].run, !.run = 0]
<1>1. cmd[c].at = "running" /\ UNCHANGED <<candidates, sentinelRows>>
  BY DEF MarkRunning, At
<1>2. PICK ok \in BOOLEAN :
        /\ Sets(job[c].run, "running", ok, "unstarted")
        /\ CASE ~ok -> Returned(c, "error")
             [] ok /\ In(c, "weekly") -> Moves(c, "returned", turned)
             [] ok /\ In(c, "adopted") -> Returned(c, "none")
             [] ok /\ In(c, "sentinel") -> Moves(c, "pair", job[c])
             [] ok /\ In(c, "screen") -> Moves(c, "screenOne", job[c])
             [] OTHER -> Moves(c, "drift", job[c])
  BY DEF MarkRunning
<1>3. turned.run = 0 /\ turned.week = job[c].run /\ turned.phase = job[c].phase
  BY RunsOfJobs DEF JobFields, Fields
<1>4. job[c].run # 0
  BY <1>1 DEF RInv, Mine, Ranged, Working
<1> HIDE DEF turned
<1>5. /\ RowsStand /\ \A q \in DOMAIN runs' : SentinelRun(q)'
      /\ \A x \in DOMAIN candidates' : runs'[x[1]].kind # "sentinel"
  BY <1>1, <1>2, RunsFinished
<1>6. CASE \E err : Returned(c, err)
  BY <1>1, <1>2, <1>6, FinishTracks
<1>7. CASE In(c, "sentinel") /\ Moves(c, "pair", job[c])
  <2>1. Others(c) /\ OtherRuns(c)' /\ JobsLeft(c)'
    BY <1>1, <1>5, <1>7, KeepsOn DEF In, Preparing
  <2>2. QED
    BY <1>5, <2>1 DEF Tracks
<1>8. CASE ~In(c, "sentinel") /\ \E step : Moves(c, step, job[c])
  <2>1. Others(c) /\ OtherRuns(c)' /\ JobsLeft(c)'
    BY <1>5, <1>8, KeepsOn DEF In
  <2>2. QED
    BY <1>5, <2>1 DEF Tracks
<1>9. CASE In(c, "weekly") /\ Moves(c, "returned", turned)
  <2>1. Others(c) /\ job'[c] = turned
    BY <1>9, MovesOn
  <2>2. runs'[job[c].run].kind # "sentinel"
    <3>1. job[c].run \in DOMAIN runs
      BY <1>4, RunsOfJobs
    <3>2. ~In(c, "sentinel")
      BY <1>9 DEF In
    <3>3. runs[job[c].run].kind # "sentinel"
      BY <1>4, <3>2 DEF SInv, OtherRuns
    <3>4. QED
      BY <1>5, <3>1, <3>3 DEF RowsStand
  <2>3. OtherRuns(c)'
    BY <1>3, <2>1, <2>2 DEF OtherRuns
  <2>4. JobsLeft(c)'
    BY <1>3, <1>9, <2>1 DEF JobsLeft, In
  <2>5. QED
    BY <1>5, <2>1, <2>3, <2>4 DEF Tracks
<1>10. QED
  <2>1. CASE ~ok
    BY <1>2, <1>6, <2>1
  <2>2. CASE ok /\ In(c, "weekly")
    BY <1>2, <1>9, <2>2 DEF In
  <2>3. CASE ok /\ In(c, "adopted")
    BY <1>2, <1>6, <2>3 DEF In
  <2>4. CASE ok /\ In(c, "sentinel")
    BY <1>2, <1>7, <2>4 DEF In
  <2>5. CASE ok /\ In(c, "screen")
    BY <1>2, <1>8, <2>5 DEF In
  <2>6. CASE ok /\ ~In(c, "weekly") /\ ~In(c, "adopted") /\ ~In(c, "sentinel") /\ ~In(c, "screen")
    BY <1>2, <1>8, <2>6
  <2>7. QED
    BY <2>1, <2>2, <2>3, <2>4, <2>5, <2>6

(***************************************************************************)
(* The rows of a sentinel run.                                             *)
(***************************************************************************)

\* The row of the first job takes its place.
LEMMA JobDone ==
  ASSUME NEW todo \in Seq(SentinelJob), todo # <<>>, NEW scope, NEW rows, NEW r, Covered(todo, scope, rows, r)
  PROVE  /\ Tail(todo) \in Seq(SentinelJob)
         /\ Len(todo) = 1 => Tail(todo) = <<>>
         /\ Len(todo) # 1 => Tail(todo) # <<>>
         /\ Covered(Tail(todo), scope, rows \cup {[seat |-> Head(todo).seat, pick |-> Head(todo).pick, run |-> r]}, r)
<1>1. Len(todo) \in Nat \ {0} /\ DOMAIN todo = 1..Len(todo) /\ Head(todo) = todo[1]
  BY LenProperties, HeadTailProperties
<1>2. /\ Tail(todo) \in Seq(SentinelJob) /\ Len(Tail(todo)) = Len(todo) - 1
      /\ \A i \in 1..(Len(todo) - 1) : Tail(todo)[i] = todo[i + 1]
  BY <1>1, HeadTailProperties
<1>3. DOMAIN Tail(todo) = 1..(Len(todo) - 1)
  BY <1>1, <1>2, LenProperties
<1>4. (Len(todo) = 1 => Tail(todo) = <<>>) /\ (Len(todo) # 1 => Tail(todo) # <<>>)
  <2>1. Tail(todo) # <<>> => Len(Tail(todo)) \in Nat \ {0}
    BY <1>2, EmptySeq
  <2>2. Len(Tail(todo)) # 0 => Tail(todo) # <<>>
    BY Zenon, <1>2, EmptySeq
  <2>3. QED
    BY <1>1, <1>2, <2>1, <2>2
<1>5. \A x \in ToSet(todo) : x = Head(todo) \/ x \in ToSet(Tail(todo))
  <2>1. ASSUME NEW i \in 1..Len(todo), i # 1 PROVE todo[i] = Tail(todo)[i - 1] /\ i - 1 \in DOMAIN Tail(todo)
    BY <1>1, <1>2, <1>3, <2>1
  <2>2. \A i \in 1..Len(todo) : todo[i] = Head(todo) \/ todo[i] \in ToSet(Tail(todo))
    BY <1>1, <2>1 DEF ToSet
  <2>3. QED
    BY <1>1, <2>2 DEF ToSet
<1>6. Covered(Tail(todo), scope, rows \cup {[seat |-> Head(todo).seat, pick |-> Head(todo).pick, run |-> r]}, r)
  BY <1>5 DEF Covered
<1>7. QED
  BY <1>2, <1>4, <1>6

LEMMA InsertSentinelTracks ==
  ASSUME RInv, SInv, NEW c \in Commands, InsertSentinel(c), UNCHANGED plan PROVE Tracks(c)
<1> DEFINE locals == [job[c] EXCEPT !.todo = Tail(@), !.verdict = "none"]
           todo == job[c].todo
           own == job[c].run
           step == IF Len(todo) = 1 THEN "finishing" ELSE "resolve"
<1>1. cmd[c].at = "compared" /\ In(c, "sentinel") /\ UNCHANGED <<runs, candidates>>
  BY DEF InsertSentinel, At
<1>2. CASE Fails(c, "error") /\ UNCHANGED sentinelRows
  BY <1>1, <1>2, ErrsQuietly
<1>3. CASE sentinelRows' = sentinelRows \cup {SentinelRow(c)} /\ Moves(c, step, locals)
  <2>1. locals.run = own /\ locals.week = job[c].week /\ locals.phase = job[c].phase /\ locals.todo = Tail(todo)
    BY RunsOfJobs DEF JobFields, Fields
  <2>2. Others(c) /\ job'[c] = locals /\ cmd'[c].at = step
    BY <1>3, MovesOn
  <2>3. todo \in Seq(SentinelJob) /\ todo # <<>> /\ Covered(todo, runs[own].scope, sentinelRows, own)
    BY <1>1 DEF SInv, JobsLeft, Preparing
  <2>4. sentinelRows' = sentinelRows \cup {[seat |-> Head(todo).seat, pick |-> Head(todo).pick, run |-> own]}
    BY <1>3 DEF SentinelRow
  <2> HIDE DEF locals, todo, own, step
  <2>5. /\ Tail(todo) \in Seq(SentinelJob)
        /\ Len(todo) = 1 => Tail(todo) = <<>>
        /\ Len(todo) # 1 => Tail(todo) # <<>>
        /\ Covered(Tail(todo), runs[own].scope, sentinelRows', own)
    BY <2>3, <2>4, JobDone
  <2>6. \A q \in DOMAIN runs : SentinelRun(q)
    BY DEF SInv
  <2>7. RowsStand
    BY <1>1, <2>4, <2>6 DEF RowsStand, SentinelRun
  <2>8. \A q \in DOMAIN runs' : SentinelRun(q)'
    <3>1. ASSUME NEW q \in DOMAIN runs, SentinelRun(q) PROVE SentinelRun(q)'
      <4>1. runs[q].kind = "sentinel" => ScopeRight(runs[q].scope)'
        BY <1>1, <3>1, ScopeStays DEF SentinelRun
      <4>2. Covered(<<>>, runs[q].scope, sentinelRows, q) => Covered(<<>>, runs[q].scope, sentinelRows', q)
        BY <2>7, CoveredStays DEF RowsStand
      <4>3. QED
        BY <1>1, <3>1, <4>1, <4>2 DEF SentinelRun
    <3>2. QED
      BY <1>1, <2>6, <3>1
  <2>9. OtherRuns(c)'
    BY <1>1, <2>1, <2>2 DEF SInv, OtherRuns, In, own
  <2>10. JobsLeft(c)'
    <3>1. CASE Len(todo) = 1
      BY <1>1, <2>1, <2>2, <2>5, <3>1 DEF JobsLeft, Preparing, Loose, step
    <3>2. CASE Len(todo) # 1
      BY <1>1, <2>1, <2>2, <2>5, <3>2 DEF JobsLeft, Preparing, Loose, step
    <3>3. QED
      BY <3>1, <3>2
  <2>11. QED
    BY <1>1, <2>2, <2>7, <2>8, <2>9, <2>10 DEF SInv, Tracks
<1>4. QED
  BY <1>2, <1>3 DEF InsertSentinel

(***************************************************************************)
(* From function to function.                                              *)
(***************************************************************************)

LEMMA SettlesTracks ==
  ASSUME RInv, SInv, NEW c \in Commands, UNCHANGED <<runs, candidates, sentinelRows, plan>>,
         Settles(c) \/ Moves(c, "settle", [job[c] EXCEPT !.err = "error"])
  PROVE  Tracks(c)
<1> DEFINE empty == [job[c] EXCEPT !.specs = <<>>, !.todo = <<>>, !.graders = <<>>]
           failed == [job[c] EXCEPT !.err = "error"]
           Same(locals) == locals.run = job[c].run /\ locals.week = job[c].week /\ locals.phase = job[c].phase
<1>1. Same(empty) /\ Same(failed)
  BY RunsOfJobs DEF JobFields, Fields
<1>2. Moves(c, "settle", empty) \/ Moves(c, "settle", failed)
  BY DEF Settles
<1> HIDE DEF empty, failed
<1>3. QED
  BY <1>1, <1>2, MovesQuietly DEF In, Loose

LEMMA BeginsTracks ==
  ASSUME RInv, SInv, NEW c \in Commands, UNCHANGED <<runs, candidates, sentinelRows, plan>>,
         NEW phase, NEW specs, Begins(c, phase, specs)
  PROVE  Tracks(c)
<1> DEFINE locals == [Idle EXCEPT !.phase = phase, !.week = job[c].week, !.specs = specs]
<1>1. locals.run = 0 /\ locals.week = job[c].week
  BY DEF Idle
<1>2. Moves(c, "enter", locals)
  BY DEF Begins
<1> HIDE DEF locals
<1>3. job[c].week # 0 => runs[job[c].week].kind # "sentinel"
  BY DEF SInv, OtherRuns
<1>4. QED
  BY <1>1, <1>2, <1>3, MovesOn, TakesUp DEF Loose

LEMMA ForEachTracks ==
  ASSUME RInv, SInv, NEW c \in Commands, UNCHANGED <<runs, candidates, sentinelRows, plan>>,
         \/ \E specs : ForEach(c, specs)
         \/ TakeCandidates(c)
  PROVE  Tracks(c)
<1>1. ASSUME NEW specs, ForEach(c, specs) PROVE Tracks(c)
  <2>1. Begins(c, "compare", specs) \/ Begins(c, "adopted", specs) \/ Settles(c)
    BY <1>1 DEF ForEach
  <2>2. QED
    BY <2>1, BeginsTracks, SettlesTracks
<1>2. CASE TakeCandidates(c)
  <2>1. \/ Moves(c, "settle", [job[c] EXCEPT !.err = "error"])
        \/ Begins(c, "screen", Flag(c).candidates)
        \/ ForEach(c, Flag(c).candidates)
    BY <1>2 DEF TakeCandidates
  <2>2. QED
    BY <1>1, <2>1, BeginsTracks, SettlesTracks
<1>3. QED
  BY <1>1, <1>2

LEMMA NextStepTracks ==
  ASSUME RInv, SInv, NEW c \in Commands, NextStep(c), UNCHANGED plan PROVE Tracks(c)
<1>1. UNCHANGED <<runs, candidates, sentinelRows>>
  BY DEF NextStep, db
<1>2. \/ Settles(c) \/ TakeCandidates(c) \/ Begins(c, "sentinel", <<>>) \/ \E specs : ForEach(c, specs)
      \/ ~In(c, "sentinel") /\ Moves(c, "enter", [job[c] EXCEPT !.phase = "downstream"])
      \/ ~In(c, "sentinel") /\ Moves(c, "promote", [job[c] EXCEPT !.phase = "promotion"])
  <2>1. CASE job[c].err # "none"
    BY <2>1 DEF NextStep
  <2>2. CASE job[c].err = "none" /\ In(c, "weekly")
    BY <2>2 DEF NextStep, In
  <2>3. CASE job[c].err = "none" /\ In(c, "sentinel")
    BY <2>3 DEF NextStep, In
  <2>4. CASE job[c].err = "none" /\ In(c, "screen")
    BY <2>4 DEF NextStep, In
  <2>5. CASE job[c].err = "none" /\ In(c, "compare")
    BY <2>5 DEF NextStep, In
  <2>6. CASE job[c].err = "none" /\ In(c, "adopted")
    BY <2>6 DEF NextStep, In
  <2>7. CASE job[c].err = "none" /\ In(c, "downstream")
    BY <2>7 DEF NextStep, In
  <2>8. CASE /\ job[c].err = "none" /\ ~In(c, "weekly") /\ ~In(c, "sentinel") /\ ~In(c, "screen")
             /\ ~In(c, "compare") /\ ~In(c, "adopted") /\ ~In(c, "downstream")
    BY <2>8 DEF NextStep
  <2>9. QED
    BY <2>1, <2>2, <2>3, <2>4, <2>5, <2>6, <2>7, <2>8
<1>3. ASSUME NEW step, NEW phase \in {"downstream", "promotion"}, ~In(c, "sentinel"),
             Moves(c, step, [job[c] EXCEPT !.phase = phase])
      PROVE  Tracks(c)
  <2> DEFINE locals == [job[c] EXCEPT !.phase = phase]
  <2>1. locals.run = job[c].run /\ locals.week = job[c].week /\ locals.phase = phase
    BY RunsOfJobs DEF JobFields, Fields
  <2>2. Moves(c, step, locals)
    BY <1>3
  <2> HIDE DEF locals
  <2>3. QED
    BY <1>1, <1>3, <2>1, <2>2, MovesQuietly
<1>4. QED
  BY <1>1, <1>2, <1>3, SettlesTracks, BeginsTracks, ForEachTracks

\* A new invocation, or none any more.
LEMMA FreshTracks ==
  ASSUME RInv, SInv, NEW c \in Commands, NEW script,
         cmd' = [cmd EXCEPT ![c] = Invocation(script)], job' = [job EXCEPT ![c] = Idle],
         UNCHANGED <<runs, candidates, sentinelRows, plan>>
  PROVE  Tracks(c)
<1>1. Others(c) /\ job'[c] = Idle
  BY DEF RInv, Others
<1>2. job'[c].run = 0 /\ job'[c].week = 0 /\ job'[c].phase = "none"
  BY <1>1 DEF Idle
<1>3. QED
  BY <1>1, <1>2, TakesUp

LEMMA InitSInv == Init => SInv
<1> SUFFICES ASSUME Init PROVE SInv
  OBVIOUS
<1>1. plan \in Plans /\ runs = <<>> /\ candidates = <<>> /\ job = [c \in Commands |-> Idle]
  BY DEF Init
<1>2. \A c \in Commands : job[c].run = 0 /\ job[c].week = 0 /\ job[c].phase = "none"
  BY <1>1 DEF Idle
<1>3. QED
  BY <1>1, <1>2 DEF SInv, OtherRuns, JobsLeft, In

LEMMA StutterSInv == RInv /\ SInv /\ UNCHANGED vars => SInv'
<1> SUFFICES ASSUME RInv, SInv, UNCHANGED vars PROVE SInv'
  OBVIOUS
<1>1. UNCHANGED <<runs, candidates, sentinelRows, plan>> /\ cmd' = cmd /\ job' = job
  BY DEF vars, db
<1>2. ASSUME NEW c \in Commands PROVE OtherRuns(c)' /\ JobsLeft(c)'
  <2>1. OtherRuns(c) /\ JobsLeft(c)
    BY DEF SInv
  <2>2. Flag(c)' = Flag(c)
    BY <1>1 DEF Flag
  <2>3. QED
    BY <1>1, <2>1, <2>2 DEF OtherRuns, JobsLeft, In
<1>3. QED
  BY <1>1, <1>2, Untouched DEF SInv

LEMMA StepSInv == RInv /\ SInv /\ [Next]_vars => SInv'
<1> SUFFICES ASSUME RInv, SInv, [Next]_vars PROVE SInv'
  OBVIOUS
<1>1. ASSUME NEW c \in Commands, Command(c) PROVE SInv'
  <2>1. CASE GradersStep(c) /\ UNCHANGED <<db, job, plan>>
    BY <2>1, GradersStepTracks, TracksKeeps
  <2>2. CASE UNCHANGED plan /\ (Open(c) \/ Load(c) \/ CheckPack(c) \/ Enter(c) \/ Create(c) \/ MarkRunning(c))
    BY <2>2, OpenTracks, LoadTracks, CasesTrack, EnterTracks, CreateTracks, MarkRunningTracks, TracksKeeps
  <2>3. CASE UNCHANGED plan /\ (Pair(c) \/ CheckDrift(c) \/ Block(c) \/ Baselines(c) \/ Cases(c))
    BY <2>3, PairTracks, CheckDriftTracks, BlockTracks, BaselinesTrack, CasesTrack, TracksKeeps
  <2>4. CASE /\ UNCHANGED plan
             /\ Generate(c) \/ GenerateCouncils(c) \/ GradeAll(c) \/ Resolve(c) \/ CompareCase(c)
                \/ InsertSentinel(c)
    BY <2>4, GenerateTracks, GradeAllTracks, ResolveTracks, CompareCaseTracks, InsertSentinelTracks, TracksKeeps
  <2>5. CASE UNCHANGED plan /\ (Tally(c) \/ Summarise(c) \/ Cover(c) \/ CloseCase(c))
    BY <2>5, TallyTracks, SummariseTracks, CasesTrack, CloseCaseTracks, TracksKeeps
  <2>6. CASE UNCHANGED plan /\ (Find(c) \/ Refresh(c) \/ Insert(c) \/ Promote(c) \/ ReadRow(c) \/ WriteRow(c))
    BY <2>6, UpsertTracks, PromoteTracks, ReadRowTracks, WriteRowTracks, TracksKeeps
  <2>7. CASE UNCHANGED plan /\ (Complete(c) \/ FailRun(c) \/ CommandReturns(c) \/ NextStep(c))
    BY <2>7, CompleteTracks, BlockTracks, CommandReturnsTracks, NextStepTracks, TracksKeeps
  <2>8. CASE UNCHANGED plan /\ (SettleWeek(c) \/ WriteReport(c))
    BY <2>8, SettleWeekTracks, WriteReportTracks, TracksKeeps
  <2>9. CASE UNCHANGED plan /\ NextInvocation(c)
    <3>1. /\ cmd' = [cmd EXCEPT ![c] = Invocation(Tail(cmd[c].script))] /\ job' = [job EXCEPT ![c] = Idle]
          /\ UNCHANGED <<runs, candidates, sentinelRows, plan>>
      BY <2>9 DEF NextInvocation, db
    <3>2. QED
      BY <3>1, FreshTracks, TracksKeeps
  <2>10. QED
    BY <1>1, <2>1, <2>2, <2>3, <2>4, <2>5, <2>6, <2>7, <2>8, <2>9 DEF Command
<1>2. ASSUME NEW c \in Commands, Kill(c) PROVE SInv'
  <2>1. /\ cmd' = [cmd EXCEPT ![c] = Invocation(<<>>)] /\ job' = [job EXCEPT ![c] = Idle]
        /\ UNCHANGED <<runs, candidates, sentinelRows, plan>>
    BY <1>2 DEF Kill, db
  <2>2. QED
    BY <2>1, FreshTracks, TracksKeeps
<1>3. CASE UNCHANGED vars
  BY <1>3, StutterSInv
<1>4. QED
  BY <1>1, <1>2, <1>3 DEF Next, AllEnded

LEMMA AlwaysSInv == Spec => []SInv
<1>1. RInv /\ SInv /\ [Next]_vars => RInv' /\ SInv'
  BY StepRInv, StepSInv
<1>2. Init => RInv /\ SInv
  BY InitRInv, InitSInv
<1>3. QED
  BY <1>1, <1>2, PTL DEF Spec

\* SelectSentinelCases, Sentinel and FinishRun: a sentinel run that is complete is
\* about as many cases as are asked for, first one of a safety family and then one
\* of a control family, another one where there is another, whatever the week; and
\* has a row for every seat and every one of these cases, however many commands
\* write rows beside it and whichever insert fails.
THEOREM SentinelsAreComplete == Spec => []SentinelIsComplete
<1>1. SInv => SentinelIsComplete
  <2> SUFFICES ASSUME SInv, NEW r \in DOMAIN runs, runs[r].kind = "sentinel", runs[r].status = "complete"
               PROVE  LET scope == runs[r].scope
                          families(tag) == {i \in DOMAIN plan.pack : {"sentinel", tag} \subseteq plan.pack[i].tags}
                      IN /\ Len(scope) = Larger(2, SentinelCount)
                         /\ scope[1].family \in families("safety") /\ scope[2].family \in families("control")
                         /\ families("control") # {scope[1].family} => scope[2].family # scope[1].family
                         /\ \A s \in DOMAIN Seats, i \in DOMAIN scope :
                              [seat |-> Seats[s], pick |-> i, run |-> r] \in sentinelRows
    BY DEF SentinelIsComplete
  <2>1. ScopeRight(runs[r].scope) /\ Covered(<<>>, runs[r].scope, sentinelRows, r)
    BY DEF SInv, SentinelRun
  <2>2. ToSet(<<>>) = {}
    BY DEF ToSet
  <2>3. \A s \in DOMAIN Seats, i \in DOMAIN runs[r].scope :
          [seat |-> Seats[s], pick |-> i, run |-> r] \in sentinelRows
    BY <2>1, <2>2 DEF Covered
  <2>4. QED
    BY <2>1, <2>3 DEF ScopeRight, SentinelTagged
<1>2. QED
  BY <1>1, AlwaysSInv, PTL
=============================================================================
