----------------------------- MODULE Evaluation ------------------------------
(***************************************************************************)
(* What Screen, Compare and Sentinel (internal/harness) do with a set of   *)
(* cases: a pool generates the responses, then they are graded one by one, *)
(* then compared pair by pair.  Several commands run on one database at a  *)
(* time, a process may be killed at any point, and the next command takes  *)
(* what it left: there is no lock and no transaction.                      *)
(***************************************************************************)
EXTENDS ResponseCache, Grading, SequencesExt

CONSTANT
  Plans     \* what the commands are to do, see plan

VARIABLES
  plan,    \* script: the requests of each job; cmd: its command; graders: those who grade each
           \* response for a command; comparing: those who compare each pair for it;
           \* earlier: sets of rows that earlier commands may have left
  progress \* per command: the phase it is in and the work left in it

\* Each job has a command and something to ask, graders are known; of the rows
\* with one prompt that are there at first, one has the highest repetition, and
\* no two have the same.
ASSUME PlanConstants ==
  /\ IsFiniteSet(Jobs)
  /\ \A p \in Plans :
       /\ p.cmd \in [Jobs -> Commands]
       /\ p.script \in [Jobs -> Seq([prompt : Prompts, fresh : BOOLEAN]) \ {<<>>}]
       /\ p.graders \in [Commands -> Seq(Graders)]
       /\ \A S \in p.earlier : \A r \in S :
            /\ r \in Row
            /\ \A s \in S : r.prompt = s.prompt /\ r.rep = s.rep => r = s
            /\ \E m \in S : m.prompt = r.prompt /\ \A s \in S : s.prompt = r.prompt => s.rep <= m.rep

vars == <<responses, job, grades, flagRows, service, faults, killed, plan, progress>>

Nothing(phase) == [phase |-> phase, jobs |-> <<>>, toGrade |-> <<>>]

Init ==
  /\ plan \in Plans
  /\ responses \in plan.earlier
  /\ job = [j \in Jobs |-> Queued(plan.cmd[j], plan.script[j])]
  /\ grades = {} /\ flagRows = {} 
  /\ service = [c \in Commands |-> Idle]
  /\ progress = [c \in Commands |-> Nothing("pool")]
  /\ faults = 0
  /\ killed = {}

Phase(c, phase) == progress[c].phase = phase

GoTo(c, phase) == progress' = [progress EXCEPT ![c].phase = phase]

Generate(j) == /\ JobStep(j)
               /\ UNCHANGED <<grades, flagRows, service, plan, progress>>

Evaluate(c) == /\ GradingStep(c)
               /\ UNCHANGED <<responses, job, plan, progress>>

JobSeq(c) == SetToSeq(PoolOf(c))

\* For each case, grader by grader, the candidate's response and the incumbent's.
GradingList(c) ==
  FlattenSeq([i \in 1..Cardinality(PoolOf(c)) |->
    FlattenSeq([k \in DOMAIN plan.graders[c] |->
      [r \in DOMAIN job[JobSeq(c)[i]].results |->
        [row |-> job[JobSeq(c)[i]].results[r], grader |-> plan.graders[c][k]]]])])

\* Pool waits for every job; one error fails the command.
PoolDone(c) ==
  /\ Runs(c)
  /\ Phase(c, "pool") /\ PoolEnded(c)
  /\ progress' = [progress EXCEPT ![c] =
       IF \E j \in PoolOf(c) : JobAt(j, "failed")
       THEN Nothing("failed")
       ELSE [phase |-> "grading", jobs |-> JobSeq(c), toGrade |-> GradingList(c)]]
  /\ job' = [j \in Jobs |-> IF j \in PoolOf(c) THEN [job[j] EXCEPT !.answer = "none", !.seen = {}]
                            ELSE job[j]]
  /\ UNCHANGED <<responses, grades, flagRows, service, faults, killed, plan>>

\* gradeWith for the next response of the list.
GradeNext(c) ==
  /\ Runs(c)
  /\ Phase(c, "grading") /\ service[c].at \in {"idle", "graded"}
  /\ \/ /\ progress[c].toGrade # <<>>
        /\ Grade(c, Head(progress[c].toGrade).row, Head(progress[c].toGrade).grader)
        /\ progress' = [progress EXCEPT ![c].toGrade = Tail(@)]
     \/ /\ progress[c].toGrade = <<>>
        /\ GoTo(c, IF plan.comparing[c] = <<>> THEN "done" ELSE "comparing")
        /\ service' = [service EXCEPT ![c] = Idle]
  /\ UNCHANGED <<responses, job, grades, flagRows, faults, killed, plan>>

\* The comparison of the next case.
CompareNext(c) ==
  /\ Runs(c)
  /\ Phase(c, "comparing") /\ service[c].at \in {"idle", "compared"}
  /\ \/ /\ progress[c].jobs # <<>>
        /\ Compare(c, plan.comparing[c])
        /\ progress' = [progress EXCEPT ![c].jobs = Tail(@)]
     \/ /\ progress[c].jobs = <<>>
        /\ GoTo(c, "done")
        /\ service' = [service EXCEPT ![c] = Idle]
  /\ UNCHANGED <<responses, job, grades, flagRows, faults, killed, plan>>

\* An error of a grading or a comparison ends the command.
Fail(c) ==
  /\ Runs(c)
  /\ GradingAt(c, "error")
  /\ GoTo(c, "failed")
  /\ service' = [service EXCEPT ![c] = Idle]
  /\ UNCHANGED <<responses, job, grades, flagRows, faults, killed, plan>>

\* What the process had in memory is gone, its rows stay.
Kill(c) ==
  /\ AnotherFault /\ Runs(c)
  /\ progress[c].phase \notin {"done", "failed"}
  /\ killed' = killed \cup {c}
  /\ job' = [j \in Jobs |-> IF j \in PoolOf(c) THEN [job[j] EXCEPT !.at = "failed", !.results = <<>>,
                                                                 !.answer = "none", !.seen = {}]
                            ELSE job[j]]
  /\ service' = [service EXCEPT ![c] = Idle]
  /\ progress' = [progress EXCEPT ![c] = Nothing("failed")]
  /\ UNCHANGED <<responses, grades, flagRows, faults, plan>>

Ended(c) == c \in killed \/ progress[c].phase \in {"done", "failed"}

AllEnded == (\A c \in Commands : Ended(c)) /\ UNCHANGED vars

Next ==
  \/ \E j \in Jobs : Generate(j)
  \/ \E c \in Commands : \/ Evaluate(c) \/ PoolDone(c) \/ GradeNext(c) \/ CompareNext(c)
                         \/ Fail(c) \/ Kill(c)
  \/ AllEnded

\* Model calls have deadlines and statements return: a goroutine or command
\* that can go on does.  Nothing makes a kill happen, and graders need not be
\* well-behaved: every retry is bounded by the code.
Fairness ==
  /\ \A j \in Jobs : WF_vars(Generate(j))
  /\ \A c \in Commands : WF_vars(Evaluate(c) \/ PoolDone(c) \/ GradeNext(c) \/ CompareNext(c) \/ Fail(c))

Spec == Init /\ [][Next]_vars /\ Fairness

\* Every command comes to an end unless it is killed: the pool comes back, no
\* job keeps its slot, no retry goes on, whatever the others and the grader do.
CommandsEnd == <>(\A c \in Commands : Ended(c))

\* The rows and the commands are well formed; one row for a prompt and its
\* repetition, one grade for a response and its grader, no flag without a grade.
EvaluationTypeOK == CacheTypeOK /\ GradingTypeOK
=============================================================================
