-------------------------- MODULE EvaluationProofs ---------------------------
(***************************************************************************)
(* Proofs about Evaluation for every set of jobs, commands, prompts,       *)
(* graders and plans, and every bound on slots and faults.                 *)
(***************************************************************************)
EXTENDS Evaluation, SequenceLemmas, FiniteSetTheorems

-----------------------------------------------------------------------------
(***************************************************************************)
(* The response cache.                                                     *)
(***************************************************************************)

JobFields == {"at", "cmd", "todo", "asked", "rep", "answer", "results", "seen"}

\* The highest repetition of a prompt is that of a row.
Numbered ==
  \A r \in responses :
    r.rep \in Nat /\ \E m \in responses : m.prompt = r.prompt /\ \A s \in responses : s.prompt = r.prompt => s.rep <= m.rep

\* No row that was there when the call of j began has the key of the call.
Unseen(j) == \A r \in job[j].seen : ~(r.prompt = Asked(j).prompt /\ r.rep = job[j].rep)

JobInv(j) ==
  /\ job[j].rep \in Nat
  /\ job[j].seen \subseteq responses
  /\ job[j].results \in Seq(responses)
  /\ job[j].at = "queued" => job[j].results = <<>>
  /\ job[j].at \in {"numbering", "lookup"} => job[j].answer = "none"
  /\ \/ job[j].at \in {"calling", "storing", "reusing"}
     \/ job[j].at = "lookup" /\ Asked(j).fresh
     => Unseen(j)
  /\ Returned(j) /\ job[j].answer # "none" => LastRow(j).by = j \/ LastRow(j) \notin job[j].seen
  /\ Returned(j) /\ Asked(j).fresh => LastRow(j) \notin job[j].seen

JobShape == DOMAIN job = Jobs /\ \A j \in Jobs : JobFields \subseteq DOMAIN job[j]

CacheInv == JobShape /\ Numbered /\ \A j \in Jobs : JobInv(j)

\* A longer table has the same sequences of rows, and more.
LEMMA SeqOfMore ==
  ASSUME NEW S, NEW T, S \subseteq T, NEW s \in Seq(S) PROVE s \in Seq(T)
  OBVIOUS

LEMMA EmptyIsSeq == \A S : <<>> \in Seq(S)
  OBVIOUS

LEMMA LastOfAppend ==
  ASSUME NEW S, NEW s \in Seq(S), NEW x \in S
  PROVE  /\ Append(s, x) \in Seq(S) /\ Append(s, x) # <<>>
         /\ Append(s, x)[Len(Append(s, x))] = x
  OBVIOUS

\* A new repetition is higher than those of the prompt.
LEMMA NextIsHigher ==
  ASSUME Numbered, NEW p
  PROVE  NextRepetition(p) \in Nat /\ \A r \in responses : r.prompt = p => r.rep < NextRepetition(p)
<1>1. CASE OfPrompt(p) = {}
  BY <1>1 DEF NextRepetition, OfPrompt
<1>2. CASE OfPrompt(p) # {}
  <2> DEFINE highest(n) == n \in {r.rep : r \in OfPrompt(p)} /\ \A r \in OfPrompt(p) : r.rep <= n
  <2>1. \E n : highest(n)
    BY <1>2 DEF Numbered, OfPrompt
  <2>2. highest(CHOOSE n \in {r.rep : r \in OfPrompt(p)} : \A r \in OfPrompt(p) : r.rep <= n)
    BY <2>1
  <2>3. PICK n : highest(n) /\ NextRepetition(p) = 1 + n
    BY <1>2, <2>2 DEF NextRepetition
  <2>4. n \in Nat
    BY <2>3 DEF Numbered, OfPrompt
  <2>5. QED
    BY <2>3, <2>4 DEF Numbered, OfPrompt
<1>3. QED
  BY <1>1, <1>2

\* A job that stays as it is, while rows are added.
LEMMA JobStays ==
  ASSUME NEW j \in Jobs, JobInv(j), job'[j] = job[j], responses \subseteq responses'
  PROVE  JobInv(j)'
<1>1. job[j].results \in Seq(responses')
  BY SeqOfMore DEF JobInv
<1>2. QED
  BY <1>1 DEF JobInv, Unseen, Asked, Returned, LastRow

LEMMA NumberedKept ==
  ASSUME Numbered, NEW x, x.rep \in Nat, responses' = responses \cup {x}
  PROVE  Numbered'
<1>1. \A r \in responses' : r.rep \in Nat
  BY DEF Numbered
<1>2. ASSUME NEW r \in responses'
      PROVE  \E m \in responses' : m.prompt = r.prompt /\ \A s \in responses' : s.prompt = r.prompt => s.rep <= m.rep
  <2>1. CASE \A s \in responses : s.prompt # r.prompt
    <3>1. r = x
      BY <1>2, <2>1
    <3>2. QED
      BY <1>1, <2>1, <3>1
  <2>2. CASE \E s \in responses : s.prompt = r.prompt
    <3>1. PICK m \in responses : m.prompt = r.prompt /\ \A s \in responses : s.prompt = r.prompt => s.rep <= m.rep
      BY <2>2 DEF Numbered
    <3>2. CASE x.prompt = r.prompt /\ m.rep < x.rep
      BY <1>1, <3>1, <3>2
    <3>3. CASE ~(x.prompt = r.prompt /\ m.rep < x.rep)
      BY <1>1, <3>1, <3>3
    <3>4. QED
      BY <3>2, <3>3
  <2>3. QED
    BY <2>1, <2>2
<1>3. QED
  BY <1>1, <1>2 DEF Numbered

\* What a step of j comes to.
JobKept(j) ==
  /\ DOMAIN job' = Jobs /\ \A k \in Jobs \ {j} : job'[k] = job[k]
  /\ JobFields \subseteq DOMAIN job'[j]
  /\ responses \subseteq responses' /\ Numbered'
  /\ JobInv(j)'

\* A step of j that adds no row.
LEMMA Unadded ==
  ASSUME CacheInv, NEW j \in Jobs, UNCHANGED responses
  PROVE  responses \subseteq responses' /\ Numbered'
  BY DEF CacheInv, Numbered

LEMMA Goes ==
  ASSUME CacheInv, NEW j \in Jobs, UNCHANGED responses, NEW step, step \notin {"queued", "starting", "done"}, JobGo(j, step),
         step \in {"numbering", "lookup"} => job[j].answer = "none",
         step \in {"calling", "storing", "reusing", "lookup"} => Unseen(j)
  PROVE  JobKept(j)
<1>1. responses \subseteq responses' /\ Numbered'
  BY Unadded
<1>2. DOMAIN job' = Jobs /\ \A k \in Jobs \ {j} : job'[k] = job[k]
  BY DEF CacheInv, JobShape, JobGo
<1>3. /\ JobFields \subseteq DOMAIN job'[j]
      /\ job'[j].at = step /\ job'[j].asked = job[j].asked /\ job'[j].rep = job[j].rep
      /\ job'[j].answer = job[j].answer /\ job'[j].results = job[j].results /\ job'[j].seen = job[j].seen
  BY DEF CacheInv, JobShape, JobGo, JobFields
<1>4. JobInv(j)'
  BY <1>1, <1>3 DEF CacheInv, JobInv, Unseen, Asked, Returned, LastRow
<1>5. QED
  BY <1>1, <1>2, <1>3, <1>4 DEF JobKept

\* The call returns row, which has its key.
LEMMA Returns ==
  ASSUME CacheInv, NEW j \in Jobs, NEW row \in responses', responses \subseteq responses', Numbered',
         row.prompt = Asked(j).prompt, row.rep = job[j].rep,
         job[j].at \in {"lookup", "storing", "reusing"}, Return(j, row)
  PROVE  JobKept(j)
<1>1. DOMAIN job' = Jobs /\ \A k \in Jobs \ {j} : job'[k] = job[k]
  BY DEF CacheInv, JobShape, Return
<1>2. /\ JobFields \subseteq DOMAIN job'[j]
      /\ job'[j].at \in {"done", "starting"} /\ job'[j].asked = job[j].asked /\ job'[j].rep = job[j].rep
      /\ job'[j].answer = job[j].answer /\ job'[j].seen = job[j].seen
      /\ job'[j].results = Append(job[j].results, row)
  BY DEF CacheInv, JobShape, Return, JobFields
<1>3. job[j].results \in Seq(responses')
  BY SeqOfMore DEF CacheInv, JobInv
<1>4. job'[j].results \in Seq(responses') /\ LastRow(j)' = row
  BY <1>2, <1>3, LastOfAppend DEF LastRow
<1>5. job[j].answer # "none" \/ Asked(j).fresh => row \notin job[j].seen
  BY DEF CacheInv, JobInv, Unseen
<1>6. JobInv(j)'
  BY <1>2, <1>4, <1>5 DEF CacheInv, JobInv, Asked
<1>7. QED
  BY <1>1, <1>2, <1>6 DEF JobKept

LEMMA TakeSlotKeeps ==
  ASSUME CacheInv, NEW j \in Jobs, TakeSlot(j) PROVE JobKept(j)
<1>1. responses \subseteq responses' /\ Numbered'
  BY Unadded DEF TakeSlot
<1>2. DOMAIN job' = Jobs /\ \A k \in Jobs \ {j} : job'[k] = job[k]
  BY DEF CacheInv, JobShape, TakeSlot, JobGo
<1>3. /\ JobFields \subseteq DOMAIN job'[j]
      /\ job'[j].at = "starting" /\ job'[j].rep = job[j].rep
      /\ job'[j].results = <<>> /\ job'[j].seen = job[j].seen
  BY DEF CacheInv, JobShape, JobInv, TakeSlot, JobAt, JobGo, JobFields
<1>4. JobInv(j)'
  BY <1>1, <1>3 DEF CacheInv, JobInv, Returned
<1>5. QED
  BY <1>1, <1>2, <1>3, <1>4 DEF JobKept

LEMMA StartRequestKeeps ==
  ASSUME CacheInv, NEW j \in Jobs, StartRequest(j) PROVE JobKept(j)
<1>1. responses \subseteq responses' /\ Numbered'
  BY Unadded DEF StartRequest
<1>2. DOMAIN job' = Jobs /\ \A k \in Jobs \ {j} : job'[k] = job[k]
  BY DEF CacheInv, JobShape, StartRequest
<1> DEFINE request == Head(job[j].todo)
          step == IF request.prompt \notin Supported THEN "failed"
                  ELSE IF request.fresh THEN "numbering" ELSE "lookup"
<1>3. /\ job' = [job EXCEPT ![j].at = step, ![j].todo = Tail(@), ![j].asked = request, ![j].rep = 0,
                            ![j].answer = "none", ![j].seen = responses]
      /\ responses' = responses
  BY ZenonT(20) DEF StartRequest
<1>7. step \in {"failed", "numbering", "lookup"} /\ (step = "lookup" => ~request.fresh)
  OBVIOUS
<1> HIDE DEF request, step
<1>4. /\ JobFields \subseteq DOMAIN job'[j]
      /\ job'[j].at = step /\ job'[j].rep = 0 /\ job'[j].asked = request /\ job'[j].answer = "none"
      /\ job'[j].results = job[j].results /\ job'[j].seen = responses
  BY <1>3 DEF CacheInv, JobShape, JobFields
<1>5. JobInv(j)'
  <2>1. ~Returned(j)'
    BY <1>4, <1>7 DEF Returned
  <2>2. ~(job'[j].at = "lookup" /\ Asked(j)'.fresh)
    BY <1>4, <1>7 DEF Asked
  <2>3. job'[j].results \in Seq(responses') /\ job'[j].seen \subseteq responses'
    BY <1>3, <1>4 DEF CacheInv, JobInv
  <2>4. QED
    BY <1>4, <1>7, <2>1, <2>2, <2>3 DEF JobInv
<1>6. QED
  BY <1>1, <1>2, <1>4, <1>5 DEF JobKept

LEMMA NumberKeeps ==
  ASSUME CacheInv, NEW j \in Jobs, Number(j) PROVE JobKept(j)
<1>1. job[j].at = "numbering" /\ UNCHANGED responses
  BY DEF Number, JobAt
<1>2. CASE JobGo(j, "failed")
  BY <1>1, <1>2, Goes
<1>3. CASE job' = [job EXCEPT ![j].at = "lookup", ![j].rep = NextRepetition(Asked(j).prompt)]
  <2>1. responses \subseteq responses' /\ Numbered'
    BY <1>1, Unadded
  <2>2. DOMAIN job' = Jobs /\ \A k \in Jobs \ {j} : job'[k] = job[k]
    BY <1>3 DEF CacheInv, JobShape
  <2>3. /\ JobFields \subseteq DOMAIN job'[j]
        /\ job'[j].at = "lookup" /\ job'[j].rep = NextRepetition(Asked(j).prompt)
        /\ job'[j].asked = job[j].asked /\ job'[j].answer = job[j].answer
        /\ job'[j].results = job[j].results /\ job'[j].seen = job[j].seen
    BY <1>3 DEF CacheInv, JobShape, JobFields
  <2>4. /\ NextRepetition(Asked(j).prompt) \in Nat
        /\ \A r \in responses : r.prompt = Asked(j).prompt => r.rep < NextRepetition(Asked(j).prompt)
    BY NextIsHigher DEF CacheInv
  <2>5. \A r \in job[j].seen : r \in responses /\ r.rep \in Nat
    BY DEF CacheInv, JobInv, Numbered
  <2>6. Unseen(j)'
    BY <2>3, <2>4, <2>5 DEF Unseen, Asked
  <2>7. JobInv(j)'
    BY <1>1, <2>1, <2>3, <2>4, <2>6 DEF CacheInv, JobInv, Returned
  <2>8. QED
    BY <2>1, <2>2, <2>3, <2>7 DEF JobKept
<1>4. QED
  BY <1>2, <1>3 DEF Number

LEMMA LookupKeeps ==
  ASSUME CacheInv, NEW j \in Jobs, Lookup(j) PROVE JobKept(j)
<1>1. job[j].at = "lookup" /\ UNCHANGED responses
  BY DEF Lookup, JobAt
<1>2. responses \subseteq responses' /\ Numbered'
  BY <1>1, Unadded
<1>3. CASE JobGo(j, "failed")
  BY <1>1, <1>3, Goes
<1>4. ASSUME NEW row \in WithKey(Asked(j).prompt, job[j].rep), Return(j, row) PROVE JobKept(j)
  BY <1>1, <1>2, <1>4, Returns DEF WithKey, OfPrompt
<1>5. CASE WithKey(Asked(j).prompt, job[j].rep) = {} /\ JobGo(j, "calling")
  <2>1. Unseen(j)
    BY <1>5 DEF CacheInv, JobInv, Unseen, WithKey, OfPrompt
  <2>2. QED
    BY <1>1, <1>5, <2>1, Goes
<1>6. QED
  BY <1>3, <1>4, <1>5 DEF Lookup

LEMMA AnswerKeeps ==
  ASSUME CacheInv, NEW j \in Jobs, NEW k, Answer(j, k) PROVE JobKept(j)
<1>1. job[j].at = "calling" /\ job' = [job EXCEPT ![j].at = "storing", ![j].answer = k] /\ UNCHANGED responses
  BY DEF Answer, JobAt
<1>2. responses \subseteq responses' /\ Numbered'
  BY <1>1, Unadded
<1>3. DOMAIN job' = Jobs /\ \A i \in Jobs \ {j} : job'[i] = job[i]
  BY <1>1 DEF CacheInv, JobShape
<1>4. /\ JobFields \subseteq DOMAIN job'[j]
      /\ job'[j].at = "storing" /\ job'[j].rep = job[j].rep /\ job'[j].asked = job[j].asked
      /\ job'[j].results = job[j].results /\ job'[j].seen = job[j].seen
  BY <1>1 DEF CacheInv, JobShape, JobFields
<1>5. JobInv(j)'
  BY <1>1, <1>2, <1>4 DEF CacheInv, JobInv, Unseen, Asked, Returned
<1>6. QED
  BY <1>2, <1>3, <1>4, <1>5 DEF JobKept

LEMMA InsertKeeps ==
  ASSUME CacheInv, NEW j \in Jobs, Insert(j) PROVE JobKept(j)
<1>1. job[j].at = "storing"
  BY DEF Insert, JobAt
<1>2. CASE JobGo(j, "reusing") /\ UNCHANGED responses
  BY <1>1, <1>2, Goes DEF CacheInv, JobInv
<1>3. CASE responses' = responses \cup {NewRow(j)} /\ Return(j, NewRow(j))
  <2>1. NewRow(j).prompt = Asked(j).prompt /\ NewRow(j).rep = job[j].rep /\ NewRow(j).rep \in Nat
    BY DEF NewRow, CacheInv, JobInv
  <2>2. Numbered'
    BY <1>3, <2>1, NumberedKept DEF CacheInv
  <2>3. NewRow(j) \in responses' /\ responses \subseteq responses'
    BY <1>3
  <2>4. QED
    BY <1>1, <1>3, <2>1, <2>2, <2>3, Returns
<1>4. QED
  BY <1>2, <1>3 DEF Insert

LEMMA ReuseKeeps ==
  ASSUME CacheInv, NEW j \in Jobs, Reuse(j) PROVE JobKept(j)
<1>1. job[j].at = "reusing" /\ UNCHANGED responses
  BY DEF Reuse, JobAt
<1>2. responses \subseteq responses' /\ Numbered'
  BY <1>1, Unadded
<1>3. CASE JobGo(j, "failed")
  BY <1>1, <1>3, Goes
<1>4. ASSUME NEW row \in WithKey(Asked(j).prompt, job[j].rep), Return(j, row) PROVE JobKept(j)
  BY <1>1, <1>2, <1>4, Returns DEF WithKey, OfPrompt
<1>5. QED
  BY <1>3, <1>4 DEF Reuse

LEMMA CacheInit == Init => CacheInv
<1> SUFFICES ASSUME Init PROVE CacheInv
  OBVIOUS
<1>1. Numbered
  BY PlanConstants DEF Init, Numbered, Row
<1>2. ASSUME NEW j \in Jobs
      PROVE  /\ JobFields \subseteq DOMAIN job[j]
             /\ job[j].at = "queued" /\ job[j].rep = 0 /\ job[j].answer = "none"
             /\ job[j].results = <<>> /\ job[j].seen = {}
  BY <1>2 DEF Init, Queued, JobFields
<1>3. ASSUME NEW j \in Jobs PROVE JobInv(j)
  <2>1. job[j].results \in Seq(responses)
    BY <1>2, EmptyIsSeq
  <2>2. ~Returned(j) /\ job[j].seen \subseteq responses /\ job[j].rep \in Nat
    BY <1>2 DEF Returned
  <2>3. QED
    BY <1>2, <2>1, <2>2 DEF JobInv
<1>4. QED
  BY <1>1, <1>2, <1>3 DEF CacheInv, JobShape, Init

LEMMA GenerateKeeps ==
  ASSUME CacheInv, NEW j \in Jobs, JobStep(j) PROVE CacheInv'
<1>1. JobKept(j)
  BY TakeSlotKeeps, StartRequestKeeps, NumberKeeps, LookupKeeps, AnswerKeeps, InsertKeeps, ReuseKeeps DEF JobStep
<1>2. ASSUME NEW k \in Jobs, k # j PROVE JobInv(k)'
  BY <1>1, <1>2, JobStays DEF CacheInv, JobKept
<1>3. QED
  BY <1>1, <1>2 DEF CacheInv, JobShape, JobKept

\* The pool's end and a kill forget what the calls have seen.
LEMMA Forgotten ==
  ASSUME CacheInv, NEW P, UNCHANGED responses,
         job' = [j \in Jobs |-> IF j \in P THEN [job[j] EXCEPT !.answer = "none", !.seen = {}] ELSE job[j]]
  PROVE  CacheInv'
<1>1. Numbered'
  BY DEF CacheInv, Numbered
<1>2. ASSUME NEW j \in Jobs, j \in P
      PROVE  /\ JobFields \subseteq DOMAIN job'[j]
             /\ job'[j].at = job[j].at /\ job'[j].rep = job[j].rep /\ job'[j].answer = "none"
             /\ job'[j].results = job[j].results /\ job'[j].seen = {} /\ job'[j].asked = job[j].asked
  BY <1>2 DEF CacheInv, JobShape, JobFields
<1>3. ASSUME NEW j \in Jobs, j \in P PROVE JobInv(j)'
  BY <1>2, <1>3 DEF CacheInv, JobInv, Unseen, Returned
<1>4. ASSUME NEW j \in Jobs, j \notin P PROVE JobInv(j)'
  BY <1>4, JobStays DEF CacheInv
<1>5. QED
  BY <1>1, <1>2, <1>3, <1>4 DEF CacheInv, JobShape

LEMMA KilledJobs ==
  ASSUME CacheInv, NEW P, UNCHANGED responses,
         job' = [j \in Jobs |-> IF j \in P THEN [job[j] EXCEPT !.at = "failed", !.results = <<>>,
                                                              !.answer = "none", !.seen = {}]
                                ELSE job[j]]
  PROVE  CacheInv'
<1>1. Numbered'
  BY DEF CacheInv, Numbered
<1>2. ASSUME NEW j \in Jobs, j \in P
      PROVE  /\ JobFields \subseteq DOMAIN job'[j]
             /\ job'[j].at = "failed" /\ job'[j].rep = job[j].rep /\ job'[j].answer = "none"
             /\ job'[j].results = <<>> /\ job'[j].seen = {}
  BY <1>2 DEF CacheInv, JobShape, JobFields
<1>3. ASSUME NEW j \in Jobs, j \in P PROVE JobInv(j)'
  <2>1. job'[j].results \in Seq(responses')
    BY <1>2, <1>3, EmptyIsSeq
  <2>2. ~Returned(j)' /\ job'[j].seen \subseteq responses' /\ job'[j].rep \in Nat
    BY <1>2, <1>3 DEF CacheInv, JobInv, Returned
  <2>3. QED
    BY <1>2, <1>3, <2>1, <2>2 DEF JobInv
<1>4. ASSUME NEW j \in Jobs, j \notin P PROVE JobInv(j)'
  BY <1>4, JobStays DEF CacheInv
<1>5. QED
  BY <1>1, <1>2, <1>3, <1>4 DEF CacheInv, JobShape

LEMMA CacheUntouched ==
  ASSUME CacheInv, UNCHANGED <<responses, job>> PROVE CacheInv'
<1>1. \A j \in Jobs : JobInv(j)'
  BY JobStays DEF CacheInv
<1>2. QED
  BY <1>1 DEF CacheInv, JobShape, Numbered

LEMMA CacheNext == CacheInv /\ [Next]_vars => CacheInv'
<1> SUFFICES ASSUME CacheInv, [Next]_vars PROVE CacheInv'
  OBVIOUS
<1>1. ASSUME NEW j \in Jobs, Generate(j) PROVE CacheInv'
  BY <1>1, GenerateKeeps DEF Generate
<1>2. ASSUME NEW c \in Commands, Evaluate(c) \/ GradeNext(c) \/ CompareNext(c) \/ Fail(c) PROVE CacheInv'
  BY <1>2, CacheUntouched DEF Evaluate, GradeNext, CompareNext, Fail
<1>3. ASSUME NEW c \in Commands, PoolDone(c) PROVE CacheInv'
  BY <1>3, Forgotten DEF PoolDone
<1>4. ASSUME NEW c \in Commands, Kill(c) PROVE CacheInv'
  BY <1>4, KilledJobs DEF Kill
<1>5. CASE UNCHANGED vars
  BY <1>5, CacheUntouched DEF vars
<1>6. QED
  BY <1>1, <1>2, <1>3, <1>4, <1>5 DEF Next, AllEnded

LEMMA CacheInvariant == Spec => []CacheInv
  BY CacheInit, CacheNext, PTL DEF Spec

\* GenerateResponse with --fresh never returns a row that was in the table
\* when it began, however many processes work on the same prompt.
THEOREM FreshIsNewHolds == Spec => []FreshIsNew
<1>1. CacheInv => FreshIsNew
  BY DEF CacheInv, JobInv, FreshIsNew
<1>2. QED
  BY <1>1, CacheInvariant, PTL

\* A GenerateResponse that has called the model returns its own row, or one
\* that another stored since the call began.
THEOREM NoWastedCallHolds == Spec => []NoWastedCall
<1>1. CacheInv => NoWastedCall
  BY DEF CacheInv, JobInv, NoWastedCall
<1>2. QED
  BY <1>1, CacheInvariant, PTL

-----------------------------------------------------------------------------
(***************************************************************************)
(* Grading.                                                                *)
(***************************************************************************)

GradeSteps == {"lookup", "listing", "asking", "inserting", "reconciling", "filing", "graded"}

PairSteps == {"comparing", "reversing", "decided"}

GradeFields == {"at", "resp", "grader", "found", "toFile", "retried", "row", "flags"}

PairFields == {"at", "graders", "sides", "rows", "retried"}

UniqueGrades == \A r, s \in grades : r.resp = s.resp /\ r.grader = s.grader => r = s

\* The row of a grader's first call of the model.
FirstRow(r) == r.shown \in Letters /\ r.verdict \in Verdicts /\ r.side = Normalise(r.verdict, r.shown)

DecidedAtOnce(rows) == \E r : rows = <<r>> /\ FirstRow(r) /\ r.final = TRUE /\ r.side \in Sides

Reversed(r, t) ==
  /\ t.verdict \in Verdicts /\ t.final = TRUE
  /\ t.side = IF r.side = Normalise(t.verdict, OtherLetter(r.shown)) /\ r.side \in Sides THEN r.side ELSE "tie"

DecidedInTwo(rows) == \E r, t : rows = <<r, t>> /\ FirstRow(r) /\ r.final = FALSE /\ Reversed(r, t)

\* What holds of a call, with the grades there are.
CallOk(call, stored) ==
  /\ "at" \in DOMAIN call
  /\ call.at \in GradeSteps => GradeFields \subseteq DOMAIN call
  /\ call.at \in {"listing", "reconciling", "filing", "graded"} =>
       call.row \in stored /\ call.row.resp = call.resp /\ call.row.grader = call.grader
  /\ call.at \in PairSteps => PairFields \subseteq DOMAIN call
  /\ call.at = "comparing" => call.rows = <<>>
  /\ call.at = "reversing" => \E r : call.rows = <<r>> /\ FirstRow(r) /\ r.final = FALSE
  /\ call.at = "decided" => DecidedAtOnce(call.rows) \/ DecidedInTwo(call.rows)

GradingInv ==
  /\ UniqueGrades
  /\ DOMAIN service = Commands
  /\ \A c \in Commands : CallOk(service[c], grades)

\* A step of c leaves the calls of the others alone.
LEMMA CallMoves ==
  ASSUME GradingInv, NEW c \in Commands, NEW call, service' = [service EXCEPT ![c] = call],
         CallOk(call, grades'), grades \subseteq grades', UniqueGrades'
  PROVE  GradingInv'
<1>1. DOMAIN service' = Commands /\ service'[c] = call /\ \A d \in Commands \ {c} : service'[d] = service[d]
  BY DEF GradingInv
<1>2. ASSUME NEW d \in Commands \ {c} PROVE CallOk(service'[d], grades')
  BY <1>1, <1>2 DEF GradingInv, CallOk
<1>3. QED
  BY <1>1, <1>2 DEF GradingInv

LEMMA CallGoes ==
  ASSUME GradingInv, NEW c \in Commands, NEW call, service' = [service EXCEPT ![c] = call],
         CallOk(call, grades), UNCHANGED grades
  PROVE  GradingInv'
<1>1. UniqueGrades'
  BY DEF GradingInv, UniqueGrades
<1>2. QED
  BY <1>1, CallMoves

\* A call that has failed, and one that is over.
LEMMA CallFails ==
  ASSUME GradingInv, NEW c \in Commands, GradingGo(c, "error"), UNCHANGED grades PROVE GradingInv'
<1> DEFINE call == [service[c] EXCEPT !.at = "error"]
<1>1. service' = [service EXCEPT ![c] = call]
  BY DEF GradingGo
<1>2. "at" \in DOMAIN call /\ call.at = "error"
  BY DEF GradingInv, CallOk
<1> HIDE DEF call
<1>3. CallOk(call, grades)
  BY <1>2 DEF CallOk, GradeSteps, PairSteps
<1>4. QED
  BY <1>1, <1>3, CallGoes

LEMMA CallEnds ==
  ASSUME GradingInv, NEW c \in Commands, service' = [service EXCEPT ![c] = Idle], UNCHANGED grades PROVE GradingInv'
<1>1. CallOk(Idle, grades)
  BY DEF CallOk, Idle, GradeSteps, PairSteps
<1>2. QED
  BY <1>1, CallGoes

LEMMA GradeBegins ==
  ASSUME GradingInv, NEW c \in Commands, NEW resp, NEW g, Grade(c, resp, g), UNCHANGED grades PROVE GradingInv'
<1> DEFINE call == [at |-> "lookup", resp |-> resp, grader |-> g, found |-> NoGrade, toFile |-> {},
                    retried |-> FALSE, stored |-> FALSE, row |-> NoGrade, flags |-> {}]
<1>1. service' = [service EXCEPT ![c] = call]
  BY DEF Grade
<1>2. GradeFields \subseteq DOMAIN call /\ call.at = "lookup"
  BY DEF GradeFields
<1> HIDE DEF call
<1>3. CallOk(call, grades)
  BY <1>2 DEF CallOk, GradeFields, GradeSteps, PairSteps
<1>4. QED
  BY <1>1, <1>3, CallGoes

LEMMA CompareBegins ==
  ASSUME GradingInv, NEW c \in Commands, NEW graders, Compare(c, graders), UNCHANGED grades PROVE GradingInv'
<1> DEFINE call == [at |-> "comparing", graders |-> graders, sides |-> <<>>, rows |-> <<>>, retried |-> FALSE]
<1>1. service' = [service EXCEPT ![c] = call]
  BY DEF Compare
<1>2. PairFields \subseteq DOMAIN call /\ call.at = "comparing" /\ call.rows = <<>>
  BY DEF PairFields
<1> HIDE DEF call
<1>3. CallOk(call, grades)
  BY <1>2 DEF CallOk, PairFields, GradeSteps, PairSteps
<1>4. QED
  BY <1>1, <1>3, CallGoes

\* The call of c at a step of Grade, and one it goes to.
LEMMA StaysGraded ==
  ASSUME NEW call, NEW stored, NEW next, CallOk(call, stored), call.at \in GradeSteps,
         next.at \in GradeSteps, DOMAIN next = DOMAIN call,
         next.resp = call.resp, next.grader = call.grader,
         next.at \in {"listing", "reconciling", "filing", "graded"} =>
           next.row \in stored /\ next.row.resp = call.resp /\ next.row.grader = call.grader
  PROVE  CallOk(next, stored)
  BY DEF CallOk, GradeSteps, PairSteps

LEMMA LookupGradeKeeps ==
  ASSUME GradingInv, NEW c \in Commands, LookupGrade(c) PROVE GradingInv'
<1>1. service[c].at = "lookup" /\ CallOk(service[c], grades) /\ GradeFields \subseteq DOMAIN service[c]
  BY DEF LookupGrade, GradingAt, GradingInv, CallOk, GradeSteps
<1>2. UNCHANGED grades
  BY DEF LookupGrade
<1>3. ASSUME NEW row \in GradesOf(service[c].resp, service[c].grader),
             service' = [service EXCEPT ![c].at = "listing", ![c].row = row]
      PROVE  GradingInv'
  <2> DEFINE call == [service[c] EXCEPT !.at = "listing", !.row = row]
  <2>1. service' = [service EXCEPT ![c] = call]
    BY <1>3
  <2>2. /\ DOMAIN call = DOMAIN service[c] /\ call.at = "listing" /\ call.row = row
        /\ call.resp = service[c].resp /\ call.grader = service[c].grader
    BY <1>1 DEF GradeFields
  <2>3. row \in grades /\ row.resp = service[c].resp /\ row.grader = service[c].grader
    BY DEF GradesOf
  <2> HIDE DEF call
  <2>4. CallOk(call, grades)
    BY <1>1, <2>2, <2>3, StaysGraded DEF GradeSteps
  <2>5. QED
    BY <1>2, <2>1, <2>4, CallGoes
<1>4. CASE GradingGo(c, "asking")
  <2> DEFINE call == [service[c] EXCEPT !.at = "asking"]
  <2>1. service' = [service EXCEPT ![c] = call]
    BY <1>4 DEF GradingGo
  <2>2. /\ DOMAIN call = DOMAIN service[c] /\ call.at = "asking"
        /\ call.resp = service[c].resp /\ call.grader = service[c].grader
    BY <1>1 DEF GradeFields
  <2> HIDE DEF call
  <2>3. CallOk(call, grades)
    BY <1>1, <2>2, StaysGraded DEF GradeSteps
  <2>4. QED
    BY <1>2, <2>1, <2>3, CallGoes
<1>5. QED
  BY <1>3, <1>4 DEF LookupGrade, Call

RowSteps == {"listing", "reconciling", "filing", "graded"}

\* A step of Grade that leaves the response, the grader and the row alone.
LEMMA GradeGoes ==
  ASSUME GradingInv, NEW c \in Commands, UNCHANGED grades, service[c].at \in GradeSteps,
         NEW next, service' = [service EXCEPT ![c] = next],
         next.at \in GradeSteps, DOMAIN next = DOMAIN service[c],
         next.resp = service[c].resp, next.grader = service[c].grader,
         next.at \in RowSteps => service[c].at \in RowSteps /\ next.row = service[c].row
  PROVE  GradingInv'
<1>1. CallOk(service[c], grades)
  BY DEF GradingInv
<1>2. CallOk(next, grades)
  BY <1>1 DEF CallOk, GradeSteps, PairSteps, RowSteps
<1>3. QED
  BY <1>2, CallGoes

LEMMA ListFlagsKeeps ==
  ASSUME GradingInv, NEW c \in Commands, ListFlags(c) PROVE GradingInv'
<1>1. service[c].at = "listing" /\ UNCHANGED grades /\ GradeFields \subseteq DOMAIN service[c]
  BY DEF ListFlags, GradingAt, GradingInv, CallOk, GradeSteps
<1> DEFINE found == FlagsOf(Call(c).resp, Call(c).grader)
           next == [service[c] EXCEPT !.at = "graded", !.flags = found]
<1>2. GradingGo(c, "error") \/ service' = [service EXCEPT ![c] = next]
  BY DEF ListFlags
<1>3. /\ DOMAIN next = DOMAIN service[c] /\ next.at = "graded" /\ next.row = service[c].row
      /\ next.resp = service[c].resp /\ next.grader = service[c].grader
  BY <1>1 DEF GradeFields
<1> HIDE DEF next
<1>4. QED
  BY <1>1, <1>2, <1>3, GradeGoes, CallFails DEF GradeSteps, RowSteps

LEMMA AskGraderKeeps ==
  ASSUME GradingInv, NEW c \in Commands, AskGrader(c) PROVE GradingInv'
<1>1. service[c].at = "asking" /\ UNCHANGED grades /\ GradeFields \subseteq DOMAIN service[c]
  BY DEF AskGrader, GradingAt, GradingInv, CallOk, GradeSteps
<1>2. ASSUME NEW found, service' = [service EXCEPT ![c].at = "inserting", ![c].retried = FALSE, ![c].found = found]
      PROVE  GradingInv'
  <2> DEFINE next == [service[c] EXCEPT !.at = "inserting", !.retried = FALSE, !.found = found]
  <2>1. service' = [service EXCEPT ![c] = next]
    BY <1>2
  <2>2. /\ DOMAIN next = DOMAIN service[c] /\ next.at = "inserting"
        /\ next.resp = service[c].resp /\ next.grader = service[c].grader
    BY <1>1 DEF GradeFields
  <2> HIDE DEF next
  <2>3. QED
    BY <1>1, <2>1, <2>2, GradeGoes DEF GradeSteps, RowSteps
<1>3. CASE service' = [service EXCEPT ![c].retried = TRUE]
  <2> DEFINE next == [service[c] EXCEPT !.retried = TRUE]
  <2>1. service' = [service EXCEPT ![c] = next]
    BY <1>3
  <2>2. /\ DOMAIN next = DOMAIN service[c] /\ next.at = "asking"
        /\ next.resp = service[c].resp /\ next.grader = service[c].grader
    BY <1>1 DEF GradeFields
  <2> HIDE DEF next
  <2>3. QED
    BY <1>1, <2>1, <2>2, GradeGoes DEF GradeSteps, RowSteps
<1>4. QED
  BY <1>1, <1>2, <1>3, CallFails DEF AskGrader, Accept

LEMMA InsertGradeKeeps ==
  ASSUME GradingInv, NEW c \in Commands, InsertGrade(c) PROVE GradingInv'
<1>1. service[c].at = "inserting" /\ GradeFields \subseteq DOMAIN service[c] /\ CallOk(service[c], grades)
  BY DEF InsertGrade, GradingAt, GradingInv, CallOk, GradeSteps
<1> DEFINE key == GradesOf(Call(c).resp, Call(c).grader)
           new == [resp |-> Call(c).resp, grader |-> Call(c).grader, by |-> c,
                   scores |-> Call(c).found.scores, flagged |-> Call(c).found.flagged]
<1>2. ASSUME NEW row \in grades', row.resp = service[c].resp, row.grader = service[c].grader,
             NEW next, service' = [service EXCEPT ![c] = next],
             DOMAIN next = DOMAIN service[c], next.at = "reconciling", next.row = row,
             next.resp = service[c].resp, next.grader = service[c].grader,
             grades \subseteq grades', UniqueGrades'
      PROVE  GradingInv'
  <2>1. CallOk(next, grades')
    BY <1>1, <1>2 DEF CallOk, GradeSteps, PairSteps
  <2>2. QED
    BY <1>2, <2>1, CallMoves
<1>3. ASSUME key = {}, grades' = grades \cup {new},
             service' = [service EXCEPT ![c].at = "reconciling", ![c].stored = TRUE, ![c].row = new]
      PROVE  GradingInv'
  <2>1. new.resp = service[c].resp /\ new.grader = service[c].grader
    BY DEF Call
  <2>2. \A r \in grades : ~(r.resp = new.resp /\ r.grader = new.grader)
    BY <1>3, <2>1 DEF GradesOf, Call
  <2> HIDE DEF new
  <2> DEFINE next == [service[c] EXCEPT !.at = "reconciling", !.stored = TRUE, !.row = new]
  <2>3. UniqueGrades'
    BY <1>3, <2>2 DEF GradingInv, UniqueGrades
  <2>4. service' = [service EXCEPT ![c] = next]
    BY <1>3
  <2>5. /\ DOMAIN next = DOMAIN service[c] /\ next.at = "reconciling" /\ next.row = new
        /\ next.resp = service[c].resp /\ next.grader = service[c].grader
    BY <1>1 DEF GradeFields
  <2> HIDE DEF next
  <2>6. QED
    BY <1>2, <1>3, <2>1, <2>3, <2>4, <2>5
<1>4. ASSUME NEW row \in key, UNCHANGED grades,
             service' = [service EXCEPT ![c].at = "reconciling", ![c].row = row]
      PROVE  GradingInv'
  <2> DEFINE next == [service[c] EXCEPT !.at = "reconciling", !.row = row]
  <2>1. row \in grades' /\ row.resp = service[c].resp /\ row.grader = service[c].grader
    BY <1>4 DEF GradesOf, Call
  <2>2. UniqueGrades'
    BY <1>4 DEF GradingInv, UniqueGrades
  <2>3. service' = [service EXCEPT ![c] = next]
    BY <1>4
  <2>4. /\ DOMAIN next = DOMAIN service[c] /\ next.at = "reconciling" /\ next.row = row
        /\ next.resp = service[c].resp /\ next.grader = service[c].grader
    BY <1>1 DEF GradeFields
  <2> HIDE DEF next
  <2>5. QED
    BY <1>2, <1>4, <2>1, <2>2, <2>3, <2>4
<1>5. QED
  BY <1>3, <1>4, CallFails DEF InsertGrade

LEMMA ReconcileKeeps ==
  ASSUME GradingInv, NEW c \in Commands, Reconcile(c) PROVE GradingInv'
<1>1. service[c].at = "reconciling" /\ UNCHANGED grades /\ GradeFields \subseteq DOMAIN service[c]
  BY DEF Reconcile, GradingAt, GradingInv, CallOk, GradeSteps
<1> DEFINE stored == FlagsOf(Call(c).resp, Call(c).grader)
           step == IF Call(c).found.flagged = {} THEN "graded" ELSE "filing"
           known == [service[c] EXCEPT !.at = "graded", !.flags = stored]
           unknown == [service[c] EXCEPT !.at = step, !.toFile = Call(c).found.flagged]
<1>2. service' = [service EXCEPT ![c] = known] \/ service' = [service EXCEPT ![c] = unknown]
  BY DEF Reconcile
<1>3. step \in {"graded", "filing"}
  OBVIOUS
<1> HIDE DEF step, stored
<1>4. /\ DOMAIN known = DOMAIN service[c] /\ known.at = "graded" /\ known.row = service[c].row
      /\ known.resp = service[c].resp /\ known.grader = service[c].grader
  BY <1>1 DEF GradeFields
<1>5. /\ DOMAIN unknown = DOMAIN service[c] /\ unknown.at = step /\ unknown.row = service[c].row
      /\ unknown.resp = service[c].resp /\ unknown.grader = service[c].grader
  BY <1>1 DEF GradeFields
<1> HIDE DEF known, unknown
<1>6. CASE service' = [service EXCEPT ![c] = known]
  BY <1>1, <1>4, <1>6, GradeGoes DEF GradeSteps, RowSteps
<1>7. CASE service' = [service EXCEPT ![c] = unknown]
  BY <1>1, <1>3, <1>5, <1>7, GradeGoes DEF GradeSteps, RowSteps
<1>8. QED
  BY <1>2, <1>6, <1>7

LEMMA FileFlagKeeps ==
  ASSUME GradingInv, NEW c \in Commands, FileFlag(c) PROVE GradingInv'
<1>1. service[c].at = "filing" /\ UNCHANGED grades /\ GradeFields \subseteq DOMAIN service[c]
  BY DEF FileFlag, GradingAt, GradingInv, CallOk, GradeSteps
<1>2. ASSUME NEW flag,
             service' = [service EXCEPT ![c].at = IF Call(c).toFile = {flag} THEN "graded" ELSE "filing",
                                        ![c].toFile = @ \ {flag}, ![c].flags = @ \cup {flag}]
      PROVE  GradingInv'
  <2> DEFINE step == IF Call(c).toFile = {flag} THEN "graded" ELSE "filing"
             next == [service[c] EXCEPT !.at = step, !.toFile = @ \ {flag}, !.flags = @ \cup {flag}]
  <2>1. service' = [service EXCEPT ![c] = next]
    BY <1>2
  <2>2. step \in {"graded", "filing"}
    OBVIOUS
  <2> HIDE DEF step
  <2>3. /\ DOMAIN next = DOMAIN service[c] /\ next.at = step /\ next.row = service[c].row
        /\ next.resp = service[c].resp /\ next.grader = service[c].grader
    BY <1>1 DEF GradeFields
  <2> HIDE DEF next
  <2>4. QED
    BY <1>1, <2>1, <2>2, <2>3, GradeGoes DEF GradeSteps, RowSteps
<1>3. QED
  BY <1>1, <1>2, CallFails DEF FileFlag, WithFlag

LEMMA AppendFirst == \A x : Append(<<>>, x) = <<x>>
<1>1. ASSUME NEW x PROVE Append(<<>>, x) = <<x>>
  <2>1. <<>> \in Seq({x}) /\ Len(<<>>) = 0
    OBVIOUS
  <2> DEFINE s == Append(<<>>, x)
  <2>2. s \in Seq({x}) /\ Len(s) = 1 /\ s[1] = x
    BY <2>1, AppendProperties
  <2> HIDE DEF s
  <2>3. s = <<x>>
    BY <2>2
  <2>4. QED
    BY <2>3 DEF s
<1>2. QED
  BY <1>1

LEMMA AppendSecond == \A x, y : Append(<<x>>, y) = <<x, y>>
<1>1. ASSUME NEW x, NEW y PROVE Append(<<x>>, y) = <<x, y>>
  <2>1. <<x>> \in Seq({x, y}) /\ Len(<<x>>) = 1 /\ <<x>>[1] = x
    OBVIOUS
  <2> DEFINE s == Append(<<x>>, y)
  <2>2. s \in Seq({x, y}) /\ Len(s) = 2 /\ s[1] = x /\ s[2] = y
    BY <2>1, AppendProperties
  <2> HIDE DEF s
  <2>3. s = <<x, y>>
    BY <2>2
  <2>4. QED
    BY <2>3 DEF s
<1>2. QED
  BY <1>1

LEMMA PairwiseBadKeeps ==
  ASSUME GradingInv, NEW c \in Commands, PairwiseBad(c) PROVE GradingInv'
<1>1. service[c].at \in {"comparing", "reversing"} /\ UNCHANGED grades /\ CallOk(service[c], grades)
      /\ PairFields \subseteq DOMAIN service[c]
  BY DEF PairwiseBad, Call, GradingInv, CallOk, PairSteps
<1>2. CASE service' = [service EXCEPT ![c].retried = TRUE]
  <2> DEFINE next == [service[c] EXCEPT !.retried = TRUE]
  <2>1. service' = [service EXCEPT ![c] = next]
    BY <1>2
  <2>2. DOMAIN next = DOMAIN service[c] /\ next.at = service[c].at /\ next.rows = service[c].rows
    BY <1>1 DEF PairFields
  <2> HIDE DEF next
  <2>3. CallOk(next, grades)
    BY <1>1, <2>2 DEF CallOk, GradeSteps, PairSteps
  <2>4. QED
    BY <1>1, <2>1, <2>3, CallGoes
<1>3. QED
  BY <1>1, <1>2, CallFails DEF PairwiseBad

LEMMA CompareFirstKeeps ==
  ASSUME GradingInv, NEW c \in Commands, CompareFirst(c) PROVE GradingInv'
<1>1. service[c].at = "comparing" /\ UNCHANGED grades /\ service[c].rows = <<>>
      /\ PairFields \subseteq DOMAIN service[c]
  BY DEF CompareFirst, GradingAt, GradingInv, CallOk, PairSteps
<1>2. PICK shown \in Letters, verdict \in Verdicts, margin \in {"clear", "close"} :
        StoreRow(c, [shown |-> shown, verdict |-> verdict, side |-> Normalise(verdict, shown),
                     reversal |-> FALSE, final |-> ~NeedsReversal(verdict, margin)])
  BY DEF CompareFirst
<1> DEFINE row == [shown |-> shown, verdict |-> verdict, side |-> Normalise(verdict, shown),
                   reversal |-> FALSE, final |-> ~NeedsReversal(verdict, margin)]
           step == IF row.final THEN "decided" ELSE "reversing"
           next == [service[c] EXCEPT !.at = step, !.rows = Append(@, row), !.retried = FALSE]
<1>3. GradingGo(c, "error") \/ service' = [service EXCEPT ![c] = next]
  BY <1>2 DEF StoreRow
<1>4. FirstRow(row)
  BY DEF FirstRow
<1>5. \/ row.final = FALSE /\ step = "reversing"
      \/ row.final = TRUE /\ step = "decided" /\ row.side \in Sides
  <2>1. row.final = ~NeedsReversal(verdict, margin) /\ row.side = Normalise(verdict, shown)
    OBVIOUS
  <2>2. CASE NeedsReversal(verdict, margin)
    BY <2>2
  <2>3. CASE ~NeedsReversal(verdict, margin)
    <3>1. verdict \in Letters
      BY <2>3 DEF NeedsReversal, Verdicts
    <3>2. Normalise(verdict, shown) \in Sides
      BY <3>1 DEF Normalise, Letters, Sides
    <3>3. QED
      BY <2>1, <2>3, <3>2
  <2>4. QED
    BY <2>2, <2>3
<1> HIDE DEF row, step
<1>6. DOMAIN next = DOMAIN service[c] /\ next.at = step /\ next.rows = <<row>>
  BY <1>1, AppendFirst DEF PairFields
<1> HIDE DEF next
<1>7. CallOk(next, grades)
  BY <1>1, <1>4, <1>5, <1>6 DEF CallOk, GradeSteps, PairSteps, PairFields, DecidedAtOnce
<1>8. QED
  BY <1>1, <1>3, <1>7, CallGoes, CallFails

LEMMA CompareReversedKeeps ==
  ASSUME GradingInv, NEW c \in Commands, CompareReversed(c) PROVE GradingInv'
<1>1. service[c].at = "reversing" /\ UNCHANGED grades /\ PairFields \subseteq DOMAIN service[c]
  BY DEF CompareReversed, GradingAt, GradingInv, CallOk, PairSteps
<1>2. PICK first : service[c].rows = <<first>> /\ FirstRow(first) /\ first.final = FALSE
  BY <1>1 DEF GradingInv, CallOk
<1>3. service[c].rows[1] = first
  BY <1>2
<1> DEFINE shown == OtherLetter(first.shown)
           Row2(verdict) == [shown |-> shown, verdict |-> verdict,
                   side |-> IF first.side = Normalise(verdict, shown) /\ first.side \in Sides THEN first.side ELSE "tie",
                   reversal |-> TRUE, final |-> TRUE]
<1>4. PICK verdict \in Verdicts : StoreRow(c, Row2(verdict))
  BY <1>3 DEF CompareReversed, Call
<1> DEFINE row == Row2(verdict)
           next == [service[c] EXCEPT !.at = "decided", !.rows = Append(@, row), !.retried = FALSE]
<1>5. row.final = TRUE
  OBVIOUS
<1>6. GradingGo(c, "error") \/ service' = [service EXCEPT ![c] = next]
  BY <1>4 DEF StoreRow
<1>7. Reversed(first, row)
  BY DEF Reversed
<1> HIDE DEF row
<1>8. DOMAIN next = DOMAIN service[c] /\ next.at = "decided" /\ next.rows = <<first, row>>
  BY <1>1, <1>2, AppendSecond DEF PairFields
<1> HIDE DEF next
<1>9. CallOk(next, grades)
  BY <1>1, <1>2, <1>7, <1>8 DEF CallOk, GradeSteps, PairSteps, PairFields, DecidedInTwo
<1>10. QED
  BY <1>1, <1>6, <1>9, CallGoes, CallFails

LEMMA NextGraderKeeps ==
  ASSUME GradingInv, NEW c \in Commands, NextGrader(c) PROVE GradingInv'
<1>1. service[c].at = "decided" /\ UNCHANGED grades /\ PairFields \subseteq DOMAIN service[c]
  BY DEF NextGrader, GradingAt, GradingInv, CallOk, PairSteps
<1> DEFINE step == IF Len(Call(c).sides) = 1 THEN "compared" ELSE "comparing"
           next == [service[c] EXCEPT !.at = step, !.sides = Append(@, FinalSide(c)), !.rows = <<>>]
<1>2. service' = [service EXCEPT ![c] = next]
  BY DEF NextGrader
<1>3. step \in {"compared", "comparing"}
  OBVIOUS
<1> HIDE DEF step
<1>4. DOMAIN next = DOMAIN service[c] /\ next.at = step /\ next.rows = <<>>
  BY <1>1 DEF PairFields
<1> HIDE DEF next
<1>5. CallOk(next, grades)
  BY <1>1, <1>3, <1>4 DEF CallOk, GradeSteps, PairSteps, PairFields
<1>6. QED
  BY <1>1, <1>2, <1>5, CallGoes

LEMMA GradingInit == Init => GradingInv
<1> SUFFICES ASSUME Init PROVE GradingInv
  OBVIOUS
<1>1. CallOk(Idle, grades)
  BY DEF CallOk, Idle, GradeSteps, PairSteps
<1>2. QED
  BY <1>1 DEF Init, GradingInv, UniqueGrades

LEMMA GradingUntouched ==
  ASSUME GradingInv, UNCHANGED <<grades, service>> PROVE GradingInv'
  BY DEF GradingInv, UniqueGrades

LEMMA GradingNext == GradingInv /\ [Next]_vars => GradingInv'
<1> SUFFICES ASSUME GradingInv, [Next]_vars PROVE GradingInv'
  OBVIOUS
<1>1. ASSUME NEW j \in Jobs, Generate(j) PROVE GradingInv'
  BY <1>1, GradingUntouched DEF Generate
<1>2. ASSUME NEW c \in Commands, Evaluate(c) PROVE GradingInv'
  BY <1>2, LookupGradeKeeps, ListFlagsKeeps, AskGraderKeeps, InsertGradeKeeps, ReconcileKeeps, FileFlagKeeps,
     PairwiseBadKeeps, CompareFirstKeeps, CompareReversedKeeps, NextGraderKeeps DEF Evaluate, GradingStep
<1>3. ASSUME NEW c \in Commands, PoolDone(c) PROVE GradingInv'
  BY <1>3, GradingUntouched DEF PoolDone
<1>4. ASSUME NEW c \in Commands, GradeNext(c) PROVE GradingInv'
  BY <1>4, GradeBegins, CallEnds DEF GradeNext
<1>5. ASSUME NEW c \in Commands, CompareNext(c) PROVE GradingInv'
  BY <1>5, CompareBegins, CallEnds DEF CompareNext
<1>6. ASSUME NEW c \in Commands, Fail(c) PROVE GradingInv'
  BY <1>6, CallEnds DEF Fail
<1>7. ASSUME NEW c \in Commands, Kill(c) PROVE GradingInv'
  BY <1>7, CallEnds DEF Kill
<1>8. CASE UNCHANGED vars
  BY <1>8, GradingUntouched DEF vars
<1>9. QED
  BY <1>1, <1>2, <1>3, <1>4, <1>5, <1>6, <1>7, <1>8 DEF Next, AllEnded

LEMMA GradingInvariant == Spec => []GradingInv
  BY GradingInit, GradingNext, PTL DEF Spec

\* Whichever command stored the grade of a response, and whatever its own
\* grader had said, Service.Grade returns the row that is in the table.
THEOREM SameGradeForAllHolds == Spec => []SameGradeForAll
<1>1. ASSUME GradingInv, NEW c \in Commands, GradingAt(c, "graded")
      PROVE  GradesOf(Call(c).resp, Call(c).grader) = {Call(c).row}
  <2>1. service[c].row \in grades /\ service[c].row.resp = service[c].resp /\ service[c].row.grader = service[c].grader
    BY <1>1 DEF GradingInv, CallOk, GradingAt
  <2>2. QED
    BY <1>1, <2>1 DEF GradingInv, UniqueGrades, GradesOf, Call
<1>2. GradingInv => SameGradeForAll
  BY <1>1 DEF SameGradeForAll
<1>3. QED
  BY <1>2, GradingInvariant, PTL

\* In two calls a grader decides for a response only by naming two letters,
\* for the one it named both times: what Service.Compare makes of the reversal.
THEOREM PositionBiasIsATieHolds == Spec => []PositionBiasIsATie
<1>1. ASSUME GradingInv, NEW c \in Commands, GradingAt(c, "decided"), Len(Call(c).rows) = 2
      PROVE  FinalSide(c) = IF /\ Call(c).rows[1].verdict \in Letters
                               /\ Call(c).rows[2].verdict = OtherLetter(Call(c).rows[1].verdict)
                            THEN IF Call(c).rows[1].verdict = Call(c).rows[1].shown THEN "left" ELSE "right"
                            ELSE "tie"
  <2>1. DecidedAtOnce(Call(c).rows) \/ DecidedInTwo(Call(c).rows)
    BY <1>1 DEF GradingInv, CallOk, GradingAt, Call
  <2>2. DecidedInTwo(Call(c).rows)
    BY <1>1, <2>1 DEF DecidedAtOnce
  <2>3. PICK r, t : Call(c).rows = <<r, t>> /\ FirstRow(r) /\ Reversed(r, t)
    BY <2>2 DEF DecidedInTwo
  <2>4. Call(c).rows[1] = r /\ Call(c).rows[2] = t /\ FinalSide(c) = t.side
    BY <2>3 DEF FinalSide
  <2>5. t.side = IF r.verdict \in Letters /\ t.verdict = OtherLetter(r.verdict)
                 THEN IF r.verdict = r.shown THEN "left" ELSE "right"
                 ELSE "tie"
    BY <2>3 DEF FirstRow, Reversed, Normalise, OtherLetter, Letters, Verdicts, Sides
  <2>6. QED
    BY <2>4, <2>5
<1>2. GradingInv => PositionBiasIsATie
  BY <1>1 DEF PositionBiasIsATie
<1>3. QED
  BY <1>2, GradingInvariant, PTL

\* Service.Compare stores one final row per grader, the last one, and stores
\* it at once only for a clear verdict: what the reports count.
THEOREM OneFinalPerGraderHolds == Spec => []OneFinalPerGrader
<1>1. ASSUME GradingInv, NEW c \in Commands, Call(c).at \in {"comparing", "reversing", "decided"}
      PROVE  LET rows == Call(c).rows IN
             /\ Cardinality({i \in DOMAIN rows : rows[i].final}) = IF GradingAt(c, "decided") THEN 1 ELSE 0
             /\ GradingAt(c, "decided") => /\ rows[Len(rows)].final
                                           /\ FinalSide(c) \in {"left", "right"} \/ Len(rows) = 2
  <2> DEFINE rows == Call(c).rows
             finals == {i \in DOMAIN rows : rows[i].final}
  <2>1. CASE Call(c).at = "comparing"
    <3>1. rows = <<>>
      BY <1>1, <2>1 DEF GradingInv, CallOk, Call
    <3>2. finals = {}
      BY <3>1
    <3>3. QED
      BY <2>1, <3>2, FS_EmptySet DEF GradingAt, Call
  <2>2. CASE Call(c).at = "reversing"
    <3>1. PICK r : rows = <<r>> /\ r.final = FALSE
      BY <1>1, <2>2 DEF GradingInv, CallOk, Call
    <3>2. finals = {}
      BY <3>1
    <3>3. QED
      BY <2>2, <3>2, FS_EmptySet DEF GradingAt, Call
  <2>3. CASE Call(c).at = "decided" /\ DecidedAtOnce(rows)
    <3>1. PICK r : rows = <<r>> /\ r.final = TRUE /\ r.side \in Sides
      BY <2>3 DEF DecidedAtOnce
    <3>2. finals = {1} /\ rows[Len(rows)] = r
      BY <3>1
    <3>3. FinalSide(c) \in {"left", "right"}
      BY <3>1, <3>2 DEF FinalSide, Sides
    <3>4. QED
      BY <2>3, <3>1, <3>2, <3>3, FS_Singleton DEF GradingAt, Call
  <2>4. CASE Call(c).at = "decided" /\ DecidedInTwo(rows)
    <3>1. PICK r, t : rows = <<r, t>> /\ r.final = FALSE /\ t.final = TRUE
      BY <2>4 DEF DecidedInTwo, Reversed
    <3>2. finals = {2} /\ rows[Len(rows)] = t /\ Len(rows) = 2
      BY <3>1
    <3>3. QED
      BY <2>4, <3>1, <3>2, FS_Singleton DEF GradingAt, Call
  <2>5. QED
    BY <1>1, <2>1, <2>2, <2>3, <2>4 DEF GradingInv, CallOk, Call
<1>2. GradingInv => OneFinalPerGrader
  BY <1>1 DEF OneFinalPerGrader
<1>3. QED
  BY <1>2, GradingInvariant, PTL

-----------------------------------------------------------------------------
(***************************************************************************)
(* The flags of a grade.                                                   *)
(***************************************************************************)

\* The rows of a table of flags for the response and grader of x, which is a
\* call or a grade: another command than c filed one, or they make up set.
FlagsFor(x, table) == {f \in table : f.resp = x.resp /\ f.grader = x.grader}

FlagsAre(x, c, set, table) ==
  \/ \E f \in FlagsFor(x, table) : f.by # c
  \/ {f.flag : f \in FlagsFor(x, table)} = set

\* The call of c that has stored its grade, from the insert to the last flag.
Filing(call, c, table) ==
  /\ call.row.by = c
  /\ call.at = "reconciling" =>
       call.flags = {} /\ call.row.flagged = call.found.flagged /\ FlagsAre(call, c, {}, table)
  /\ call.at = "filing" =>
       call.toFile # {} /\ call.toFile \cup call.flags = call.row.flagged /\ FlagsAre(call, c, call.flags, table)
  /\ call.at = "graded" =>
       \/ \E f \in FlagsFor(call, table) : f.by # c
       \/ call.flags = call.row.flagged /\ FlagsAre(call, c, call.flags, table)

Whole(call, c, table) ==
  /\ call.at \in GradeSteps => "stored" \in DOMAIN call
  /\ call.at \in {"lookup", "listing", "asking", "inserting"} => ~call.stored /\ call.flags = {}
  /\ call.at \in {"reconciling", "filing", "graded"} /\ call.stored => Filing(call, c, table)

\* While no statement has failed c asks only for grades it has not stored, and
\* is told of all flags of one it has.
Candid(call, c, rows, table) ==
  /\ call.at \in {"asking", "inserting"} =>
       \A r \in rows : r.resp = call.resp /\ r.grader = call.grader => r.by # c
  /\ call.at \in {"reconciling", "filing"} /\ call.row.by = c => call.stored
  /\ call.at = "graded" /\ call.row.by = c => FlagsAre(call, c, call.flags, table)

\* The call stores grade r and is not done with it.
Storing(call, r) == call.at \in {"reconciling", "filing"} /\ call.stored /\ call.row = r

WholeCall(c) ==
  /\ Whole(service[c], c, flagRows)
  /\ faults = 0 => Candid(service[c], c, grades, flagRows)
  /\ c \in killed => service[c].at = "idle"

\* While no statement has failed a grade has its flags, unless another command
\* filed one in their place, or the command that stored it is at it or was killed.
FiledBy(c) ==
  faults = 0 => \A r \in grades : r.by = c =>
    c \in killed \/ Storing(service[c], r) \/ FlagsAre(r, c, r.flagged, flagRows)

FlagsHaveGrades == \A f \in flagRows : \E r \in grades : r.resp = f.resp /\ r.grader = f.grader

WholeInv ==
  /\ faults \in Nat
  /\ \A c \in Commands : WholeCall(c) /\ FiledBy(c)
  /\ FlagsHaveGrades

\* Flags by c on another grade, and those by others, leave what is true.
LEMMA FlagsStay ==
  ASSUME NEW x, NEW c, NEW set, NEW table, NEW more, table \subseteq more, FlagsAre(x, c, set, table),
         \A f \in more : f \in table \/ f.by # c \/ ~ (f.resp = x.resp /\ f.grader = x.grader)
  PROVE  FlagsAre(x, c, set, more)
<1>1. CASE \E f \in FlagsFor(x, more) : f.by # c
  BY <1>1 DEF FlagsAre
<1>2. CASE \A f \in FlagsFor(x, more) : f.by = c
  <2>1. FlagsFor(x, more) = FlagsFor(x, table)
    BY <1>2 DEF FlagsFor
  <2>2. \A f \in FlagsFor(x, table) : f.by = c
    BY <1>2, <2>1
  <2>3. QED
    BY <2>1, <2>2 DEF FlagsAre
<1>3. QED
  BY <1>1, <1>2

LEMMA FilingStays ==
  ASSUME NEW call, NEW c, NEW table, NEW more, table \subseteq more, Filing(call, c, table),
         \A f \in more : f \in table \/ f.by # c
  PROVE  Filing(call, c, more)
<1>1. \A set : FlagsAre(call, c, set, table) => FlagsAre(call, c, set, more)
  BY FlagsStay
<1>2. FlagsFor(call, table) \subseteq FlagsFor(call, more)
  BY DEF FlagsFor
<1>3. QED
  BY <1>1, <1>2 DEF Filing

LEMMA CandidStays ==
  ASSUME NEW call, NEW c, NEW table, NEW more, table \subseteq more, NEW rows, NEW moreRows,
         Candid(call, c, rows, table),
         \A f \in more : f \in table \/ f.by # c,
         \A r \in moreRows : r \in rows \/ r.by # c
  PROVE  Candid(call, c, moreRows, more)
<1>1. \A set : FlagsAre(call, c, set, table) => FlagsAre(call, c, set, more)
  BY FlagsStay
<1>2. QED
  BY <1>1 DEF Candid

\* What a step of c leaves of the tables and of the other commands.
Adds(c) ==
  /\ flagRows \subseteq flagRows' /\ \A f \in flagRows' : f \in flagRows \/ f.by = c
  /\ grades \subseteq grades' /\ \A r \in grades' : r \in grades \/ r.by = c
  /\ faults' \in Nat /\ (faults' = 0 => faults = 0)
  /\ killed \subseteq killed' /\ killed' \subseteq killed \cup {c}
  /\ \A d \in Commands \ {c} : service'[d] = service[d]
  /\ FlagsHaveGrades'

LEMMA OthersWhole ==
  ASSUME WholeInv, NEW c, Adds(c), NEW d \in Commands \ {c}
  PROVE  WholeCall(d)' /\ FiledBy(d)'
<1>1. \A f \in flagRows' : f \in flagRows \/ f.by # d
  BY DEF Adds
<1>2. \A r \in grades' : r \in grades \/ r.by # d
  BY DEF Adds
<1>3. service'[d] = service[d] /\ flagRows \subseteq flagRows' /\ (d \in killed' <=> d \in killed)
      /\ (faults' = 0 => faults = 0)
  BY DEF Adds
<1>4. Whole(service[d], d, flagRows) => Whole(service[d], d, flagRows')
  BY <1>1, <1>3, FilingStays DEF Whole
<1>5. Candid(service[d], d, grades, flagRows) => Candid(service[d], d, grades', flagRows')
  BY <1>1, <1>2, <1>3, CandidStays
<1>6. WholeCall(d)'
  BY <1>3, <1>4, <1>5 DEF WholeInv, WholeCall
<1>7. ASSUME faults' = 0, NEW r \in grades', r.by = d
      PROVE  d \in killed' \/ Storing(service'[d], r) \/ FlagsAre(r, d, r.flagged, flagRows')
  <2>1. r \in grades
    BY <1>2, <1>7
  <2>2. d \in killed \/ Storing(service[d], r) \/ FlagsAre(r, d, r.flagged, flagRows)
    BY <1>3, <1>7, <2>1 DEF WholeInv, FiledBy
  <2>3. FlagsAre(r, d, r.flagged, flagRows) => FlagsAre(r, d, r.flagged, flagRows')
    BY <1>1, <1>3, FlagsStay
  <2>4. QED
    BY <1>3, <2>2, <2>3
<1>8. QED
  BY <1>6, <1>7 DEF FiledBy

LEMMA WholeMoves ==
  ASSUME WholeInv, NEW c \in Commands, Adds(c), WholeCall(c)', FiledBy(c)'
  PROVE  WholeInv'
  BY OthersWhole DEF WholeInv, Adds

\* A step of c that leaves the tables alone, other than to the end of a call
\* that has stored its grade.
LEMMA WholeGoes ==
  ASSUME WholeInv, NEW c \in Commands, UNCHANGED <<grades, flagRows, killed>>, c \notin killed,
         faults' \in Nat, faults' = 0 => faults = 0,
         NEW next, service' = [service EXCEPT ![c] = next], DOMAIN service = Commands,
         Whole(next, c, flagRows),
         faults' = 0 => Candid(next, c, grades, flagRows),
         faults' = 0 /\ service[c].at \in {"reconciling", "filing"} /\ service[c].stored =>
           \/ Storing(next, service[c].row)
           \/ FlagsAre(service[c].row, c, service[c].row.flagged, flagRows)
  PROVE  WholeInv'
<1>1. service'[c] = next /\ \A d \in Commands \ {c} : service'[d] = service[d]
  OBVIOUS
<1>2. Adds(c)
  <2>1. FlagsHaveGrades'
    BY DEF WholeInv, FlagsHaveGrades
  <2>2. QED
    BY <1>1, <2>1 DEF Adds
<1>3. WholeCall(c)'
  BY <1>1 DEF WholeCall
<1>4. FiledBy(c)'
  BY <1>1 DEF WholeInv, FiledBy, Storing
<1>5. QED
  BY <1>2, <1>3, <1>4, WholeMoves

LEMMA Attempts ==
  ASSUME faults \in Nat, NEW ok \in BOOLEAN, Attempt(ok)
  PROVE  faults' \in Nat /\ (faults' = 0 => faults = 0) /\ (~ok => faults' # 0)
<1>1. faults' = IF ok THEN faults ELSE faults + 1
  BY DEF Attempt
<1>2. QED
  BY <1>1

\* A call that is not, or no longer, one of Grade.
LEMMA WholeLeaves ==
  ASSUME WholeInv, NEW c \in Commands, UNCHANGED <<grades, flagRows, killed>>, c \notin killed,
         faults' \in Nat, faults' = 0 => faults = 0,
         NEW next, service' = [service EXCEPT ![c] = next], DOMAIN service = Commands,
         next.at \notin GradeSteps,
         faults' = 0 => service[c].at \notin {"reconciling", "filing"}
  PROVE  WholeInv'
<1>1. Whole(next, c, flagRows) /\ Candid(next, c, grades, flagRows)
  BY DEF Whole, Candid, GradeSteps
<1>2. QED
  BY <1>1, WholeGoes

LEMMA WholeFails ==
  ASSUME WholeInv, GradingInv, NEW c \in Commands, UNCHANGED <<grades, flagRows, killed>>, c \notin killed,
         faults' \in Nat, faults' = 0 => faults = 0, GradingGo(c, "error"),
         faults' = 0 => service[c].at \notin {"reconciling", "filing"}
  PROVE  WholeInv'
<1> DEFINE call == [service[c] EXCEPT !.at = "error"]
<1>1. service' = [service EXCEPT ![c] = call]
  BY DEF GradingGo
<1>2. call.at = "error" /\ DOMAIN service = Commands
  BY DEF GradingInv, CallOk
<1> HIDE DEF call
<1>3. QED
  BY <1>1, <1>2, WholeLeaves DEF GradeSteps

\* What is known of the call of c in a step of Grade.
LEMMA InGrade ==
  ASSUME WholeInv, GradingInv, NEW c \in Commands, service[c].at \in GradeSteps
  PROVE  /\ GradeFields \cup {"stored"} \subseteq DOMAIN service[c] /\ DOMAIN service = Commands
         /\ Whole(service[c], c, flagRows)
         /\ faults = 0 => Candid(service[c], c, grades, flagRows)
         /\ faults \in Nat
         /\ service[c].at \in {"reconciling", "filing"} =>
              service[c].row \in grades /\ service[c].row.resp = service[c].resp /\ service[c].row.grader = service[c].grader
<1>1. CallOk(service[c], grades) /\ WholeCall(c)
  BY DEF GradingInv, WholeInv
<1>2. QED
  BY <1>1 DEF CallOk, WholeCall, Whole, GradingInv, WholeInv

LEMMA LookupIsWhole ==
  ASSUME WholeInv, GradingInv, NEW c \in Commands, c \notin killed, UNCHANGED killed, LookupGrade(c)
  PROVE  WholeInv'
<1>1. service[c].at = "lookup" /\ UNCHANGED <<grades, flagRows>>
  BY DEF LookupGrade, GradingAt
<1>2. service[c].at \in GradeSteps
  BY <1>1 DEF GradeSteps
<1>4. PICK ok \in BOOLEAN :
        /\ Attempt(ok)
        /\ \/ ok /\ \E row \in GradesOf(service[c].resp, service[c].grader) :
                service' = [service EXCEPT ![c].at = "listing", ![c].row = row]
           \/ (~ok \/ GradesOf(service[c].resp, service[c].grader) = {}) /\ GradingGo(c, "asking")
  BY DEF LookupGrade, Call
<1>5. faults' \in Nat /\ (faults' = 0 => faults = 0) /\ (~ok => faults' # 0)
  BY <1>4, Attempts DEF WholeInv
<1>6. ASSUME NEW row, service' = [service EXCEPT ![c].at = "listing", ![c].row = row] PROVE WholeInv'
  <2> DEFINE next == [service[c] EXCEPT !.at = "listing", !.row = row]
  <2>1. service' = [service EXCEPT ![c] = next]
    BY <1>6
  <2>2. /\ DOMAIN next = DOMAIN service[c] /\ next.at = "listing"
        /\ next.stored = service[c].stored /\ next.flags = service[c].flags
    BY <1>2, InGrade DEF GradeFields
  <2> HIDE DEF next
  <2>3. Whole(next, c, flagRows) /\ Candid(next, c, grades, flagRows)
    BY <1>1, <1>2, <2>2, InGrade DEF Whole, Candid
  <2>4. QED
    BY <1>1, <1>2, <1>5, <2>1, <2>3, InGrade, WholeGoes
<1>7. CASE (~ok \/ GradesOf(service[c].resp, service[c].grader) = {}) /\ GradingGo(c, "asking")
  <2> DEFINE next == [service[c] EXCEPT !.at = "asking"]
  <2>1. service' = [service EXCEPT ![c] = next]
    BY <1>7 DEF GradingGo
  <2>2. /\ DOMAIN next = DOMAIN service[c] /\ next.at = "asking"
        /\ next.resp = service[c].resp /\ next.grader = service[c].grader
        /\ next.stored = service[c].stored /\ next.flags = service[c].flags
    BY <1>2, InGrade DEF GradeFields
  <2> HIDE DEF next
  <2>3. Whole(next, c, flagRows)
    BY <1>1, <1>2, <2>2, InGrade DEF Whole
  <2>4. faults' = 0 => Candid(next, c, grades, flagRows)
    BY <1>5, <1>7, <2>2 DEF Candid, GradesOf
  <2>5. QED
    BY <1>1, <1>2, <1>5, <2>1, <2>3, <2>4, InGrade, WholeGoes
<1>8. QED
  BY <1>4, <1>6, <1>7

\* FlagsOf is what the flags of a call come to.
LEMMA FlagsOfCall ==
  ASSUME NEW x PROVE FlagsOf(x.resp, x.grader) = {f.flag : f \in FlagsFor(x, flagRows)}
  BY DEF FlagsOf, FlagsFor

LEMMA ListFlagsIsWhole ==
  ASSUME WholeInv, GradingInv, NEW c \in Commands, c \notin killed, UNCHANGED killed, ListFlags(c)
  PROVE  WholeInv'
<1>1. service[c].at = "listing" /\ UNCHANGED <<grades, flagRows>>
  BY DEF ListFlags, GradingAt
<1>2. service[c].at \in GradeSteps
  BY <1>1 DEF GradeSteps
<1> DEFINE found == FlagsOf(Call(c).resp, Call(c).grader)
           next == [service[c] EXCEPT !.at = "graded", !.flags = found]
<1>3. PICK ok \in BOOLEAN : Attempt(ok) /\ (GradingGo(c, "error") \/ service' = [service EXCEPT ![c] = next])
  BY DEF ListFlags
<1>4. faults' \in Nat /\ (faults' = 0 => faults = 0)
  BY <1>3, Attempts DEF WholeInv
<1>5. /\ DOMAIN next = DOMAIN service[c] /\ next.at = "graded" /\ next.flags = found
      /\ next.resp = service[c].resp /\ next.grader = service[c].grader /\ next.stored = service[c].stored
  BY <1>2, InGrade DEF GradeFields
<1> HIDE DEF next
<1>6. next.flags = {f.flag : f \in FlagsFor(next, flagRows)}
  BY <1>5, FlagsOfCall DEF Call
<1>7. Whole(next, c, flagRows) /\ Candid(next, c, grades, flagRows)
  BY <1>1, <1>2, <1>5, <1>6, InGrade DEF Whole, Candid, FlagsAre
<1>8. CASE service' = [service EXCEPT ![c] = next]
  BY <1>1, <1>2, <1>4, <1>7, <1>8, InGrade, WholeGoes
<1>9. QED
  BY <1>1, <1>3, <1>4, <1>8, WholeFails

LEMMA AskGraderIsWhole ==
  ASSUME WholeInv, GradingInv, NEW c \in Commands, c \notin killed, UNCHANGED killed, AskGrader(c)
  PROVE  WholeInv'
<1>1. service[c].at = "asking" /\ UNCHANGED <<grades, flagRows, faults>>
  BY DEF AskGrader, GradingAt
<1>2. service[c].at \in GradeSteps
  BY <1>1 DEF GradeSteps
<1>3. ASSUME NEW next, service' = [service EXCEPT ![c] = next], next.at \in {"asking", "inserting"},
             DOMAIN next = DOMAIN service[c], next.stored = service[c].stored, next.flags = service[c].flags,
             next.resp = service[c].resp, next.grader = service[c].grader
      PROVE  WholeInv'
  <2>1. Whole(next, c, flagRows)
    BY <1>1, <1>2, <1>3, InGrade DEF Whole
  <2>2. faults' = 0 => Candid(next, c, grades, flagRows)
    BY <1>1, <1>2, <1>3, InGrade DEF Candid
  <2>3. faults' \in Nat /\ (faults' = 0 => faults = 0)
    BY <1>1 DEF WholeInv
  <2>4. QED
    BY <1>1, <1>2, <1>3, <2>1, <2>2, <2>3, InGrade, WholeGoes
<1>4. ASSUME NEW found, service' = [service EXCEPT ![c].at = "inserting", ![c].retried = FALSE, ![c].found = found]
      PROVE  WholeInv'
  <2> DEFINE next == [service[c] EXCEPT !.at = "inserting", !.retried = FALSE, !.found = found]
  <2>1. service' = [service EXCEPT ![c] = next]
    BY <1>4
  <2>2. /\ DOMAIN next = DOMAIN service[c] /\ next.at = "inserting"
        /\ next.resp = service[c].resp /\ next.grader = service[c].grader
        /\ next.stored = service[c].stored /\ next.flags = service[c].flags
    BY <1>2, InGrade DEF GradeFields
  <2> HIDE DEF next
  <2>3. QED
    BY <1>3, <2>1, <2>2
<1>5. CASE service' = [service EXCEPT ![c].retried = TRUE]
  <2> DEFINE next == [service[c] EXCEPT !.retried = TRUE]
  <2>1. service' = [service EXCEPT ![c] = next]
    BY <1>5
  <2>2. /\ DOMAIN next = DOMAIN service[c] /\ next.at = "asking"
        /\ next.resp = service[c].resp /\ next.grader = service[c].grader
        /\ next.stored = service[c].stored /\ next.flags = service[c].flags
    BY <1>1, <1>2, InGrade DEF GradeFields
  <2> HIDE DEF next
  <2>3. QED
    BY <1>3, <2>1, <2>2
<1>6. CASE GradingGo(c, "error")
  BY <1>1, <1>6, WholeFails DEF WholeInv
<1>7. QED
  BY <1>4, <1>5, <1>6 DEF AskGrader, Accept

LEMMA InsertGradeIsWhole ==
  ASSUME WholeInv, GradingInv, NEW c \in Commands, c \notin killed, UNCHANGED killed, InsertGrade(c)
  PROVE  WholeInv'
<1>1. service[c].at = "inserting" /\ UNCHANGED flagRows
  BY DEF InsertGrade, GradingAt
<1>2. service[c].at \in GradeSteps
  BY <1>1 DEF GradeSteps
<1> DEFINE key == GradesOf(Call(c).resp, Call(c).grader)
           new == [resp |-> Call(c).resp, grader |-> Call(c).grader, by |-> c,
                   scores |-> Call(c).found.scores, flagged |-> Call(c).found.flagged]
<1>3. PICK ok \in BOOLEAN :
        /\ Attempt(ok)
        /\ \/ /\ ok /\ key = {}
              /\ grades' = grades \cup {new}
              /\ service' = [service EXCEPT ![c].at = "reconciling", ![c].stored = TRUE, ![c].row = new]
           \/ /\ ok
              /\ \E row \in key :
                   service' = [service EXCEPT ![c].at = "reconciling", ![c].row = row]
              /\ UNCHANGED grades
           \/ ~ok /\ GradingGo(c, "error") /\ UNCHANGED grades
  BY DEF InsertGrade
<1>4. faults' \in Nat /\ (faults' = 0 => faults = 0)
  BY <1>3, Attempts DEF WholeInv
<1>5. new.resp = service[c].resp /\ new.grader = service[c].grader /\ new.by = c
      /\ new.flagged = service[c].found.flagged
  BY DEF Call
<1>6. key = {r \in grades : r.resp = service[c].resp /\ r.grader = service[c].grader}
  BY DEF GradesOf, Call
<1> HIDE DEF key, new
<1>7. ASSUME key = {}, grades' = grades \cup {new},
             service' = [service EXCEPT ![c].at = "reconciling", ![c].stored = TRUE, ![c].row = new]
      PROVE  WholeInv'
  <2> DEFINE next == [service[c] EXCEPT !.at = "reconciling", !.stored = TRUE, !.row = new]
  <2>1. service' = [service EXCEPT ![c] = next]
    BY <1>7
  <2>2. /\ DOMAIN next = DOMAIN service[c] /\ next.at = "reconciling" /\ next.stored /\ next.row = new
        /\ next.resp = service[c].resp /\ next.grader = service[c].grader
        /\ next.flags = service[c].flags /\ next.found = service[c].found
    BY <1>2, InGrade DEF GradeFields
  <2> HIDE DEF next
  <2>3. service'[c] = next /\ \A d \in Commands \ {c} : service'[d] = service[d]
    BY <1>2, <2>1, InGrade
  <2>4. FlagsFor(next, flagRows) = {}
    BY <1>6, <1>7, <2>2 DEF FlagsFor, WholeInv, FlagsHaveGrades
  <2>5. FlagsAre(next, c, {}, flagRows)
    BY <2>4 DEF FlagsAre
  <2>6. Whole(next, c, flagRows)
    BY <1>1, <1>2, <1>5, <2>2, <2>5, InGrade DEF Whole, Filing
  <2>7. Candid(next, c, grades', flagRows)
    BY <2>2 DEF Candid
  <2>8. WholeCall(c)'
    BY <1>1, <2>3, <2>6, <2>7 DEF WholeCall
  <2>9. Adds(c)
    <3>1. FlagsHaveGrades'
      BY <1>1, <1>7 DEF WholeInv, FlagsHaveGrades
    <3>2. \A r \in grades' : r \in grades \/ r.by = c
      BY <1>5, <1>7
    <3>3. QED
      BY <1>1, <1>4, <1>7, <2>3, <3>1, <3>2 DEF Adds
  <2>10. ASSUME faults' = 0, NEW r \in grades', r.by = c
         PROVE  Storing(service'[c], r) \/ FlagsAre(r, c, r.flagged, flagRows)
    <3>1. CASE r = new
      BY <2>2, <2>3, <3>1 DEF Storing
    <3>2. CASE r \in grades
      BY <1>1, <1>4, <2>10, <3>2 DEF WholeInv, FiledBy, Storing
    <3>3. QED
      BY <1>7, <3>1, <3>2
  <2>11. FiledBy(c)'
    BY <1>1, <2>10 DEF FiledBy
  <2>12. QED
    BY <2>8, <2>9, <2>11, WholeMoves
<1>8. ASSUME NEW row \in key, UNCHANGED grades,
             service' = [service EXCEPT ![c].at = "reconciling", ![c].row = row]
      PROVE  WholeInv'
  <2> DEFINE next == [service[c] EXCEPT !.at = "reconciling", !.row = row]
  <2>1. service' = [service EXCEPT ![c] = next]
    BY <1>8
  <2>2. /\ DOMAIN next = DOMAIN service[c] /\ next.at = "reconciling" /\ next.row = row
        /\ next.stored = service[c].stored
    BY <1>2, InGrade DEF GradeFields
  <2> HIDE DEF next
  <2>3. Whole(next, c, flagRows)
    BY <1>1, <1>2, <2>2, InGrade DEF Whole
  <2>4. faults' = 0 => Candid(next, c, grades, flagRows)
    BY <1>1, <1>2, <1>4, <1>6, <2>2, InGrade DEF Candid
  <2>5. QED
    BY <1>1, <1>2, <1>4, <1>8, <2>1, <2>3, <2>4, InGrade, WholeGoes
<1>9. CASE GradingGo(c, "error") /\ UNCHANGED grades
  BY <1>1, <1>4, <1>9, WholeFails
<1>10. QED
  BY <1>3, <1>7, <1>8, <1>9

LEMMA ReconcileIsWhole ==
  ASSUME WholeInv, GradingInv, NEW c \in Commands, c \notin killed, UNCHANGED killed, Reconcile(c)
  PROVE  WholeInv'
<1>1. service[c].at = "reconciling" /\ UNCHANGED <<grades, flagRows>>
  BY DEF Reconcile, GradingAt
<1>2. service[c].at \in GradeSteps
  BY <1>1 DEF GradeSteps
<1> DEFINE call == service[c]
           there == FlagsOf(Call(c).resp, Call(c).grader)
           raised == Call(c).found.flagged
           step == IF raised = {} THEN "graded" ELSE "filing"
           known == [service[c] EXCEPT !.at = "graded", !.flags = there]
           unknown == [service[c] EXCEPT !.at = step, !.toFile = raised]
<1>3. PICK ok \in BOOLEAN :
        /\ Attempt(ok)
        /\ \/ there # {} /\ service' = [service EXCEPT ![c] = known]
           \/ service' = [service EXCEPT ![c] = unknown]
  BY DEF Reconcile
<1>4. faults' \in Nat /\ (faults' = 0 => faults = 0)
  BY <1>3, Attempts DEF WholeInv
<1>5. call.stored => /\ call.row.by = c /\ call.flags = {} /\ call.row.flagged = call.found.flagged
                     /\ FlagsAre(call, c, {}, flagRows)
  BY <1>1, <1>2, InGrade DEF Whole, Filing
<1>6. faults' = 0 /\ call.row.by = c => call.stored
  BY <1>1, <1>2, <1>4, InGrade DEF Candid
<1>7. call.row.resp = call.resp /\ call.row.grader = call.grader
  BY <1>1, <1>2, InGrade
<1>8. there = {f.flag : f \in FlagsFor(call, flagRows)} /\ raised = call.found.flagged
  BY FlagsOfCall DEF Call
<1>9. step = IF raised = {} THEN "graded" ELSE "filing"
  OBVIOUS
<1>10. /\ DOMAIN known = DOMAIN call /\ known.at = "graded" /\ known.row = call.row /\ known.flags = there
       /\ known.resp = call.resp /\ known.grader = call.grader /\ known.stored = call.stored
  BY <1>2, InGrade DEF GradeFields
<1>11. /\ DOMAIN unknown = DOMAIN call /\ unknown.at = step /\ unknown.row = call.row
       /\ unknown.flags = call.flags /\ unknown.toFile = raised
       /\ unknown.resp = call.resp /\ unknown.grader = call.grader /\ unknown.stored = call.stored
  BY <1>2, InGrade DEF GradeFields
<1> HIDE DEF there, raised, step, known, unknown
<1>12. \A x : x.resp = call.resp /\ x.grader = call.grader => FlagsFor(x, flagRows) = FlagsFor(call, flagRows)
  BY DEF FlagsFor
<1>13. ASSUME there # {}, service' = [service EXCEPT ![c] = known] PROVE WholeInv'
  <2>1. call.stored => \E f \in FlagsFor(call, flagRows) : f.by # c
    BY <1>5, <1>8, <1>13 DEF FlagsAre
  <2>2. FlagsFor(known, flagRows) = FlagsFor(call, flagRows)
    BY <1>10, <1>12
  <2>3. Whole(known, c, flagRows)
    BY <1>2, <1>5, <1>10, <2>1, <2>2, InGrade DEF Whole, Filing
  <2>4. Candid(known, c, grades, flagRows)
    BY <1>8, <1>10, <2>2 DEF Candid, FlagsAre
  <2>5. call.stored => FlagsAre(call.row, c, call.row.flagged, flagRows)
    BY <1>7, <1>12, <2>1 DEF FlagsAre
  <2>6. QED
    BY <1>1, <1>2, <1>4, <1>13, <2>3, <2>4, <2>5, InGrade, WholeGoes
<1>14. ASSUME service' = [service EXCEPT ![c] = unknown] PROVE WholeInv'
  <2>1. FlagsFor(unknown, flagRows) = FlagsFor(call, flagRows)
    BY <1>11, <1>12
  <2>2. call.stored => FlagsAre(unknown, c, {}, flagRows)
    BY <1>5, <2>1 DEF FlagsAre
  <2>3. Whole(unknown, c, flagRows)
    <3>1. call.stored => Filing(unknown, c, flagRows)
      BY <1>5, <1>8, <1>9, <1>11, <2>2 DEF Filing
    <3>2. "stored" \in DOMAIN unknown /\ unknown.at \in {"graded", "filing"}
      BY <1>2, <1>9, <1>11, InGrade
    <3>3. QED
      BY <1>11, <3>1, <3>2 DEF Whole
  <2>4. faults' = 0 => Candid(unknown, c, grades, flagRows)
    BY <1>5, <1>6, <1>9, <1>11, <2>2 DEF Candid
  <2>5. call.stored => FlagsAre(call.row, c, {}, flagRows)
    BY <1>5, <1>7, <1>12 DEF FlagsAre
  <2>6. call.stored => Storing(unknown, call.row) \/ FlagsAre(call.row, c, call.row.flagged, flagRows)
    BY <1>5, <1>8, <1>9, <1>11, <2>5 DEF Storing
  <2>7. QED
    BY <1>1, <1>2, <1>4, <1>14, <2>3, <2>4, <2>6, InGrade, WholeGoes
<1>15. QED
  BY <1>3, <1>13, <1>14

\* c files flag: a new row, or one that is there.  If that fails the row may
\* have been left, and no grade is returned.
LEMMA FileFlagIsWhole ==
  ASSUME WholeInv, GradingInv, NEW c \in Commands, c \notin killed, UNCHANGED killed, FileFlag(c)
  PROVE  WholeInv'
<1>1. service[c].at = "filing" /\ UNCHANGED grades
  BY DEF FileFlag, GradingAt
<1>2. service[c].at \in GradeSteps
  BY <1>1 DEF GradeSteps
<1> DEFINE call == service[c]
<1>3. PICK flag \in call.toFile, ok \in BOOLEAN :
        /\ Attempt(ok)
        /\ flagRows' = WithFlag(c, flag) \/ (~ok /\ UNCHANGED flagRows)
        /\ IF ok
           THEN service' = [service EXCEPT
                     ![c].at = IF call.toFile = {flag} THEN "graded" ELSE "filing",
                     ![c].toFile = @ \ {flag},
                     ![c].flags = @ \cup {flag}]
           ELSE GradingGo(c, "error")
  BY DEF FileFlag, Call
<1>4. faults' \in Nat /\ (faults' = 0 => faults = 0) /\ (~ok => faults' # 0)
  BY <1>3, Attempts DEF WholeInv
<1> DEFINE new == [resp |-> call.resp, grader |-> call.grader, flag |-> flag, by |-> c]
<1>7. new.resp = call.resp /\ new.grader = call.grader /\ new.flag = flag /\ new.by = c
  OBVIOUS
<1>8. WithFlag(c, flag) = flagRows \cup (IF flag \in FlagsOf(call.resp, call.grader) THEN {} ELSE {new})
  BY DEF WithFlag, Call
<1> HIDE DEF new
<1>9. call.row \in grades /\ call.row.resp = call.resp /\ call.row.grader = call.grader
  BY <1>1, <1>2, InGrade
<1>10. Adds(c)
  <2>1. FlagsHaveGrades'
    BY <1>1, <1>3, <1>7, <1>8, <1>9 DEF WholeInv, FlagsHaveGrades
  <2>2. flagRows \subseteq flagRows' /\ \A f \in flagRows' : f \in flagRows \/ f.by = c
    BY <1>3, <1>7, <1>8
  <2>3. \A d \in Commands \ {c} : service'[d] = service[d]
    <3>1. DOMAIN service = Commands
      BY <1>2, InGrade
    <3>2. CASE ok
      BY <1>3, <3>1, <3>2
    <3>3. CASE ~ok
      BY <1>3, <3>1, <3>3 DEF GradingGo
    <3>4. QED
      BY <3>2, <3>3
  <2>4. QED
    BY <1>1, <1>4, <2>1, <2>2, <2>3 DEF Adds
<1>5. CASE ~ok
  <2>1. service'[c].at = "error"
    BY <1>2, <1>3, <1>5, InGrade DEF GradingGo, GradeFields
  <2>2. WholeCall(c)' /\ FiledBy(c)'
    BY <1>4, <1>5, <2>1 DEF WholeCall, Whole, FiledBy, GradeSteps
  <2>3. QED
    BY <1>10, <2>2, WholeMoves
<1>6. CASE ok
  <2> DEFINE step == IF call.toFile = {flag} THEN "graded" ELSE "filing"
             next == [service[c] EXCEPT !.at = step, !.toFile = @ \ {flag}, !.flags = @ \cup {flag}]
  <2>1. service' = [service EXCEPT ![c] = next]
    BY <1>3, <1>6
  <2>2. flagRows' = flagRows \cup (IF flag \in FlagsOf(call.resp, call.grader) THEN {} ELSE {new})
    BY <1>3, <1>6, <1>8
  <2>4. step = IF call.toFile = {flag} THEN "graded" ELSE "filing"
    OBVIOUS
  <2> HIDE DEF step
  <2>5. /\ DOMAIN next = DOMAIN call /\ next.at = step /\ next.row = call.row
        /\ next.flags = call.flags \cup {flag} /\ next.toFile = call.toFile \ {flag}
        /\ next.resp = call.resp /\ next.grader = call.grader /\ next.stored = call.stored
    BY <1>2, InGrade DEF GradeFields
  <2> HIDE DEF next
  <2>6. service'[c] = next /\ \A d \in Commands \ {c} : service'[d] = service[d]
    BY <1>2, <2>1, InGrade
  \* The flags of the grade, with flag.
  <2>9. ASSUME NEW set, FlagsAre(call, c, set, flagRows)
        PROVE  FlagsAre(call, c, set \cup {flag}, flagRows')
    <3>1. FlagsOf(call.resp, call.grader) = {f.flag : f \in FlagsFor(call, flagRows)}
      BY FlagsOfCall
    <3>2. {f.flag : f \in FlagsFor(call, flagRows')} = {f.flag : f \in FlagsFor(call, flagRows)} \cup {flag}
      <4>1. CASE flag \in FlagsOf(call.resp, call.grader)
        BY <2>2, <3>1, <4>1
      <4>2. CASE flag \notin FlagsOf(call.resp, call.grader)
        <5>1. FlagsFor(call, flagRows') = FlagsFor(call, flagRows) \cup {new}
          BY <2>2, <1>7, <4>2 DEF FlagsFor
        <5>2. QED
          BY <1>7, <5>1
      <4>3. QED
        BY <4>1, <4>2
    <3>3. FlagsFor(call, flagRows) \subseteq FlagsFor(call, flagRows')
      BY <2>2 DEF FlagsFor
    <3>4. QED
      BY <2>9, <3>2, <3>3 DEF FlagsAre
  <2>10. \A x, set : x.resp = call.resp /\ x.grader = call.grader =>
           (FlagsAre(x, c, set, flagRows') <=> FlagsAre(call, c, set, flagRows'))
    BY DEF FlagsAre, FlagsFor
  <2>11. call.stored => /\ call.row.by = c /\ call.toFile \cup call.flags = call.row.flagged
                        /\ FlagsAre(call, c, call.flags, flagRows)
    BY <1>1, <1>2, InGrade DEF Whole, Filing
  <2>12. call.stored => FlagsAre(next, c, next.flags, flagRows')
    BY <2>5, <2>9, <2>10, <2>11
  <2>13. call.stored /\ step = "graded" => next.flags = next.row.flagged
    BY <2>4, <2>5, <2>11
  <2>14. Whole(next, c, flagRows')
    <3>1. call.stored => Filing(next, c, flagRows')
      <4>1. call.stored /\ step = "filing" => next.toFile # {} /\ next.toFile \cup next.flags = next.row.flagged
        BY <1>3, <2>4, <2>5, <2>11
      <4>2. QED
        BY <2>4, <2>5, <2>11, <2>12, <2>13, <4>1 DEF Filing
    <3>2. "stored" \in DOMAIN next /\ next.at \in {"graded", "filing"}
      BY <1>2, <2>4, <2>5, InGrade
    <3>3. QED
      BY <2>5, <3>1, <3>2 DEF Whole
  <2>15. faults' = 0 /\ call.row.by = c => call.stored
    BY <1>1, <1>2, <1>4, InGrade DEF Candid
  <2>16. faults' = 0 => Candid(next, c, grades', flagRows')
    BY <2>4, <2>5, <2>12, <2>15 DEF Candid
  <2>17. WholeCall(c)'
    BY <2>6, <2>14, <2>16 DEF WholeCall
  <2>18. ASSUME faults' = 0, NEW r \in grades', r.by = c
         PROVE  Storing(service'[c], r) \/ FlagsAre(r, c, r.flagged, flagRows')
    <3>1. CASE r = call.row
      BY <1>9, <2>4, <2>5, <2>6, <2>10, <2>12, <2>13, <2>15, <2>18, <3>1 DEF Storing
    <3>2. CASE r # call.row
      <4>1. ~(r.resp = call.resp /\ r.grader = call.grader)
        BY <1>1, <1>9, <3>2 DEF GradingInv, UniqueGrades
      <4>2. FlagsAre(r, c, r.flagged, flagRows)
        BY <1>1, <1>4, <2>18, <3>2 DEF WholeInv, FiledBy, Storing
      <4>3. \A f \in flagRows' : f \in flagRows \/ ~(f.resp = r.resp /\ f.grader = r.grader)
        BY <1>7, <2>2, <4>1
      <4>4. QED
        BY <2>2, <4>2, <4>3, FlagsStay
    <3>3. QED
      BY <3>1, <3>2
  <2>19. FiledBy(c)'
    BY <2>18 DEF FiledBy
  <2>20. QED
    BY <1>10, <2>17, <2>19, WholeMoves
<1>11. QED
  BY <1>5, <1>6

\* A step of Compare, whatever it leaves in the call.
LEMMA PairGoes ==
  ASSUME WholeInv, GradingInv, NEW c \in Commands, c \notin killed, UNCHANGED <<grades, flagRows, killed>>,
         faults' \in Nat, faults' = 0 => faults = 0, service[c].at \in PairSteps,
         NEW next, service' = [service EXCEPT ![c] = next], next.at \notin GradeSteps
  PROVE  WholeInv'
<1>1. DOMAIN service = Commands /\ service[c].at \notin {"reconciling", "filing"}
  BY DEF GradingInv, PairSteps
<1>2. QED
  BY <1>1, WholeLeaves

LEMMA PairwiseIsWhole ==
  ASSUME WholeInv, GradingInv, NEW c \in Commands, c \notin killed, UNCHANGED killed,
         PairwiseBad(c) \/ CompareFirst(c) \/ CompareReversed(c) \/ NextGrader(c)
  PROVE  WholeInv'
<1>1. service[c].at \in PairSteps /\ UNCHANGED <<grades, flagRows>>
  BY DEF PairwiseBad, CompareFirst, CompareReversed, NextGrader, GradingAt, Call, PairSteps
<1>2. PairFields \subseteq DOMAIN service[c] /\ service[c].at \notin GradeSteps
  BY <1>1 DEF GradingInv, CallOk, PairSteps, GradeSteps
<1>3. faults \in Nat
  BY DEF WholeInv
<1>4. ASSUME GradingGo(c, "error"), faults' \in Nat, faults' = 0 => faults = 0 PROVE WholeInv'
  BY <1>1, <1>2, <1>4, WholeFails DEF GradeSteps
<1>5. ASSUME NEW row, StoreRow(c, row) PROVE WholeInv'
  <2> DEFINE step == IF row.final THEN "decided" ELSE "reversing"
             next == [service[c] EXCEPT !.at = step, !.rows = Append(@, row), !.retried = FALSE]
  <2>1. PICK ok \in BOOLEAN :
          Attempt(ok) /\ (GradingGo(c, "error") \/ service' = [service EXCEPT ![c] = next])
    BY <1>5 DEF StoreRow
  <2>2. faults' \in Nat /\ (faults' = 0 => faults = 0)
    BY <1>3, <2>1, Attempts
  <2>3. step \in {"decided", "reversing"}
    OBVIOUS
  <2> HIDE DEF step
  <2>4. next.at = step
    BY <1>2 DEF PairFields
  <2> HIDE DEF next
  <2>5. next.at \notin GradeSteps
    BY <2>3, <2>4 DEF GradeSteps
  <2>6. QED
    BY <1>1, <1>4, <2>1, <2>2, <2>5, PairGoes
<1>6. CASE PairwiseBad(c)
  <2> DEFINE next == [service[c] EXCEPT !.retried = TRUE]
  <2>1. UNCHANGED faults /\ (GradingGo(c, "error") \/ service' = [service EXCEPT ![c] = next])
    BY <1>6 DEF PairwiseBad
  <2>2. next.at = service[c].at
    BY <1>2 DEF PairFields
  <2> HIDE DEF next
  <2>3. QED
    BY <1>1, <1>2, <1>3, <1>4, <2>1, <2>2, PairGoes
<1>7. CASE CompareFirst(c)
  BY <1>5, <1>7 DEF CompareFirst
<1>8. CASE CompareReversed(c)
  BY <1>5, <1>8 DEF CompareReversed
<1>9. CASE NextGrader(c)
  <2> DEFINE step == IF Len(Call(c).sides) = 1 THEN "compared" ELSE "comparing"
             next == [service[c] EXCEPT !.at = step, !.sides = Append(@, FinalSide(c)), !.rows = <<>>]
  <2>1. UNCHANGED faults /\ service' = [service EXCEPT ![c] = next]
    BY <1>9 DEF NextGrader
  <2>2. step \in {"compared", "comparing"}
    OBVIOUS
  <2> HIDE DEF step
  <2>3. next.at = step
    BY <1>2 DEF PairFields
  <2> HIDE DEF next
  <2>4. next.at \notin GradeSteps
    BY <2>2, <2>3 DEF GradeSteps
  <2>5. QED
    BY <1>1, <1>3, <2>1, <2>4, PairGoes
<1>10. QED
  BY <1>6, <1>7, <1>8, <1>9

\* A call that begins where another one is over.
LEMMA BeginsWhole ==
  ASSUME WholeInv, GradingInv, NEW c \in Commands, c \notin killed,
         UNCHANGED <<grades, flagRows, faults, killed>>, service[c].at \notin {"reconciling", "filing"},
         NEW next, service' = [service EXCEPT ![c] = next],
         \/ next.at \notin GradeSteps
         \/ next.at = "lookup" /\ "stored" \in DOMAIN next /\ ~next.stored /\ next.flags = {}
  PROVE  WholeInv'
<1>1. Whole(next, c, flagRows) /\ Candid(next, c, grades, flagRows)
  BY DEF Whole, Candid, GradeSteps
<1>2. DOMAIN service = Commands /\ faults' \in Nat /\ (faults' = 0 => faults = 0)
  BY DEF GradingInv, WholeInv
<1>3. QED
  BY <1>1, <1>2, WholeGoes

LEMMA CallBeginsWhole ==
  ASSUME WholeInv, GradingInv, NEW c \in Commands, GradeNext(c) \/ CompareNext(c) \/ Fail(c)
  PROVE  WholeInv'
<1>1. /\ c \notin killed /\ UNCHANGED <<grades, flagRows, faults, killed>>
      /\ service[c].at \notin {"reconciling", "filing"}
  BY DEF GradeNext, CompareNext, Fail, Runs, GradingAt
<1>2. CASE service' = [service EXCEPT ![c] = Idle]
  <2>1. Idle.at \notin GradeSteps
    BY DEF Idle, GradeSteps
  <2>2. QED
    BY <1>1, <1>2, <2>1, BeginsWhole
<1>3. ASSUME NEW resp, NEW g, Grade(c, resp, g) PROVE WholeInv'
  <2> DEFINE call == [at |-> "lookup", resp |-> resp, grader |-> g, found |-> NoGrade, toFile |-> {},
                      retried |-> FALSE, stored |-> FALSE, row |-> NoGrade, flags |-> {}]
  <2>1. service' = [service EXCEPT ![c] = call]
    BY <1>3 DEF Grade
  <2>2. call.at = "lookup" /\ "stored" \in DOMAIN call /\ ~call.stored /\ call.flags = {}
    OBVIOUS
  <2> HIDE DEF call
  <2>3. QED
    BY <1>1, <2>1, <2>2, BeginsWhole
<1>4. ASSUME NEW graders, Compare(c, graders) PROVE WholeInv'
  <2> DEFINE call == [at |-> "comparing", graders |-> graders, sides |-> <<>>, rows |-> <<>>, retried |-> FALSE]
  <2>1. service' = [service EXCEPT ![c] = call]
    BY <1>4 DEF Compare
  <2>2. call.at \notin GradeSteps
    BY DEF GradeSteps
  <2> HIDE DEF call
  <2>3. QED
    BY <1>1, <2>1, <2>2, BeginsWhole
<1>5. QED
  BY <1>2, <1>3, <1>4 DEF GradeNext, CompareNext, Fail

LEMMA KillKeepsWhole ==
  ASSUME WholeInv, GradingInv, NEW c \in Commands, Kill(c) PROVE WholeInv'
<1>1. UNCHANGED <<grades, flagRows, faults>> /\ killed' = killed \cup {c} /\ service' = [service EXCEPT ![c] = Idle]
  BY DEF Kill
<1>2. service'[c].at = "idle" /\ \A d \in Commands \ {c} : service'[d] = service[d]
  BY <1>1 DEF GradingInv, Idle
<1>3. Adds(c)
  BY <1>1, <1>2 DEF Adds, WholeInv, FlagsHaveGrades
<1>4. WholeCall(c)'
  BY <1>2 DEF WholeCall, Whole, Candid, GradeSteps
<1>5. FiledBy(c)'
  BY <1>1 DEF FiledBy
<1>6. QED
  BY <1>3, <1>4, <1>5, WholeMoves

LEMMA WholeUntouched ==
  ASSUME WholeInv, UNCHANGED <<grades, flagRows, service, killed>>, faults' \in Nat, faults' = 0 => faults = 0
  PROVE  WholeInv'
<1>1. ASSUME NEW c \in Commands PROVE WholeCall(c)' /\ FiledBy(c)'
  BY <1>1 DEF WholeInv, WholeCall, FiledBy
<1>2. QED
  BY <1>1 DEF WholeInv, FlagsHaveGrades

LEMMA WholeInit == Init => WholeInv
<1> SUFFICES ASSUME Init PROVE WholeInv
  OBVIOUS
<1>1. \A c \in Commands : service[c].at = "idle"
  BY DEF Init, Idle
<1>2. \A c \in Commands : WholeCall(c)
  BY <1>1 DEF WholeCall, Whole, Candid, GradeSteps
<1>3. QED
  BY <1>2 DEF Init, WholeInv, FiledBy, FlagsHaveGrades

LEMMA WholeNext == GradingInv /\ WholeInv /\ [Next]_vars => WholeInv'
<1> SUFFICES ASSUME GradingInv, WholeInv, [Next]_vars PROVE WholeInv'
  OBVIOUS
<1>1. ASSUME NEW j \in Jobs, Generate(j) PROVE WholeInv'
  <2>1. UNCHANGED <<grades, flagRows, service, killed>>
    BY <1>1 DEF Generate, JobStep
  <2>2. UNCHANGED faults \/ \E ok \in BOOLEAN : Attempt(ok)
    BY <1>1 DEF Generate, JobStep, TakeSlot, StartRequest, Number, Lookup, Answer, Insert, Reuse
  <2>3. faults' \in Nat /\ (faults' = 0 => faults = 0)
    BY <2>2, Attempts DEF WholeInv
  <2>4. QED
    BY <2>1, <2>3, WholeUntouched
<1>2. ASSUME NEW c \in Commands, Evaluate(c) PROVE WholeInv'
  BY <1>2, LookupIsWhole, ListFlagsIsWhole, AskGraderIsWhole, InsertGradeIsWhole, ReconcileIsWhole, FileFlagIsWhole,
     PairwiseIsWhole DEF Evaluate, GradingStep, Runs
<1>3. ASSUME NEW c \in Commands, PoolDone(c) PROVE WholeInv'
  BY <1>3, WholeUntouched DEF PoolDone, WholeInv
<1>4. ASSUME NEW c \in Commands, GradeNext(c) \/ CompareNext(c) \/ Fail(c) PROVE WholeInv'
  BY <1>4, CallBeginsWhole
<1>5. ASSUME NEW c \in Commands, Kill(c) PROVE WholeInv'
  BY <1>5, KillKeepsWhole
<1>6. CASE UNCHANGED vars
  BY <1>6, WholeUntouched DEF vars, WholeInv
<1>7. QED
  BY <1>1, <1>2, <1>3, <1>4, <1>5, <1>6 DEF Next, AllEnded

LEMMA WholeInvariant == Spec => []WholeInv
  BY GradingInvariant, WholeInit, WholeNext, PTL DEF Spec

\* Service.Grade returns a grade it has stored only with all of its flags in
\* the table, unless another command's flags were there before.
THEOREM GradeIsWholeHolds == Spec => []GradeIsWhole
<1>1. ASSUME GradingInv, WholeInv, NEW c \in Commands, GradingAt(c, "graded"), service[c].row.by = c,
             service[c].stored \/ faults = 0,
             \A f \in flagRows : f.resp = service[c].resp /\ f.grader = service[c].grader => f.by = c
      PROVE  service[c].flags = service[c].row.flagged
             /\ FlagsOf(service[c].resp, service[c].grader) = service[c].flags
  <2> DEFINE call == service[c]
  <2>1. call.at = "graded" /\ call.at \in GradeSteps
    BY <1>1 DEF GradingAt, GradeSteps
  <2>2. \A f \in FlagsFor(call, flagRows) : f.by = c
    BY <1>1 DEF FlagsFor
  <2>3. FlagsOf(call.resp, call.grader) = {f.flag : f \in FlagsFor(call, flagRows)}
    BY FlagsOfCall
  <2>4. CASE call.stored
    <3>1. call.flags = call.row.flagged /\ FlagsAre(call, c, call.flags, flagRows)
      BY <1>1, <2>1, <2>2, <2>4, InGrade DEF Whole, Filing
    <3>2. QED
      BY <2>2, <2>3, <3>1 DEF FlagsAre
  <2>5. CASE faults = 0
    <3>1. FlagsAre(call, c, call.flags, flagRows)
      BY <1>1, <2>1, <2>5, InGrade DEF Candid
    <3>2. call.row \in grades /\ call.row.resp = call.resp /\ call.row.grader = call.grader
      BY <1>1, <2>1 DEF GradingInv, CallOk
    <3>3. c \notin killed
      BY <1>1, <2>1 DEF WholeInv, WholeCall
    <3>4. ~Storing(call, call.row)
      BY <2>1 DEF Storing
    <3>5. FlagsAre(call.row, c, call.row.flagged, flagRows)
      BY <1>1, <2>5, <3>2, <3>3, <3>4 DEF WholeInv, FiledBy
    <3>6. FlagsFor(call.row, flagRows) = FlagsFor(call, flagRows)
      BY <3>2 DEF FlagsFor
    <3>7. QED
      BY <2>2, <2>3, <3>1, <3>5, <3>6 DEF FlagsAre
  <2>6. QED
    BY <1>1, <2>4, <2>5
<1>2. GradingInv /\ WholeInv => GradeIsWhole
  BY <1>1 DEF GradeIsWhole
<1>3. QED
  BY <1>2, GradingInvariant, WholeInvariant, PTL

-----------------------------------------------------------------------------
(***************************************************************************)
(* Types of the response cache.                                            *)
(***************************************************************************)

JobSteps == {"queued", "starting", "numbering", "lookup", "calling", "storing", "reusing", "done", "failed"}

Request == [prompt : Prompts, fresh : BOOLEAN]

OutOfFlight == {"queued", "done", "failed"}

JobTyped(x) ==
  /\ x.at \in JobSteps /\ x.cmd \in Commands
  /\ x.todo \in Seq(Request) /\ x.asked \in Request
  /\ x.at \in {"queued", "starting"} => x.todo # <<>>
  /\ x.at = "storing" => x.answer \in Answers

RowsTyped ==
  /\ responses \subseteq Row
  /\ \A r, s \in responses : r.prompt = s.prompt /\ r.rep = s.rep => r = s

SlotsKept == \A c \in Commands : Cardinality(InFlight(c)) <= Concurrency

FaultsBounded ==
  /\ faults \in Nat /\ IsFiniteSet(killed)
  /\ faults + Cardinality(killed) <= MaxFaults

CacheTyped ==
  /\ \A j \in Jobs : JobTyped(job[j])
  /\ RowsTyped /\ SlotsKept

\* A job holds a slot after its step only if it did, or one was free.
SlotFor(j, next) ==
  \/ next.at \in OutOfFlight
  \/ job[j].at \notin OutOfFlight
  \/ Cardinality(InFlight(job[j].cmd)) < Concurrency

Turns(j, next) ==
  /\ job' = [job EXCEPT ![j] = next]
  /\ JobTyped(next) /\ next.cmd = job[j].cmd /\ SlotFor(j, next)

LEMMA TurnsTo ==
  ASSUME CacheInv, CacheTyped, NEW j \in Jobs, NEW step \in JobSteps \ {"queued", "starting", "storing"},
         JobGo(j, step), job[j].at \notin OutOfFlight
  PROVE  \E next : Turns(j, next)
<1> DEFINE next == [job[j] EXCEPT !.at = step]
<1>1. job' = [job EXCEPT ![j] = next]
  BY DEF JobGo
<1>2. /\ next.at = step /\ next.cmd = job[j].cmd /\ next.todo = job[j].todo
      /\ next.asked = job[j].asked /\ next.answer = job[j].answer
  BY DEF CacheInv, JobShape, JobFields
<1> HIDE DEF next
<1>3. JobTyped(next)
  BY <1>2 DEF CacheTyped, JobTyped
<1>4. QED
  BY <1>1, <1>2, <1>3 DEF Turns, SlotFor

LEMMA TurnsBack ==
  ASSUME CacheInv, CacheTyped, NEW j \in Jobs, NEW row, Return(j, row), job[j].at \notin OutOfFlight
  PROVE  \E next : Turns(j, next)
<1> DEFINE step == IF job[j].todo = <<>> THEN "done" ELSE "starting"
           next == [job[j] EXCEPT !.at = step, !.results = Append(@, row)]
<1>1. job' = [job EXCEPT ![j] = next]
  BY DEF Return
<1>2. step \in {"done", "starting"} /\ (step = "starting" => job[j].todo # <<>>)
  OBVIOUS
<1> HIDE DEF step
<1>3. /\ next.at = step /\ next.cmd = job[j].cmd /\ next.todo = job[j].todo
      /\ next.asked = job[j].asked
  BY DEF CacheInv, JobShape, JobFields
<1> HIDE DEF next
<1>4. JobTyped(next)
  BY <1>2, <1>3 DEF CacheTyped, JobTyped, JobSteps
<1>5. QED
  BY <1>1, <1>3, <1>4 DEF Turns, SlotFor

LEMMA JobTurns ==
  ASSUME CacheInv, CacheTyped, NEW j \in Jobs, JobStep(j)
  PROVE  \E next : Turns(j, next)
<1> USE DEF CacheInv, JobShape, JobFields
<1>1. JobTyped(job[j])
  BY DEF CacheTyped
<1>2. CASE TakeSlot(j)
  <2> DEFINE next == [job[j] EXCEPT !.at = "starting"]
  <2>1. job' = [job EXCEPT ![j] = next] /\ job[j].at = "queued" /\ Cardinality(InFlight(job[j].cmd)) < Concurrency
    BY <1>2 DEF TakeSlot, JobAt, JobGo
  <2>2. /\ next.at = "starting" /\ next.cmd = job[j].cmd /\ next.todo = job[j].todo /\ next.asked = job[j].asked
    OBVIOUS
  <2> HIDE DEF next
  <2>3. JobTyped(next)
    BY <1>1, <2>1, <2>2 DEF JobTyped, JobSteps
  <2>4. QED
    BY <2>1, <2>2, <2>3 DEF Turns, SlotFor
<1>3. CASE StartRequest(j)
  <2> DEFINE request == Head(job[j].todo)
             step == IF request.prompt \notin Supported THEN "failed"
                     ELSE IF request.fresh THEN "numbering" ELSE "lookup"
             next == [job[j] EXCEPT !.at = step, !.todo = Tail(@), !.asked = request, !.rep = 0,
                                    !.answer = "none", !.seen = responses]
  <2>1. job' = [job EXCEPT ![j] = next] /\ job[j].at = "starting"
    BY <1>3 DEF StartRequest, JobAt
  <2>2. step \in {"failed", "numbering", "lookup"}
    OBVIOUS
  <2>3. request \in Request /\ Tail(job[j].todo) \in Seq(Request)
    BY <1>1, <2>1, HeadTailProperties DEF JobTyped
  <2> HIDE DEF step, request
  <2>4. /\ next.at = step /\ next.cmd = job[j].cmd /\ next.todo = Tail(job[j].todo) /\ next.asked = request
    OBVIOUS
  <2> HIDE DEF next
  <2>5. JobTyped(next)
    BY <1>1, <2>2, <2>3, <2>4 DEF JobTyped, JobSteps
  <2>6. QED
    BY <2>1, <2>4, <2>5 DEF Turns, SlotFor, OutOfFlight
<1>4. CASE Number(j)
  <2>1. job[j].at = "numbering"
    BY <1>4 DEF Number, JobAt
  <2>2. CASE JobGo(j, "failed")
    BY <2>1, <2>2, TurnsTo DEF JobSteps, OutOfFlight
  <2>3. ASSUME NEW rep, job' = [job EXCEPT ![j].at = "lookup", ![j].rep = rep] PROVE \E next : Turns(j, next)
    <3> DEFINE next == [job[j] EXCEPT !.at = "lookup", !.rep = rep]
    <3>1. job' = [job EXCEPT ![j] = next]
      BY <2>3
    <3>2. /\ next.at = "lookup" /\ next.cmd = job[j].cmd /\ next.todo = job[j].todo /\ next.asked = job[j].asked
      OBVIOUS
    <3> HIDE DEF next
    <3>3. JobTyped(next)
      BY <1>1, <3>2 DEF JobTyped, JobSteps
    <3>4. QED
      BY <2>1, <3>1, <3>2, <3>3 DEF Turns, SlotFor, OutOfFlight
  <2>4. QED
    BY <1>4, <2>2, <2>3 DEF Number
<1>5. CASE Lookup(j)
  <2>1. job[j].at = "lookup" /\ (JobGo(j, "failed") \/ JobGo(j, "calling") \/ \E row : Return(j, row))
    BY <1>5 DEF Lookup, JobAt
  <2>2. QED
    BY <2>1, TurnsTo, TurnsBack DEF JobSteps, OutOfFlight
<1>6. ASSUME NEW k \in Answers, Answer(j, k) PROVE \E next : Turns(j, next)
  <2> DEFINE next == [job[j] EXCEPT !.at = "storing", !.answer = k]
  <2>1. job' = [job EXCEPT ![j] = next] /\ job[j].at = "calling"
    BY <1>6 DEF Answer, JobAt
  <2>2. /\ next.at = "storing" /\ next.cmd = job[j].cmd /\ next.todo = job[j].todo /\ next.asked = job[j].asked
        /\ next.answer = k
    OBVIOUS
  <2> HIDE DEF next
  <2>3. JobTyped(next)
    BY <1>1, <2>2 DEF JobTyped, JobSteps
  <2>4. QED
    BY <2>1, <2>2, <2>3 DEF Turns, SlotFor, OutOfFlight
<1>7. CASE Insert(j)
  <2>1. job[j].at = "storing" /\ (JobGo(j, "reusing") \/ \E row : Return(j, row))
    BY <1>7 DEF Insert, JobAt
  <2>2. QED
    BY <2>1, TurnsTo, TurnsBack DEF JobSteps, OutOfFlight
<1>8. CASE Reuse(j)
  <2>1. job[j].at = "reusing" /\ (JobGo(j, "failed") \/ \E row : Return(j, row))
    BY <1>8 DEF Reuse, JobAt
  <2>2. QED
    BY <2>1, TurnsTo, TurnsBack DEF JobSteps, OutOfFlight
<1>9. QED
  BY <1>2, <1>3, <1>4, <1>5, <1>6, <1>7, <1>8 DEF JobStep

\* A pool has no more goroutines in flight than slots.
LEMMA SlotsStay ==
  ASSUME CacheInv, CacheTyped, NEW j \in Jobs, NEW next, Turns(j, next)
  PROVE  SlotsKept'
<1>1. \A k \in Jobs : job'[k] = IF k = j THEN next ELSE job[k]
  BY DEF Turns, CacheInv, JobShape
<1>2. SUFFICES ASSUME NEW c \in Commands PROVE Cardinality(InFlight(c)') <= Concurrency
  BY DEF SlotsKept
<1>3. \A S : S \subseteq Jobs => IsFiniteSet(S) /\ Cardinality(S) \in Nat
  BY PlanConstants, FS_Subset, FS_CardinalityType
<1>4. /\ InFlight(c) \subseteq Jobs /\ InFlight(c)' \subseteq Jobs
      /\ Cardinality(InFlight(c)) <= Concurrency /\ Concurrency \in Nat
  BY CacheConstants DEF InFlight, CacheTyped, SlotsKept
<1>5. CASE InFlight(c)' \subseteq InFlight(c)
  <2>1. Cardinality(InFlight(c)') <= Cardinality(InFlight(c))
    BY <1>3, <1>4, <1>5, FS_Subset
  <2>2. QED
    BY <1>3, <1>4, <2>1
<1>6. CASE ~(InFlight(c)' \subseteq InFlight(c))
  <2>1. /\ j \notin InFlight(c) /\ job[j].cmd = c /\ next.at \notin OutOfFlight
        /\ InFlight(c)' = InFlight(c) \cup {j}
    BY <1>1, <1>6 DEF InFlight, Turns, OutOfFlight
  <2>2. Cardinality(InFlight(c)) < Concurrency
    BY <2>1 DEF Turns, SlotFor, InFlight, OutOfFlight
  <2>3. Cardinality(InFlight(c)') = Cardinality(InFlight(c)) + 1
    BY <1>3, <1>4, <2>1, FS_AddElement
  <2>4. QED
    BY <1>3, <1>4, <2>2, <2>3
<1>7. QED
  BY <1>5, <1>6

\* Only Insert adds a row, and none with the key of another.
LEMMA RowsStay ==
  ASSUME CacheInv, CacheTyped, NEW j \in Jobs, JobStep(j)
  PROVE  RowsTyped'
<1>1. CASE UNCHANGED responses
  BY <1>1 DEF CacheTyped, RowsTyped
<1>2. CASE responses' # responses
  <2>1. job[j].at = "storing" /\ WithKey(Asked(j).prompt, job[j].rep) = {} /\ responses' = responses \cup {NewRow(j)}
    BY <1>2 DEF JobStep, TakeSlot, StartRequest, Number, Lookup, Answer, Insert, Reuse, JobAt
  <2>2. JobTyped(job[j]) /\ job[j].rep \in Nat
    BY DEF CacheTyped, CacheInv, JobInv
  <2>3. NewRow(j) \in Row
    BY <2>1, <2>2, CacheConstants DEF JobTyped, NewRow, Row, Asked, Request
  <2>4. NewRow(j).prompt = Asked(j).prompt /\ NewRow(j).rep = job[j].rep
    BY DEF NewRow
  <2>5. \A r \in responses : ~(r.prompt = NewRow(j).prompt /\ r.rep = NewRow(j).rep)
    BY <2>1, <2>4 DEF WithKey, OfPrompt
  <2>6. QED
    BY <2>1, <2>3, <2>5 DEF CacheTyped, RowsTyped
<1>3. QED
  BY <1>1, <1>2

LEMMA GenerateTyped ==
  ASSUME CacheInv, CacheTyped, NEW j \in Jobs, JobStep(j)
  PROVE  CacheTyped'
<1>1. PICK next : Turns(j, next)
  BY JobTurns
<1>2. \A k \in Jobs : JobTyped(job'[k])
  BY <1>1 DEF Turns, CacheTyped, CacheInv, JobShape
<1>3. QED
  BY <1>1, <1>2, SlotsStay, RowsStay DEF CacheTyped

\* The end of a pool, and a kill: every job keeps its command, and none begins.
LEMMA PoolTyped ==
  ASSUME CacheTyped, UNCHANGED responses, DOMAIN job' = Jobs,
         \A j \in Jobs : JobTyped(job'[j]) /\ job'[j].cmd = job[j].cmd
                         /\ (job'[j].at \in OutOfFlight \/ job'[j].at = job[j].at)
  PROVE  CacheTyped'
<1>1. ASSUME NEW c \in Commands PROVE Cardinality(InFlight(c)') <= Concurrency
  <2>1. InFlight(c)' \subseteq InFlight(c) /\ InFlight(c) \subseteq Jobs
    BY DEF InFlight, OutOfFlight
  <2>2. IsFiniteSet(InFlight(c))
    BY <2>1, PlanConstants, FS_Subset
  <2>3. IsFiniteSet(InFlight(c)') /\ Cardinality(InFlight(c)') <= Cardinality(InFlight(c))
    BY <2>1, <2>2, FS_Subset
  <2>4. Cardinality(InFlight(c)) \in Nat /\ Cardinality(InFlight(c)') \in Nat
    BY <2>2, <2>3, FS_CardinalityType
  <2>5. Cardinality(InFlight(c)) <= Concurrency /\ Concurrency \in Nat
    BY CacheConstants DEF CacheTyped, SlotsKept
  <2>6. QED
    BY <2>3, <2>4, <2>5
<1>2. SlotsKept'
  BY <1>1 DEF SlotsKept
<1>3. RowsTyped'
  BY DEF CacheTyped, RowsTyped
<1>4. QED
  BY <1>2, <1>3 DEF CacheTyped

LEMMA PoolDoneTyped ==
  ASSUME CacheInv, CacheTyped, NEW c \in Commands, PoolDone(c) PROVE CacheTyped'
<1>1. /\ PoolEnded(c) /\ UNCHANGED responses
      /\ job' = [j \in Jobs |-> IF j \in PoolOf(c) THEN [job[j] EXCEPT !.answer = "none", !.seen = {}] ELSE job[j]]
  BY DEF PoolDone
<1>2. ASSUME NEW j \in Jobs
      PROVE  JobTyped(job'[j]) /\ job'[j].cmd = job[j].cmd /\ job'[j].at = job[j].at
  <2>1. JobTyped(job[j])
    BY DEF CacheTyped
  <2>2. CASE j \in PoolOf(c)
    <3>1. /\ job'[j].at = job[j].at /\ job'[j].cmd = job[j].cmd /\ job'[j].todo = job[j].todo
          /\ job'[j].asked = job[j].asked
      BY <1>1, <2>2 DEF CacheInv, JobShape, JobFields
    <3>2. job[j].at \in {"done", "failed"}
      BY <1>1, <2>2 DEF PoolEnded
    <3>3. QED
      BY <2>1, <3>1, <3>2 DEF JobTyped
  <2>3. CASE j \notin PoolOf(c)
    BY <1>1, <2>1, <2>3
  <2>4. QED
    BY <2>2, <2>3
<1>3. QED
  BY <1>1, <1>2, PoolTyped

LEMMA KillTyped ==
  ASSUME CacheInv, CacheTyped, NEW c \in Commands, Kill(c) PROVE CacheTyped'
<1>1. /\ UNCHANGED responses
      /\ job' = [j \in Jobs |-> IF j \in PoolOf(c) THEN [job[j] EXCEPT !.at = "failed", !.results = <<>>,
                                                                    !.answer = "none", !.seen = {}]
                                ELSE job[j]]
  BY DEF Kill
<1>2. ASSUME NEW j \in Jobs
      PROVE  JobTyped(job'[j]) /\ job'[j].cmd = job[j].cmd /\ (job'[j].at \in OutOfFlight \/ job'[j].at = job[j].at)
  <2>1. JobTyped(job[j])
    BY DEF CacheTyped
  <2>2. CASE j \in PoolOf(c)
    <3>1. /\ job'[j].at = "failed" /\ job'[j].cmd = job[j].cmd /\ job'[j].todo = job[j].todo
          /\ job'[j].asked = job[j].asked
      BY <1>1, <2>2 DEF CacheInv, JobShape, JobFields
    <3>2. QED
      BY <2>1, <3>1 DEF JobTyped, JobSteps, OutOfFlight
  <2>3. CASE j \notin PoolOf(c)
    BY <1>1, <2>1, <2>3
  <2>4. QED
    BY <2>2, <2>3
<1>3. QED
  BY <1>1, <1>2, PoolTyped

LEMMA CacheTypedInit == Init => CacheTyped
<1> SUFFICES ASSUME Init PROVE CacheTyped
  OBVIOUS
<1>1. plan \in Plans /\ responses \in plan.earlier
  BY DEF Init
<1>2. RowsTyped
  BY <1>1, PlanConstants DEF RowsTyped
<1>3. ASSUME NEW j \in Jobs PROVE JobTyped(job[j]) /\ job[j].at = "queued"
  <2>1. plan.script[j] \in Seq(Request) \ {<<>>} /\ plan.cmd[j] \in Commands
    BY <1>1, <1>3, PlanConstants DEF Request
  <2>2. Head(plan.script[j]) \in Request
    BY <2>1, HeadTailProperties
  <2>3. job[j] = Queued(plan.cmd[j], plan.script[j])
    BY DEF Init
  <2>4. QED
    BY <2>1, <2>2, <2>3 DEF Queued, JobTyped, JobSteps
<1>4. ASSUME NEW c \in Commands PROVE Cardinality(InFlight(c)) <= Concurrency
  <2>1. InFlight(c) = {}
    BY <1>3 DEF InFlight
  <2>2. QED
    BY <2>1, FS_EmptySet, CacheConstants
<1>5. QED
  BY <1>2, <1>3, <1>4 DEF CacheTyped, SlotsKept

LEMMA CacheTypedNext == CacheInv /\ CacheTyped /\ [Next]_vars => CacheTyped'
<1> SUFFICES ASSUME CacheInv, CacheTyped, [Next]_vars PROVE CacheTyped'
  OBVIOUS
<1>1. ASSUME NEW j \in Jobs, Generate(j) PROVE CacheTyped'
  BY <1>1, GenerateTyped DEF Generate
<1>2. ASSUME UNCHANGED <<responses, job>> PROVE CacheTyped'
  BY <1>2 DEF CacheTyped, RowsTyped, SlotsKept, InFlight
<1>3. ASSUME NEW c \in Commands, Evaluate(c) \/ GradeNext(c) \/ CompareNext(c) \/ Fail(c) PROVE CacheTyped'
  BY <1>2, <1>3 DEF Evaluate, GradeNext, CompareNext, Fail
<1>4. ASSUME NEW c \in Commands, PoolDone(c) PROVE CacheTyped'
  BY <1>4, PoolDoneTyped
<1>5. ASSUME NEW c \in Commands, Kill(c) PROVE CacheTyped'
  BY <1>5, KillTyped
<1>6. CASE UNCHANGED vars
  BY <1>2, <1>6 DEF vars
<1>7. QED
  BY <1>1, <1>3, <1>4, <1>5, <1>6 DEF Next, AllEnded

-----------------------------------------------------------------------------
(***************************************************************************)
(* Faults.                                                                 *)
(***************************************************************************)

LEMMA FaultCounts ==
  ASSUME FaultsBounded, UNCHANGED killed, UNCHANGED faults \/ \E ok \in BOOLEAN : Attempt(ok)
  PROVE  FaultsBounded'
<1>1. Cardinality(killed) \in Nat
  BY FS_CardinalityType DEF FaultsBounded
<1>2. CASE UNCHANGED faults
  BY <1>2 DEF FaultsBounded
<1>3. ASSUME NEW ok \in BOOLEAN, Attempt(ok) PROVE FaultsBounded'
  <2>1. /\ ok \/ faults + Cardinality(killed) < MaxFaults
        /\ faults' = IF ok THEN faults ELSE faults + 1
    BY <1>3 DEF Attempt, AnotherFault
  <2>2. QED
    BY <1>1, <2>1, FaultsConstant DEF FaultsBounded
<1>4. QED
  BY <1>2, <1>3

LEMMA FaultsNext == FaultsBounded /\ [Next]_vars => FaultsBounded'
<1> SUFFICES ASSUME FaultsBounded, [Next]_vars PROVE FaultsBounded'
  OBVIOUS
<1>1. ASSUME NEW j \in Jobs, Generate(j) PROVE FaultsBounded'
  <2>1. UNCHANGED faults \/ \E ok \in BOOLEAN : Attempt(ok)
    BY <1>1 DEF Generate, JobStep, TakeSlot, StartRequest, Number, Lookup, Answer, Insert, Reuse
  <2>2. QED
    BY <1>1, <2>1, FaultCounts DEF Generate, JobStep
<1>2. ASSUME NEW c \in Commands, Evaluate(c) PROVE FaultsBounded'
  <2>1. UNCHANGED faults \/ \E ok \in BOOLEAN : Attempt(ok)
    <3>1. CASE LookupGrade(c) \/ ListFlags(c) \/ AskGrader(c) \/ InsertGrade(c)
      BY <3>1, Zenon DEF LookupGrade, ListFlags, AskGrader, InsertGrade
    <3>2. CASE Reconcile(c) \/ FileFlag(c) \/ PairwiseBad(c) \/ NextGrader(c)
      BY <3>2, Zenon DEF Reconcile, FileFlag, PairwiseBad, NextGrader
    <3>3. CASE CompareFirst(c) \/ CompareReversed(c)
      <4>1. \A row : StoreRow(c, row) => \E ok \in BOOLEAN : Attempt(ok)
        BY DEF StoreRow
      <4>2. QED
        BY <3>3, <4>1 DEF CompareFirst, CompareReversed
    <3>4. QED
      BY <1>2, <3>1, <3>2, <3>3 DEF Evaluate, GradingStep
  <2>2. QED
    BY <1>2, <2>1, FaultCounts DEF Evaluate, GradingStep
<1>3. ASSUME NEW c \in Commands, PoolDone(c) \/ GradeNext(c) \/ CompareNext(c) \/ Fail(c) PROVE FaultsBounded'
  BY <1>3, FaultCounts DEF PoolDone, GradeNext, CompareNext, Fail
<1>4. ASSUME NEW c \in Commands, Kill(c) PROVE FaultsBounded'
  <2>1. /\ faults + Cardinality(killed) < MaxFaults /\ c \notin killed
        /\ killed' = killed \cup {c} /\ UNCHANGED faults
    BY <1>4 DEF Kill, AnotherFault, Runs
  <2>2. IsFiniteSet(killed') /\ Cardinality(killed') = Cardinality(killed) + 1
    BY <2>1, FS_AddElement DEF FaultsBounded
  <2>3. Cardinality(killed) \in Nat
    BY FS_CardinalityType DEF FaultsBounded
  <2>4. QED
    BY <2>1, <2>2, <2>3, FaultsConstant DEF FaultsBounded
<1>5. CASE UNCHANGED vars
  BY <1>5, FaultCounts DEF vars
<1>6. QED
  BY <1>1, <1>2, <1>3, <1>4, <1>5 DEF Next, AllEnded

LEMMA FaultsInit == Init => FaultsBounded
  BY FS_EmptySet, FaultsConstant DEF Init, FaultsBounded

-----------------------------------------------------------------------------
(***************************************************************************)
(* Types of grading.                                                       *)
(***************************************************************************)

\* What the parser accepts has a score of 0 to 4 for every criterion.
LEMMA OutcomesInRange ==
  ASSUME NEW of
  PROVE  Outcomes(OneOfEach(of)) \ {Rejected} \subseteq [Criteria -> 0..4]
<1>1. ASSUME NEW s \in OneOfEach(of), ValidScores(s) PROVE s \in [Criteria -> 0..4]
  <2> DEFINE all == UNION {of[i] : i \in Criteria}
  <2>1. s \in [Criteria -> all]
    BY <1>1 DEF OneOfEach
  <2>2. \A i \in Criteria : s[i] \in 0..4
    BY <1>1 DEF ValidScores
  <2> HIDE DEF all
  <2>3. QED
    BY <2>1, <2>2
<1>2. QED
  BY <1>1 DEF Outcomes

LEMMA DecodedInRange ==
  ASSUME NEW reply, NEW shape
  PROVE  DecodeAs(reply, shape) \ {Rejected} \subseteq [Criteria -> 0..4]
<1>1. ASSUME NEW entries, NEW as
      PROVE  Outcomes(Merges(entries, as)) \ {Rejected} \subseteq [Criteria -> 0..4]
  <2> DEFINE of == [i \in Criteria |->
                     UNION {Score(entries[k].value, as) :
                              k \in {k \in DOMAIN entries : CriterionOf(entries[k].name) = i}}]
  <2>1. Merges(entries, as) = OneOfEach(of)
    BY DEF Merges
  <2> HIDE DEF of
  <2>2. QED
    BY <2>1, OutcomesInRange
<1>2. ASSUME NEW container PROVE DecodeScores(container) \ {Rejected} \subseteq [Criteria -> 0..4]
  <2> DEFINE entries == container.entries
             object == container.form = "object"
             list == container.form = "list"
  <2>1. CASE object /\ AllRead(entries, "flat")
    BY <1>1, <2>1 DEF DecodeScores
  <2>2. CASE object /\ ~AllRead(entries, "flat") /\ AllRead(entries, "wrapped")
    BY <1>1, <2>2 DEF DecodeScores
  <2>3. CASE list /\ AllRead(entries, "wrapped")
    <3>1. DecodeScores(container) = Outcomes(Merges(LastOfEach(entries), "wrapped"))
      BY <2>3 DEF DecodeScores
    <3>2. QED
      BY <1>1, <3>1
  <2>4. CASE /\ ~(object /\ AllRead(entries, "flat"))
             /\ ~(object /\ ~AllRead(entries, "flat") /\ AllRead(entries, "wrapped"))
             /\ ~(list /\ AllRead(entries, "wrapped"))
    <3>1. DecodeScores(container) = {Rejected}
      BY <2>4 DEF DecodeScores
    <3>2. QED
      BY <3>1
  <2>5. QED
    BY <2>1, <2>2, <2>3, <2>4
<1>3. DecodeScoresAtRoot(reply) \ {Rejected} \subseteq [Criteria -> 0..4]
  <2> DEFINE of == [i \in Criteria |-> IF i \in DOMAIN reply.own THEN RootScore(reply.own[i]) ELSE {}]
  <2>1. DecodeScoresAtRoot(reply) = Outcomes(OneOfEach(of))
    BY DEF DecodeScoresAtRoot
  <2> HIDE DEF of
  <2>2. QED
    BY <2>1, OutcomesInRange
<1>4. \/ DecodeAs(reply, shape) = {Rejected}
      \/ DecodeAs(reply, shape) = DecodeScoresAtRoot(reply)
      \/ \E container : DecodeAs(reply, shape) = DecodeScores(container)
  BY DEF DecodeAs
<1>5. QED
  BY <1>2, <1>3, <1>4

LEMMA ParsedInRange ==
  ASSUME NEW reply
  PROVE  ParseAbsoluteGrade(reply) \ {Rejected} \subseteq [Criteria -> 0..4]
<1>1. \/ ParseAbsoluteGrade(reply) = {Rejected}
      \/ \A s \in ParseAbsoluteGrade(reply) \ {Rejected} : \E shape : s \in DecodeAs(reply, shape)
  <2> DEFINE shapes == ShapesFor(reply)
             mayReject(i) == Rejected \in DecodeAs(reply, shapes[i])
             reached(i) == \A k \in 1..(i - 1) : mayReject(k)
             accepted == UNION {DecodeAs(reply, shapes[i]) \ {Rejected} : i \in {i \in DOMAIN shapes : reached(i)}}
             rejected == IF \A i \in DOMAIN shapes : mayReject(i) THEN {Rejected} ELSE {}
  <2>1. \A s \in accepted : \E shape : s \in DecodeAs(reply, shape)
    OBVIOUS
  <2>2. rejected \subseteq {Rejected}
    OBVIOUS
  <2>3. ParseAbsoluteGrade(reply) = IF ~reply.json THEN {Rejected} ELSE accepted \cup rejected
    BY Zenon DEF ParseAbsoluteGrade
  <2> HIDE DEF accepted, rejected
  <2>4. QED
    BY <2>1, <2>2, <2>3
<1>2. QED
  BY <1>1, DecodedInRange

Graded == [row : Row, grader : Graders]

Scores == [Criteria -> 0..4]

\* A call of Grade.
CallTyped(call) ==
  /\ call.at \in GradeSteps => call.grader \in Graders
  /\ call.at \in {"inserting", "reconciling"} => call.found.flagged \subseteq Flags
  /\ call.at = "inserting" => call.found.scores \in Scores
  /\ call.at = "filing" => call.toFile \subseteq Flags

GradeTyped(r) == r.grader \in Graders /\ r.flagged \subseteq Flags /\ r.by \in Commands /\ r.scores \in Scores

PlanTyped ==
  /\ plan \in Plans
  /\ DOMAIN progress = Commands
  /\ \A c \in Commands : {"phase", "jobs", "toGrade"} \subseteq DOMAIN progress[c] /\ progress[c].toGrade \in Seq(Graded)

GradesTyped ==
  /\ \A c \in Commands : CallTyped(service[c])
  /\ \A r \in grades : GradeTyped(r)
  /\ \A f \in flagRows : f.flag \in Flags

LEMMA FunctionIsSeq ==
  ASSUME NEW S, NEW n \in Nat, NEW f \in [1..n -> S] PROVE f \in Seq(S)
  OBVIOUS

\* SetToSeq lists the members of a finite set.
LEMMA SetToSeqLists ==
  ASSUME NEW S, IsFiniteSet(S) PROVE SetToSeq(S) \in [1..Cardinality(S) -> S]
<1>1. \E f \in [1..Cardinality(S) -> S] : IsInjective(f)
  <2>1. ExistsBijection(1..Cardinality(S), S)
    BY FS_CardinalityType
  <2>2. QED
    BY <2>1 DEF ExistsBijection, Bijection, Injection, Surjection, IsInjective
<1>2. QED
  BY <1>1 DEF SetToSeq

\* The responses to grade come from the results of the pool's jobs.
LEMMA GradingListTyped ==
  ASSUME CacheInv, CacheTyped, PlanTyped, NEW c \in Commands PROVE GradingList(c) \in Seq(Graded)
<1> DEFINE n == Cardinality(PoolOf(c))
           ones(i, k) == [r \in DOMAIN job[JobSeq(c)[i]].results |->
                            [row |-> job[JobSeq(c)[i]].results[r], grader |-> plan.graders[c][k]]]
           case(i) == [k \in DOMAIN plan.graders[c] |-> ones(i, k)]
           cases == [i \in 1..n |-> FlattenSeq(case(i))]
<1>1. n \in Nat /\ JobSeq(c) \in [1..n -> PoolOf(c)] /\ PoolOf(c) \subseteq Jobs
  <2>1. PoolOf(c) \subseteq Jobs /\ IsFiniteSet(PoolOf(c))
    BY PlanConstants, FS_Subset DEF PoolOf
  <2>2. QED
    BY <2>1, SetToSeqLists, FS_CardinalityType DEF JobSeq
<1>2. plan.graders[c] \in Seq(Graders)
  BY PlanConstants DEF PlanTyped
<1>3. ASSUME NEW i \in 1..n PROVE FlattenSeq(case(i)) \in Seq(Graded)
  <2>1. JobSeq(c)[i] \in Jobs
    BY <1>1
  <2>2. job[JobSeq(c)[i]].results \in Seq(Row)
    BY <2>1, SeqOfMore DEF CacheInv, JobInv, CacheTyped, RowsTyped
  <2>3. ASSUME NEW k \in DOMAIN plan.graders[c] PROVE ones(i, k) \in Seq(Graded)
    <3> DEFINE results == job[JobSeq(c)[i]].results
    <3>1. plan.graders[c][k] \in Graders
      BY <1>2
    <3>2. Len(results) \in Nat /\ DOMAIN results = 1..Len(results) /\ \A r \in 1..Len(results) : results[r] \in Row
      BY <2>2
    <3> HIDE DEF results
    <3>3. ones(i, k) \in [1..Len(results) -> Graded]
      BY <3>1, <3>2 DEF Graded, results
    <3>4. QED
      BY <3>2, <3>3, FunctionIsSeq
  <2>4. case(i) \in Seq(Seq(Graded))
    <3> HIDE DEF ones
    <3>1. Len(plan.graders[c]) \in Nat /\ DOMAIN plan.graders[c] = 1..Len(plan.graders[c])
      BY <1>2
    <3>2. case(i) \in [1..Len(plan.graders[c]) -> Seq(Graded)]
      BY <2>3, <3>1
    <3>3. QED
      BY <3>1, <3>2, FunctionIsSeq
  <2>5. QED
    BY <2>4, FlattenHolds
<1>4. cases \in Seq(Seq(Graded))
  <2> HIDE DEF case
  <2>1. cases \in [1..n -> Seq(Graded)]
    BY <1>3
  <2> HIDE DEF cases, n
  <2>2. QED
    BY <1>1, <2>1, FunctionIsSeq
<1>5. GradingList(c) = FlattenSeq(cases)
  BY DEF GradingList
<1> HIDE DEF cases
<1>6. QED
  BY <1>4, <1>5, FlattenHolds

\* A step of c that leaves the calls of the others alone.
LEMMA CallGoesTyped ==
  ASSUME GradesTyped, DOMAIN service = Commands, NEW c \in Commands,
         NEW next, service' = [service EXCEPT ![c] = next], CallTyped(next),
         \A r \in grades' : r \in grades \/ GradeTyped(r),
         \A f \in flagRows' : f \in flagRows \/ f.flag \in Flags
  PROVE  GradesTyped'
<1>1. \A d \in Commands : service'[d] = IF d = c THEN next ELSE service[d]
  OBVIOUS
<1>2. QED
  BY <1>1 DEF GradesTyped

\* A call that is not one of Grade, or has failed.
LEMMA OutTyped ==
  ASSUME GradesTyped, DOMAIN service = Commands, NEW c \in Commands, UNCHANGED <<grades, flagRows>>,
         NEW next, service' = [service EXCEPT ![c] = next], next.at \notin GradeSteps
  PROVE  GradesTyped'
<1>1. CallTyped(next)
  BY DEF CallTyped, GradeSteps
<1>2. QED
  BY <1>1, CallGoesTyped

LEMMA FailsTyped ==
  ASSUME GradesTyped, GradingInv, NEW c \in Commands, UNCHANGED <<grades, flagRows>>, GradingGo(c, "error")
  PROVE  GradesTyped'
<1> DEFINE next == [service[c] EXCEPT !.at = "error"]
<1>1. service' = [service EXCEPT ![c] = next]
  BY DEF GradingGo
<1>2. next.at = "error" /\ DOMAIN service = Commands
  BY DEF GradingInv, CallOk
<1> HIDE DEF next
<1>3. QED
  BY <1>1, <1>2, OutTyped DEF GradeSteps

LEMMA GradeStepTyped ==
  ASSUME GradesTyped, GradingInv, NEW c \in Commands,
         LookupGrade(c) \/ ListFlags(c) \/ AskGrader(c)
  PROVE  GradesTyped'
<1>1. /\ service[c].at \in GradeSteps /\ UNCHANGED <<grades, flagRows>>
  BY DEF LookupGrade, ListFlags, AskGrader, GradingAt, GradeSteps
<1>2. GradeFields \subseteq DOMAIN service[c] /\ DOMAIN service = Commands /\ service[c].grader \in Graders
  BY <1>1 DEF GradingInv, CallOk, GradesTyped, CallTyped
<1>3. ASSUME NEW next, service' = [service EXCEPT ![c] = next], next.grader = service[c].grader,
             \/ next.at \in {"lookup", "listing", "asking", "graded"}
             \/ next.at = "inserting" /\ next.found.flagged \subseteq Flags /\ next.found.scores \in Scores
      PROVE  GradesTyped'
  <2>1. CallTyped(next)
    BY <1>2, <1>3 DEF CallTyped
  <2>2. QED
    BY <1>1, <1>2, <1>3, <2>1, CallGoesTyped
<1>4. CASE LookupGrade(c)
  <2>1. ASSUME NEW row, service' = [service EXCEPT ![c].at = "listing", ![c].row = row] PROVE GradesTyped'
    <3> DEFINE next == [service[c] EXCEPT !.at = "listing", !.row = row]
    <3>1. service' = [service EXCEPT ![c] = next] /\ next.at = "listing" /\ next.grader = service[c].grader
      BY <1>2, <2>1 DEF GradeFields
    <3> HIDE DEF next
    <3>2. QED
      BY <1>3, <3>1
  <2>2. CASE GradingGo(c, "asking")
    <3> DEFINE next == [service[c] EXCEPT !.at = "asking"]
    <3>1. service' = [service EXCEPT ![c] = next] /\ next.at = "asking" /\ next.grader = service[c].grader
      BY <1>2, <2>2 DEF GradeFields, GradingGo
    <3> HIDE DEF next
    <3>2. QED
      BY <1>3, <3>1
  <2>3. QED
    BY <1>4, <2>1, <2>2 DEF LookupGrade
<1>5. CASE ListFlags(c)
  <2>1. ASSUME NEW flags, service' = [service EXCEPT ![c].at = "graded", ![c].flags = flags] PROVE GradesTyped'
    <3> DEFINE next == [service[c] EXCEPT !.at = "graded", !.flags = flags]
    <3>1. service' = [service EXCEPT ![c] = next] /\ next.at = "graded" /\ next.grader = service[c].grader
      BY <1>2, <2>1 DEF GradeFields
    <3> HIDE DEF next
    <3>2. QED
      BY <1>3, <3>1
  <2>2. QED
    BY <1>1, <1>5, <2>1, FailsTyped DEF ListFlags
<1>6. CASE AskGrader(c)
  <2>1. ASSUME NEW reply \in Replies, Accept(c, reply) PROVE GradesTyped'
    <3>1. PICK scores \in Parsed[reply] \ {Rejected} :
            service' = [service EXCEPT ![c].at = "inserting", ![c].retried = FALSE,
                                       ![c].found = [scores |-> scores, flagged |-> reply.raised]]
      BY <2>1 DEF Accept
    <3>2. scores \in Scores
      BY ParsedInRange DEF Parsed, Scores
    <3>3. reply.raised \subseteq Flags
      BY RepliesConstant
    <3> DEFINE found == [scores |-> scores, flagged |-> reply.raised]
               next == [service[c] EXCEPT !.at = "inserting", !.retried = FALSE, !.found = found]
    <3>4. service' = [service EXCEPT ![c] = next]
      BY <3>1
    <3>5. found.flagged \subseteq Flags /\ found.scores \in Scores
      BY <3>2, <3>3
    <3> HIDE DEF found
    <3>6. next.at = "inserting" /\ next.grader = service[c].grader /\ next.found = found
      BY <1>2 DEF GradeFields
    <3> HIDE DEF next
    <3>7. QED
      BY <1>3, <3>4, <3>5, <3>6
  <2>2. CASE service[c].at = "asking" /\ service' = [service EXCEPT ![c].retried = TRUE]
    <3> DEFINE next == [service[c] EXCEPT !.retried = TRUE]
    <3>1. service' = [service EXCEPT ![c] = next] /\ next.at = "asking" /\ next.grader = service[c].grader
      BY <1>2, <2>2 DEF GradeFields
    <3> HIDE DEF next
    <3>2. QED
      BY <1>3, <3>1
  <2>3. QED
    BY <1>1, <1>6, <2>1, <2>2, FailsTyped DEF AskGrader, GradingAt
<1>7. QED
  BY <1>4, <1>5, <1>6

LEMMA InsertGradeTyped ==
  ASSUME GradesTyped, GradingInv, NEW c \in Commands, InsertGrade(c) PROVE GradesTyped'
<1>1. service[c].at = "inserting" /\ UNCHANGED flagRows
  BY DEF InsertGrade, GradingAt
<1>2. /\ GradeFields \subseteq DOMAIN service[c] /\ DOMAIN service = Commands /\ service[c].grader \in Graders
      /\ service[c].found.flagged \subseteq Flags /\ service[c].found.scores \in Scores
  BY <1>1 DEF GradingInv, CallOk, GradesTyped, CallTyped, GradeSteps
<1>3. ASSUME NEW next, service' = [service EXCEPT ![c] = next], next.at = "reconciling",
             next.grader = service[c].grader, next.found = service[c].found,
             \A r \in grades' : r \in grades \/ GradeTyped(r)
      PROVE  GradesTyped'
  <2>1. CallTyped(next)
    BY <1>2, <1>3 DEF CallTyped
  <2>2. QED
    BY <1>1, <1>2, <1>3, <2>1, CallGoesTyped
<1> DEFINE new == [resp |-> Call(c).resp, grader |-> Call(c).grader, by |-> c,
                   scores |-> Call(c).found.scores, flagged |-> Call(c).found.flagged]
<1>4. GradeTyped(new)
  BY <1>2 DEF GradeTyped, Call
<1> HIDE DEF new
<1>5. ASSUME grades' = grades \cup {new},
             service' = [service EXCEPT ![c].at = "reconciling", ![c].stored = TRUE, ![c].row = new]
      PROVE  GradesTyped'
  <2> DEFINE next == [service[c] EXCEPT !.at = "reconciling", !.stored = TRUE, !.row = new]
  <2>1. service' = [service EXCEPT ![c] = next]
    BY <1>5
  <2>2. next.at = "reconciling" /\ next.grader = service[c].grader /\ next.found = service[c].found
    BY <1>2 DEF GradeFields
  <2> HIDE DEF next
  <2>3. QED
    BY <1>3, <1>4, <1>5, <2>1, <2>2
<1>6. ASSUME NEW row, UNCHANGED grades, service' = [service EXCEPT ![c].at = "reconciling", ![c].row = row]
      PROVE  GradesTyped'
  <2> DEFINE next == [service[c] EXCEPT !.at = "reconciling", !.row = row]
  <2>1. service' = [service EXCEPT ![c] = next]
    BY <1>6
  <2>2. next.at = "reconciling" /\ next.grader = service[c].grader /\ next.found = service[c].found
    BY <1>2 DEF GradeFields
  <2> HIDE DEF next
  <2>3. QED
    BY <1>3, <1>6, <2>1, <2>2
<1>7. ASSUME UNCHANGED grades, GradingGo(c, "error") PROVE GradesTyped'
  BY <1>1, <1>7, FailsTyped
<1>8. QED
  BY <1>5, <1>6, <1>7 DEF InsertGrade, new

LEMMA ReconcileTyped ==
  ASSUME GradesTyped, GradingInv, NEW c \in Commands, Reconcile(c) PROVE GradesTyped'
<1>1. service[c].at = "reconciling" /\ UNCHANGED <<grades, flagRows>>
  BY DEF Reconcile, GradingAt
<1>2. /\ GradeFields \subseteq DOMAIN service[c] /\ DOMAIN service = Commands /\ service[c].grader \in Graders
      /\ service[c].found.flagged \subseteq Flags
  BY <1>1 DEF GradingInv, CallOk, GradesTyped, CallTyped, GradeSteps
<1> DEFINE there == FlagsOf(Call(c).resp, Call(c).grader)
           raised == Call(c).found.flagged
           step == IF raised = {} THEN "graded" ELSE "filing"
           known == [service[c] EXCEPT !.at = "graded", !.flags = there]
           unknown == [service[c] EXCEPT !.at = step, !.toFile = raised]
<1>3. service' = [service EXCEPT ![c] = known] \/ service' = [service EXCEPT ![c] = unknown]
  BY DEF Reconcile
<1>4. step \in {"graded", "filing"} /\ raised = service[c].found.flagged
  BY DEF Call
<1> HIDE DEF there, raised, step
<1>5. known.at = "graded" /\ known.grader = service[c].grader
  BY <1>2 DEF GradeFields
<1>6. unknown.at = step /\ unknown.grader = service[c].grader /\ unknown.toFile = raised
  BY <1>2 DEF GradeFields
<1> HIDE DEF known, unknown
<1>7. CallTyped(known) /\ CallTyped(unknown)
  BY <1>2, <1>4, <1>5, <1>6 DEF CallTyped
<1>8. QED
  BY <1>1, <1>2, <1>3, <1>7, CallGoesTyped

LEMMA FileFlagTyped ==
  ASSUME GradesTyped, GradingInv, NEW c \in Commands, FileFlag(c) PROVE GradesTyped'
<1>1. service[c].at = "filing" /\ UNCHANGED grades
  BY DEF FileFlag, GradingAt
<1>2. /\ GradeFields \subseteq DOMAIN service[c] /\ DOMAIN service = Commands /\ service[c].grader \in Graders
      /\ service[c].toFile \subseteq Flags
  BY <1>1 DEF GradingInv, CallOk, GradesTyped, CallTyped, GradeSteps
<1>3. ASSUME NEW flag \in service[c].toFile,
             \A f \in flagRows' : f \in flagRows \/ f.flag = flag,
             service' = [service EXCEPT ![c].at = IF Call(c).toFile = {flag} THEN "graded" ELSE "filing",
                                        ![c].toFile = @ \ {flag}, ![c].flags = @ \cup {flag}]
      PROVE  GradesTyped'
  <2> DEFINE step == IF Call(c).toFile = {flag} THEN "graded" ELSE "filing"
             next == [service[c] EXCEPT !.at = step, !.toFile = @ \ {flag}, !.flags = @ \cup {flag}]
  <2>1. service' = [service EXCEPT ![c] = next]
    BY <1>3
  <2>2. step \in {"graded", "filing"}
    OBVIOUS
  <2> HIDE DEF step
  <2>3. next.at = step /\ next.grader = service[c].grader /\ next.toFile = service[c].toFile \ {flag}
    BY <1>2 DEF GradeFields
  <2> HIDE DEF next
  <2>4. CallTyped(next)
    BY <1>2, <2>2, <2>3 DEF CallTyped
  <2>5. (\A r \in grades' : r \in grades \/ GradeTyped(r)) /\ \A f \in flagRows' : f \in flagRows \/ f.flag \in Flags
    BY <1>1, <1>2, <1>3
  <2>6. QED
    BY <1>2, <2>1, <2>4, <2>5, CallGoesTyped
<1>5. PICK flag \in service[c].toFile, ok \in BOOLEAN :
        /\ flagRows' = WithFlag(c, flag) \/ (~ok /\ UNCHANGED flagRows)
        /\ IF ok
           THEN service' = [service EXCEPT ![c].at = IF Call(c).toFile = {flag} THEN "graded" ELSE "filing",
                                           ![c].toFile = @ \ {flag}, ![c].flags = @ \cup {flag}]
           ELSE GradingGo(c, "error")
  BY DEF FileFlag, Call
<1>6. \A f \in flagRows' : f \in flagRows \/ f.flag = flag
  <2> DEFINE new == [resp |-> Call(c).resp, grader |-> Call(c).grader, flag |-> flag, by |-> c]
  <2>1. new.flag = flag
    OBVIOUS
  <2>2. flagRows' = flagRows \/ flagRows' = flagRows \cup {new}
    BY <1>5 DEF WithFlag
  <2> HIDE DEF new
  <2>3. QED
    BY <2>1, <2>2
<1>4. ASSUME GradingGo(c, "error") PROVE GradesTyped'
  <2> DEFINE next == [service[c] EXCEPT !.at = "error"]
  <2>1. service' = [service EXCEPT ![c] = next]
    BY <1>4 DEF GradingGo
  <2>2. next.at = "error"
    BY <1>2 DEF GradeFields
  <2> HIDE DEF next
  <2>3. CallTyped(next) /\ (\A r \in grades' : r \in grades) /\ (\A f \in flagRows' : f \in flagRows \/ f.flag \in Flags)
    BY <1>1, <1>2, <1>6, <2>2 DEF CallTyped, GradeSteps
  <2>4. QED
    BY <1>2, <2>1, <2>3, CallGoesTyped
<1>7. QED
  BY <1>3, <1>4, <1>5, <1>6

LEMMA PairwiseTyped ==
  ASSUME GradesTyped, GradingInv, NEW c \in Commands,
         PairwiseBad(c) \/ CompareFirst(c) \/ CompareReversed(c) \/ NextGrader(c)
  PROVE  GradesTyped'
<1>1. service[c].at \in PairSteps /\ UNCHANGED <<grades, flagRows>>
  BY DEF PairwiseBad, CompareFirst, CompareReversed, NextGrader, GradingAt, Call, PairSteps
<1>2. PairFields \subseteq DOMAIN service[c] /\ service[c].at \notin GradeSteps /\ DOMAIN service = Commands
  BY <1>1 DEF GradingInv, CallOk, PairSteps, GradeSteps
<1>3. ASSUME NEW row, StoreRow(c, row) PROVE GradesTyped'
  <2> DEFINE step == IF row.final THEN "decided" ELSE "reversing"
             next == [service[c] EXCEPT !.at = step, !.rows = Append(@, row), !.retried = FALSE]
  <2>1. GradingGo(c, "error") \/ service' = [service EXCEPT ![c] = next]
    BY <1>3 DEF StoreRow
  <2>2. step \in {"decided", "reversing"}
    OBVIOUS
  <2> HIDE DEF step
  <2>3. next.at = step
    BY <1>2 DEF PairFields
  <2> HIDE DEF next
  <2>4. QED
    BY <1>1, <1>2, <2>1, <2>2, <2>3, OutTyped, FailsTyped DEF GradeSteps
<1>4. CASE PairwiseBad(c)
  <2> DEFINE next == [service[c] EXCEPT !.retried = TRUE]
  <2>1. GradingGo(c, "error") \/ service' = [service EXCEPT ![c] = next]
    BY <1>4 DEF PairwiseBad
  <2>2. next.at = service[c].at
    BY <1>2 DEF PairFields
  <2> HIDE DEF next
  <2>3. QED
    BY <1>1, <1>2, <2>1, <2>2, OutTyped, FailsTyped
<1>5. CASE CompareFirst(c)
  BY <1>3, <1>5 DEF CompareFirst
<1>6. CASE CompareReversed(c)
  BY <1>3, <1>6 DEF CompareReversed
<1>7. CASE NextGrader(c)
  <2> DEFINE step == IF Len(Call(c).sides) = 1 THEN "compared" ELSE "comparing"
             next == [service[c] EXCEPT !.at = step, !.sides = Append(@, FinalSide(c)), !.rows = <<>>]
  <2>1. service' = [service EXCEPT ![c] = next]
    BY <1>7 DEF NextGrader
  <2>2. step \in {"compared", "comparing"}
    OBVIOUS
  <2> HIDE DEF step
  <2>3. next.at = step
    BY <1>2 DEF PairFields
  <2> HIDE DEF next
  <2>4. QED
    BY <1>1, <1>2, <2>1, <2>2, <2>3, OutTyped DEF GradeSteps
<1>8. QED
  BY <1>4, <1>5, <1>6, <1>7

LEMMA CallBeginsTyped ==
  ASSUME GradesTyped, PlanTyped, DOMAIN service = Commands, NEW c \in Commands,
         GradeNext(c) \/ CompareNext(c) \/ Fail(c) \/ Kill(c)
  PROVE  GradesTyped'
<1>1. UNCHANGED <<grades, flagRows>>
  BY DEF GradeNext, CompareNext, Fail, Kill
<1>2. CASE service' = [service EXCEPT ![c] = Idle]
  <2>1. Idle.at \notin GradeSteps
    BY DEF Idle, GradeSteps
  <2>2. QED
    BY <1>1, <1>2, <2>1, OutTyped
<1>3. ASSUME NEW resp, NEW g \in Graders, Grade(c, resp, g) PROVE GradesTyped'
  <2> DEFINE call == [at |-> "lookup", resp |-> resp, grader |-> g, found |-> NoGrade, toFile |-> {},
                      retried |-> FALSE, stored |-> FALSE, row |-> NoGrade, flags |-> {}]
  <2>1. service' = [service EXCEPT ![c] = call]
    BY <1>3 DEF Grade
  <2>2. call.at = "lookup" /\ call.grader = g
    OBVIOUS
  <2> HIDE DEF call
  <2>3. CallTyped(call)
    BY <2>2 DEF CallTyped
  <2>4. QED
    BY <1>1, <2>1, <2>3, CallGoesTyped
<1>4. ASSUME NEW graders, Compare(c, graders) PROVE GradesTyped'
  <2> DEFINE call == [at |-> "comparing", graders |-> graders, sides |-> <<>>, rows |-> <<>>, retried |-> FALSE]
  <2>1. service' = [service EXCEPT ![c] = call]
    BY <1>4 DEF Compare
  <2>2. call.at \notin GradeSteps
    BY DEF GradeSteps
  <2> HIDE DEF call
  <2>3. QED
    BY <1>1, <2>1, <2>2, OutTyped
<1>5. progress[c].toGrade # <<>> => Head(progress[c].toGrade).grader \in Graders
  <2>1. progress[c].toGrade # <<>> => Head(progress[c].toGrade) \in Graded
    BY HeadTailProperties DEF PlanTyped
  <2>2. QED
    BY <2>1 DEF Graded
<1>6. QED
  BY <1>2, <1>3, <1>4, <1>5 DEF GradeNext, CompareNext, Fail, Kill

\* What a command has left to do.
LEMMA ProgressTyped ==
  ASSUME PlanTyped, UNCHANGED plan, NEW c \in Commands, NEW next, progress' = [progress EXCEPT ![c] = next],
         {"phase", "jobs", "toGrade"} \subseteq DOMAIN next, next.toGrade \in Seq(Graded)
  PROVE  PlanTyped'
<1>1. \A d \in Commands : progress'[d] = IF d = c THEN next ELSE progress[d]
  BY DEF PlanTyped
<1>2. QED
  BY <1>1 DEF PlanTyped

LEMMA NothingTyped ==
  ASSUME NEW phase
  PROVE  {"phase", "jobs", "toGrade"} \subseteq DOMAIN Nothing(phase) /\ Nothing(phase).toGrade \in Seq(Graded)
  BY EmptyIsSeq DEF Nothing

LEMMA GoToTyped ==
  ASSUME PlanTyped, UNCHANGED plan, NEW c \in Commands, NEW phase, GoTo(c, phase) PROVE PlanTyped'
<1> DEFINE next == [progress[c] EXCEPT !.phase = phase]
<1>1. progress' = [progress EXCEPT ![c] = next]
  BY DEF GoTo
<1>2. DOMAIN next = DOMAIN progress[c] /\ next.toGrade = progress[c].toGrade
  BY DEF PlanTyped
<1> HIDE DEF next
<1>3. QED
  BY <1>1, <1>2, ProgressTyped DEF PlanTyped

LEMMA PlanTypedNext == CacheInv /\ CacheTyped /\ PlanTyped /\ [Next]_vars => PlanTyped'
<1> SUFFICES ASSUME CacheInv, CacheTyped, PlanTyped, [Next]_vars PROVE PlanTyped'
  OBVIOUS
<1>1. ASSUME UNCHANGED <<plan, progress>> PROVE PlanTyped'
  BY <1>1 DEF PlanTyped
<1>2. ASSUME NEW c \in Commands, PoolDone(c) PROVE PlanTyped'
  <2> DEFINE list == [phase |-> "grading", jobs |-> JobSeq(c), toGrade |-> GradingList(c)]
             next == IF \E j \in PoolOf(c) : JobAt(j, "failed") THEN Nothing("failed") ELSE list
  <2>1. progress' = [progress EXCEPT ![c] = next] /\ UNCHANGED plan
    BY <1>2 DEF PoolDone
  <2>2. {"phase", "jobs", "toGrade"} \subseteq DOMAIN list /\ list.toGrade \in Seq(Graded)
    BY GradingListTyped
  <2>3. next = list \/ next = Nothing("failed")
    OBVIOUS
  <2> HIDE DEF list, next
  <2>4. QED
    BY <2>1, <2>2, <2>3, NothingTyped, ProgressTyped
<1>3. ASSUME NEW c \in Commands, GradeNext(c) PROVE PlanTyped'
  <2>1. CASE progress[c].toGrade # <<>> /\ progress' = [progress EXCEPT ![c].toGrade = Tail(@)]
    <3> DEFINE next == [progress[c] EXCEPT !.toGrade = Tail(@)]
    <3>1. progress' = [progress EXCEPT ![c] = next]
      BY <2>1
    <3>2. DOMAIN next = DOMAIN progress[c] /\ next.toGrade = Tail(progress[c].toGrade)
      BY DEF PlanTyped
    <3> HIDE DEF next
    <3>3. Tail(progress[c].toGrade) \in Seq(Graded)
      BY <2>1, HeadTailProperties DEF PlanTyped
    <3>4. QED
      BY <1>3, <3>1, <3>2, <3>3, ProgressTyped DEF PlanTyped, GradeNext
  <2>2. QED
    BY <1>3, <2>1, GoToTyped DEF GradeNext
<1>4. ASSUME NEW c \in Commands, CompareNext(c) PROVE PlanTyped'
  <2>1. CASE progress' = [progress EXCEPT ![c].jobs = Tail(@)]
    <3> DEFINE next == [progress[c] EXCEPT !.jobs = Tail(@)]
    <3>1. progress' = [progress EXCEPT ![c] = next]
      BY <2>1
    <3>2. DOMAIN next = DOMAIN progress[c] /\ next.toGrade = progress[c].toGrade
      BY DEF PlanTyped
    <3> HIDE DEF next
    <3>3. QED
      BY <1>4, <3>1, <3>2, ProgressTyped DEF PlanTyped, CompareNext
  <2>2. QED
    BY <1>4, <2>1, GoToTyped DEF CompareNext
<1>5. ASSUME NEW c \in Commands, Fail(c) PROVE PlanTyped'
  BY <1>5, GoToTyped DEF Fail
<1>6. ASSUME NEW c \in Commands, Kill(c) PROVE PlanTyped'
  BY <1>6, NothingTyped, ProgressTyped DEF Kill
<1>7. QED
  BY <1>1, <1>2, <1>3, <1>4, <1>5, <1>6 DEF Next, AllEnded, Generate, Evaluate, vars

LEMMA GradesTypedNext == GradingInv /\ PlanTyped /\ GradesTyped /\ [Next]_vars => GradesTyped'
<1> SUFFICES ASSUME GradingInv, PlanTyped, GradesTyped, [Next]_vars PROVE GradesTyped'
  OBVIOUS
<1>1. ASSUME UNCHANGED <<grades, flagRows, service>> PROVE GradesTyped'
  BY <1>1 DEF GradesTyped
<1>2. ASSUME NEW c \in Commands, Evaluate(c) PROVE GradesTyped'
  BY <1>2, GradeStepTyped, InsertGradeTyped, ReconcileTyped, FileFlagTyped, PairwiseTyped DEF Evaluate, GradingStep
<1>3. ASSUME NEW c \in Commands, GradeNext(c) \/ CompareNext(c) \/ Fail(c) \/ Kill(c) PROVE GradesTyped'
  BY <1>3, CallBeginsTyped DEF GradingInv
<1>4. QED
  BY <1>1, <1>2, <1>3 DEF Next, AllEnded, Generate, PoolDone, vars

LEMMA TypedInit == Init => PlanTyped /\ GradesTyped
<1> SUFFICES ASSUME Init PROVE PlanTyped /\ GradesTyped
  OBVIOUS
<1>1. PlanTyped
  BY NothingTyped DEF Init, PlanTyped
<1>2. \A c \in Commands : CallTyped(service[c])
  BY DEF Init, Idle, CallTyped, GradeSteps
<1>3. QED
  BY <1>1, <1>2 DEF Init, GradesTyped

\* The tables, the jobs, the calls of Grade and the counter of faults.
EvaluationInv ==
  CacheInv /\ GradingInv /\ WholeInv /\ CacheTyped /\ FaultsBounded /\ PlanTyped /\ GradesTyped

LEMMA EvaluationInvariant == Spec => []EvaluationInv
<1>1. Init => EvaluationInv
  BY CacheInit, GradingInit, WholeInit, CacheTypedInit, FaultsInit, TypedInit DEF EvaluationInv
<1>2. EvaluationInv /\ [Next]_vars => EvaluationInv'
  BY CacheNext, GradingNext, WholeNext, CacheTypedNext, FaultsNext, PlanTypedNext, GradesTypedNext DEF EvaluationInv
<1>3. QED
  BY <1>1, <1>2, PTL DEF Spec

\* Every reachable state of the commands is well formed: no two rows of
\* responses or of grades have one key, no flag is without its grade, a pool
\* keeps to its slots.
THEOREM EvaluationTypesHold == Spec => []EvaluationTypeOK
<1>1. ASSUME EvaluationInv PROVE CacheTypeOK
  <2>1. \A j \in Jobs : \A i \in DOMAIN job[j].results : job[j].results[i] \in responses
    BY <1>1 DEF EvaluationInv, CacheInv, JobInv
  <2>2. faults \in 0..MaxFaults
    <3>1. Cardinality(killed) \in Nat
      BY <1>1, FS_CardinalityType DEF EvaluationInv, FaultsBounded
    <3>2. QED
      BY <1>1, <3>1, FaultsConstant DEF EvaluationInv, FaultsBounded
  <2>3. QED
    BY <1>1, <2>1, <2>2 DEF EvaluationInv, CacheTyped, CacheTypeOK, RowsTyped, SlotsKept, JobTyped, JobSteps
<1>2. ASSUME EvaluationInv PROVE GradingTypeOK
  <2>1. \A f \in flagRows : GradesOf(f.resp, f.grader) # {} /\ f.flag \in Flags
    BY <1>2 DEF EvaluationInv, WholeInv, FlagsHaveGrades, GradesTyped, GradesOf
  <2>2. QED
    BY <1>2, <2>1 DEF EvaluationInv, GradingInv, UniqueGrades, GradesTyped, GradeTyped, Scores, GradingTypeOK
<1>3. QED
  BY <1>1, <1>2, EvaluationInvariant, PTL DEF EvaluationTypeOK
=============================================================================
