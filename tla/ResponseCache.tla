---------------------------- MODULE ResponseCache ----------------------------
(***************************************************************************)
(* Runner.GenerateResponse (internal/harness/cache.go) under Runner.Pool   *)
(* (internal/harness/harness.go): the cache of model answers that every    *)
(* step of the harness draws on.                                           *)
(*                                                                         *)
(* A prompt is what the cache key hashes besides the repetition: seat,     *)
(* configuration, prompt pack, input and bundle.  A job is a goroutine of  *)
(* a pool and calls GenerateResponse for each request of its script in     *)
(* turn; a step is one statement, or the call of the model.  The jobs of a *)
(* pool, and those of other commands on the same database, meet in the     *)
(* table only, between any two of these steps.                             *)
(***************************************************************************)
EXTENDS SharedDatabase

CONSTANTS
  Jobs,
  Prompts,
  Supported,   \* prompts whose model takes the seat's settings and schema
  Answers,     \* what a call of the model may come to
  Concurrency  \* Runner.Concurrency

\* "unparsed": stored with parse_ok false; "substituted": another model answered.
AllAnswers == {"ok", "unparsed", "timeout", "error", "substituted"}

ASSUME CacheConstants ==
  /\ Supported \subseteq Prompts
  /\ Answers \subseteq AllAnswers
  /\ Concurrency \in Nat \ {0}

VARIABLES
  responses, \* rows: [prompt, rep, by, kind], unique in (prompt, rep)
  job        \* per job: the requests to make and the local variables of a call

cacheVars == <<responses, job>>

\* A row left by an earlier command has the author "earlier".
Row == [prompt : Prompts, rep : Nat, by : Jobs \cup {"earlier"}, kind : AllAnswers]

\* One goroutine of cmd's pool with requests [prompt, fresh] to make.
Queued(cmd, script) ==
  [at |-> "queued", cmd |-> cmd, todo |-> script, asked |-> Head(script), rep |-> 0,
   answer |-> "none", results |-> <<>>, seen |-> {}]

JobAt(j, step) == job[j].at = step

JobGo(j, step) == job' = [job EXCEPT ![j].at = step]

Asked(j) == job[j].asked

OfPrompt(p) == {r \in responses : r.prompt = p}

\* GetResponseByCacheKey, as a set of at most one row.
WithKey(p, n) == {r \in OfPrompt(p) : r.rep = n}

\* The goroutines of cmd's pool that hold one of its slots.
InFlight(cmd) == {j \in Jobs : job[j].cmd = cmd /\ job[j].at \notin {"queued", "done", "failed"}}

PoolOf(cmd) == {j \in Jobs : job[j].cmd = cmd}

PoolEnded(cmd) == \A j \in PoolOf(cmd) : job[j].at \in {"done", "failed"}

(***************************************************************************)
(* The steps of a job.                                                     *)
(***************************************************************************)

\* Mutant: every goroutine starts at once.
TakeSlotAlways(j) ==
  /\ JobAt(j, "queued")
  /\ JobGo(j, "starting")
  /\ UNCHANGED <<responses, faults>>

\* A slot of the pool's semaphore is free.
TakeSlot(j) ==
  /\ JobAt(j, "queued")
  /\ Cardinality(InFlight(job[j].cmd)) < Concurrency
  /\ JobGo(j, "starting")
  /\ UNCHANGED <<responses, faults>>

\* Settings that the model does not take end the job before any statement.
\* seen is a history variable: the rows there are when the call begins.
StartRequest(j) ==
  /\ JobAt(j, "starting")
  /\ LET request == Head(job[j].todo) IN
     job' = [job EXCEPT
       ![j].at = IF request.prompt \notin Supported THEN "failed"
                 ELSE IF request.fresh THEN "numbering" ELSE "lookup",
       ![j].todo = Tail(@),
       ![j].asked = request,
       ![j].rep = 0,
       ![j].answer = "none",
       ![j].seen = responses]
  /\ UNCHANGED <<responses, faults>>

\* Mutant: MaxRepetition without the increment.
NextRepetitionSame(p) ==
  IF OfPrompt(p) = {} THEN 0
  ELSE CHOOSE n \in {r.rep : r \in OfPrompt(p)} : \A r \in OfPrompt(p) : r.rep <= n

\* MaxRepetition + 1, where no row counts as -1.
NextRepetition(p) ==
  IF OfPrompt(p) = {} THEN 0
  ELSE 1 + (CHOOSE n \in {r.rep : r \in OfPrompt(p)} : \A r \in OfPrompt(p) : r.rep <= n)

Number(j) ==
  /\ JobAt(j, "numbering")
  /\ \E ok \in BOOLEAN :
       /\ Attempt(ok)
       /\ IF ok THEN job' = [job EXCEPT ![j].at = "lookup", ![j].rep = NextRepetition(Asked(j).prompt)]
                ELSE JobGo(j, "failed")
  /\ UNCHANGED responses

\* The call returns row; the job makes its next request or ends.
Return(j, row) ==
  job' = [job EXCEPT ![j].at = IF job[j].todo = <<>> THEN "done" ELSE "starting",
                     ![j].results = Append(@, row)]

\* Mutant: the row is not looked for.
LookupNothing(j) ==
  /\ JobAt(j, "lookup")
  /\ JobGo(j, "calling")
  /\ UNCHANGED <<responses, faults>>

Lookup(j) ==
  /\ JobAt(j, "lookup")
  /\ \E ok \in BOOLEAN :
       /\ Attempt(ok)
       /\ LET found == WithKey(Asked(j).prompt, job[j].rep) IN
          \/ ~ok /\ JobGo(j, "failed")
          \/ ok /\ \E row \in found : Return(j, row)
          \/ ok /\ found = {} /\ JobGo(j, "calling")
  /\ UNCHANGED responses

\* Chat comes back, at its deadline if not before.
Answer(j, k) ==
  /\ JobAt(j, "calling")
  /\ job' = [job EXCEPT ![j].at = "storing", ![j].answer = k]
  /\ UNCHANGED <<responses, faults>>

NewRow(j) == [prompt |-> Asked(j).prompt, rep |-> job[j].rep, by |-> j, kind |-> job[j].answer]

\* Whatever the call came to is stored under the key, failures included.
Insert(j) ==
  /\ JobAt(j, "storing")
  /\ \E ok \in BOOLEAN :
       /\ Attempt(ok)
       /\ IF ok /\ WithKey(Asked(j).prompt, job[j].rep) = {}
          THEN responses' = responses \cup {NewRow(j)} /\ Return(j, NewRow(j))
          ELSE JobGo(j, "reusing") /\ UNCHANGED responses

\* After any failure of the insert the row with the key is returned instead,
\* and the answer at hand is dropped.
Reuse(j) ==
  /\ JobAt(j, "reusing")
  /\ \E ok \in BOOLEAN :
       /\ Attempt(ok)
       /\ LET found == WithKey(Asked(j).prompt, job[j].rep) IN
          \/ ok /\ \E row \in found : Return(j, row)
          \/ (~ok \/ found = {}) /\ JobGo(j, "failed")
  /\ UNCHANGED responses

JobStep(j) == /\ Runs(job[j].cmd)
              /\ \/ TakeSlot(j) \/ StartRequest(j) \/ Number(j) \/ Lookup(j)
                 \/ \E k \in Answers : Answer(j, k)
                 \/ Insert(j) \/ Reuse(j)
              /\ UNCHANGED killed

(***************************************************************************)
(* Properties.                                                             *)
(***************************************************************************)

CacheTypeOK ==
  /\ responses \subseteq Row
  /\ \A r, s \in responses : r.prompt = s.prompt /\ r.rep = s.rep => r = s
  /\ \A j \in Jobs :
       /\ job[j].at \in {"queued", "starting", "numbering", "lookup", "calling", "storing",
                         "reusing", "done", "failed"}
       /\ \A i \in DOMAIN job[j].results : job[j].results[i] \in responses
  /\ \A c \in Commands : Cardinality(InFlight(c)) <= Concurrency
  /\ faults \in 0..MaxFaults

\* The call that j made last has returned.
Returned(j) == job[j].results # <<>> /\ job[j].at \in {"starting", "done"}

LastRow(j) == job[j].results[Len(job[j].results)]

\* A job that has paid for a call ends with its own answer or with one that a
\* concurrent job stored meanwhile: nothing is paid for, and then dropped for a
\* row that was there when the call began.
NoWastedCall ==
  \A j \in Jobs : Returned(j) /\ job[j].answer # "none" =>
    LastRow(j).by = j \/ LastRow(j) \notin job[j].seen

\* A --fresh generation never returns an answer that was there when it began,
\* although its repetition is only a guess by the time the row is inserted.
FreshIsNew ==
  \A j \in Jobs : Returned(j) /\ Asked(j).fresh => LastRow(j) \notin job[j].seen
=============================================================================
