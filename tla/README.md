# A TLA+ development of the Tough Decisions Council

`council` is two systems in one binary. The *production server* answers a
request: three models give independent views in parallel, a judge model answers
over the views that came in time, and the browser follows it all over
server-sent events. The *evaluation harness* generates, grades and compares
candidate configurations and publishes the pack the server uses. Both write one
SQLite database.

This directory models the parts where the program can be wrong in ways its unit
tests hardly reach, model-checks them with TLC and proves the central
properties with TLAPS. `PROJECT.json` is the index: components, runs, mutants,
the lines each definition stands for, findings, hazards and theorems.

## 1. Inventory

| part | state | operations | hard because | correct when |
|---|---|---|---|---|
| council runner (`internal/council/run.go`) | rows of one request in `requests`, `request_views`, `request_judge`; contexts; results channel | `Run`, `execute`, `callView`, `recordView`, `runJudgePhase`, `finishJudge` | one goroutine per view, a coordinator, a judge and the goroutines of *other* requests that supersede this one; a deadline that races late answers; statements that fail and are only logged; process exit | each view is told once; the verdict names the views it used; nothing is overwritten; `done` is last and always comes; a superseded request stays so |
| registry (`internal/council/registry.go`) | entry per request: subscribers, cancel func, `hasDone` | `Register`, `Subscribe`, `Publish`, `MarkDone`, `Cancel`, cleaner | two levels of mutexes held across waiting; channels closed by three parties; slow readers | no event lost in the middle, no send on a closed channel, no writer held up for good, entries removed |
| SSE handler (`internal/httpapi/server.go`) | per connection: snapshot and stream | `handleEvents`, `requestState` | the snapshot is read while events are published | snapshot and stream together miss nothing; the stream ends |
| production packs (`internal/pack`, `internal/store/packs.go`, `publish_tx.go`) | rows with status `active`, `previous`, `retired`; baselines; natural bundles | `Init`, `Publish`, `Rollback`, baselines-only | separate processes, statements in and outside a transaction, minutes between read and write | there is an active pack; rollback undoes publish; baselines name what they were judged on |
| harness cache (`internal/harness/cache.go`) | `responses` by cache key and repetition | `GenerateResponse`, `Pool` | concurrent jobs of several processes on one key; an answer that cannot be stored; failures that are stored | no paid answer is dropped for an older one, each `--fresh` one is new, a pool comes to its end |
| grading (`internal/grading/absolute.go`, `pairwise.go`) | `grades`, `flags`, `pairwise` | `Grade`, `Compare` | replies in a dozen shapes; a grade and its flags stored one by one while another process grades the same response; order reversal | everybody gets the same grade, with its flags; a verdict does not depend on the order of presentation |
| graders (`internal/grading/calibration.go`, `select.go`, `internal/store/graders.go`) | `grader_configs` with admission and calibration | `graders status`, `graders calibrate`, selection | three statements of a calibration, with other commands choosing graders between them | only graders that passed are used, none for a response of its family |
| harness runs (`internal/harness/weekly.go`, `compare.go`, ...) | `harness_runs`, `candidates`, `sentinel_results` | weekly, sentinel, screen, compare, downstream, promotion | long chains with an error path at each link; rows read and written back whole; rows shared by commands | the status of a row is the outcome of the run; drift stops; a decision rests on results |
| prune (`internal/store/prune.go`) and the handlers on old requests | rows of a request in six tables | `db prune`, `Rewrite`, sent, feedback | six deletes without a transaction while rows come in; responses have no foreign key | nothing shown is missing, feedback keeps a request, success means gone |
| request store, threads, cards, metrics | rows | mostly single statements | two saves of a card | no torn rows |
| gateway client | none | one HTTP exchange per call | timeouts, substituted models | external: its outcomes are the runner's inputs |
| prompts, schemas, rendering, hashes, config, CLI, page | none | pure conversions | — | — |

How they interact: an HTTP handler calls `Run`, which returns as soon as the
request's rows exist and leaves a detached goroutine behind; goroutines write
rows and then `Publish` through the registry; handlers read rows and subscribe;
a later `Run` may supersede an earlier one through the rows *and* the registry.
The server reads the active pack; only the command line writes packs. A harness
command makes its cases into jobs of a pool, which generate responses through the
cache; then it grades and compares them one by one through the grading service,
with graders it chose from their rows, and stores what it made of them in rows of
runs and candidates. Commands of the harness know of each other only through
these tables.

## 2. Modules

| module | models | |
|---|---|---|
| `CouncilRun` | `run.go` with the statements of `store/requests.go` and `store/request_progress.go` | 46 mapped definitions |
| `RequestLifecycle` | what the client is promised: heard or missed once per seat, one verdict, then over | abstract |
| `CouncilRunRefinement` | the refinement mapping from the former to the latter | |
| `CouncilRunProofs`, `CouncilRunSettledProofs` | theorems about `CouncilRun`, the second with those about the refinement | the second extends the first |
| `EventStream` | registry and SSE handler | |
| `EventStreamProofs` | theorems about `EventStream` | |
| `PackLifecycle` | `internal/pack`, `harness/publish.go`, `store/packs.go`, `store/publish_tx.go` | |
| `PackLifecycleProofs` | theorems about `PackLifecycle` | |
| `SharedDatabase` | processes, statements that fail, processes that are killed | extended by the next ones |
| `ResponseCache` | `harness/cache.go` under `Pool` of `harness/harness.go` | |
| `GradeReply` | the parser of grades in `grading/absolute.go`, as operators | |
| `Grading` | `Grade` and `Compare` with `store/grades.go`, `store/pairwise.go` | extends `GradeReply` |
| `Evaluation` | generate, grade, compare: the part all steps of the harness share | composes `ResponseCache` and `Grading` |
| `CaseSelection` | which cases a step works on, as operators | |
| `Graders` | rows of graders, `graders status`, `graders calibrate`, selection | |
| `HarnessRun` | weekly, sentinel, screen, compare, downstream, promotion | composes `Graders` and `CaseSelection` |
| `Retention` | `store/prune.go` beside `Rewrite` of `run.go`, `GetRequest`, and the handlers for rewrites, sent messages and feedback | |
| `SequenceLemmas` | lemmas about numbers and about `FlattenSeq` of any sequence | |
| `EvaluationProofs` | theorems about `Evaluation` | extends `SequenceLemmas` |
| `HarnessRunProofs` | theorems about `HarnessRun` | extends `SequenceLemmas` |
| `RetentionProofs` | theorems about `Retention` | |
| `MCCouncilRun`, `MCEventStream`, `MCPackLifecycle`, `MCEvaluation`, `MCHarnessRun`, `MCRetention` | the finite instances TLC checks | |

### CouncilRun

A step is one database statement or one registry call with the computation
around it. The store has one connection and each statement outside
`PublishAtomic` commits by itself, so this is the grain at which goroutines and
requests interleave. `exPc` is the coordinator inside `execute` (the select
loop, then the drain), `judgePc` the judge goroutine, `runPc` the call of `Run`;
`calling` is the set of view goroutines that have not delivered. `recordView` is
two steps, statements then events (`ReceiveView`/`IncludeView` before the judge
is triggered, `DrainView`/`AnnounceStraggler` after), because the judge
goroutine runs between them. Contexts carry the first cause that ended them.

Abstracted: the content of views and answers (an outcome per call: usable,
danger, timeout, failed; answer, danger, error, timeout, invalid); the timing
metrics; the three view rows and the judge row are inserted in one step, of
which any subset of the views may succeed when it fails, since nothing of the
run exists yet that could interleave. Within `recordView` and after
`<-viewsDone` the logged statements are grouped with the failure choice kept per
statement. `published` is the history of `Registry.Publish`, used to state
properties; no action reads it.

A crash keeps rows and what was published. `Attempt` makes every statement fail,
at most `MaxFaults` times; each failure takes the error path of the code
(`Run` returns, `execute` logs and goes on, `GetRequest` ends the judge
goroutine without `done`).

### EventStream

A step is what happens under one acquisition of `Registry.mu` or of one
`subscriber.mu`. Two parties keep a lock across steps: a writer waiting in
`send` for space keeps the subscriber's (`sLock`), and the cleaner closing
subscribers keeps the registry's (`rLock`), and may wait there for the former.
Writers persist, then publish, also what the statement has failed to persist: it is
logged and nothing more (`unsaved`). An event is its writer and number; the snapshot
is read table by table (`ReadRows`), each read seeing what is persisted by then,
or fails as a whole (`blind`). The second a writer waits, the grace period
after `done` and the removal delay are timers that may fire at any time once
set, the most adverse reading of real time.

### PackLifecycle

Each invocation of the program is a process, in `job`; what it has read stays in
its record while others write. A step is one statement (`InsertPack`,
`UpdatePackMeta`, `Demote`, `Promote`, `Undo`), one read whose result is kept
(`ReadActive`, `ReadPrevious`), or the one transaction (`CommitPublish`,
`CommitFill`, undone as a whole by `AbortTransaction`). Of a downstream run only its
end is here, where it meets a publish: it writes the candidate's row back as it
read it (`ReadRow`, `StoreResult`) and stores a new checklist (`StorePromotion`). Dying is taking no
further step: nothing in the module forces a command on, so every prefix of it is
a behaviour, and no fairness is assumed.

Abstracted: the seats inside a pack and the texts; one case stands for all
cases and `"view"` for the three view seats, whose rows are written alike and do
not meet; the place in the order of insertion stands for
`(created_at, id)`; whether a checklist passes is a choice each time one is made
(the rules are in `HarnessRun`), and so is which responses are gradeable. A row holds
of `promotion_json` the verdict and the mark `Forced`, of the results beside it
nothing. `from`, `overrides`, `replaced` and `revived` are history for the
properties; no guard reads them.

### ResponseCache, Grading and Evaluation

A job is a goroutine of `Pool`: it takes a slot of the semaphore and calls
`GenerateResponse` for each request of its script, the candidate's and then the
incumbent's. A step is one statement, or the model's answer; `by` and `seen`
(the rows there were when a call began) are history. A command calls the grading
service one call at a time, so `service[c]` holds the call it is in; a step is a
statement or a reply; `stored`, that the call has inserted its grade, is history. Commands meet in `responses`, `grades` and `flagRows`
between any two steps. A statement fails or a process is killed at any point,
`MaxFaults` times together.

Abstracted: a prompt is what the cache key distinguishes besides the repetition;
the texts; the rubric, which is the same throughout. The rows of a comparison are
kept by the call, as no call reads the table again.

`GradeReply` is what `parseAbsoluteGrade` does with a reply: the thirteen shapes in
order, scores flat, wrapped, in a list or at the root, names of criteria by their
distinctive words (at the root by exactly the rubric's names), and the random order in which Go visits a map, which makes a
parse a *set* of outcomes. `ShapesAgree`, evaluated before the run, compares
the shapes with each other: however the scores are nested they are read the
same, and a score out of range is read in none. `AskGrader` takes any outcome of
any reply of `Replies`, and a rejected reply is asked for again once.

### Graders, CaseSelection and HarnessRun

One machine serves all commands: `cmd[c].at` is the step a command has come to,
`job[c].phase` the function it is in, so the code shared by the functions (the
row of a run, the pair of graders, the drift gate, the comparison, the
candidate's row, `FailRun` and `FinishRun`) is written once, with the order and
the error paths of each. `CheckDrift`, `Generate`, `GenerateCouncils`, `GradeAll`,
`CompareCase` and `Cover` succeed or return an error, their inside being
`Evaluation`; a comparison comes to any verdict. A script is what one shell does:
an invocation after the other; `plan` is never written.

`UpsertCandidate` is three steps, `Find`, `Refresh` and `Insert`, between which
other commands work; a failed lookup is taken for no row. Where a key has come to
have several rows the oldest is kept, as it is the one a lookup returns.

`lost`, `invocation` and `scope` of a run row and `earned` are history: why
nothing settles the row (the `statement` that should have settled it failed; it is
`unstarted`, as the second statement of `StartRun` failed; or it is `unread`, as the
`Downstream` it was given to could not begin), how much of its command's script was left,
the cases a sentinel run is about, the graders that ever passed.

Abstracted: candidates with one key in one file (the last is meant, for the
weekly run they are told apart); the numbers behind `ScreenPassed` (a choice), and
those of rules 1, 2 and 6 of the checklist and of the comparison of speed, which
come to `fit`, `fast` or `poor`; a drift that does not block goes on as none does.
`harness downstream --run` names a compare run that has ended, however it did, or in
which the candidate was compared. The code checks nothing of the name: a run of another
kind, or one still at work, is taken, worked on and marked complete. The flag is documented
as the id of a compare run, and what happens to a sentinel run named there is not modelled,
so `SentinelIsComplete` and `OkMeansComplete` are about commands that name compare runs.

### Retention

`prune[c].todo` is what is left of the six deletes of a `db prune`; a step is one
of them, and each picks its requests anew (`Eligible`). A client is a handler at
work: it looks for its request, and a rewrite goes on to read the tables of
`GetRequest`, finds the text to rewrite, calls the model, stores the response and
then the row. `offered` (what a prune was to delete when it began) and `intruded`
(requests that got a row since) are history. Foreign keys are the database's: a
statement that would break one fails. A row's link to its response is none of
them. What a client stores is created at `Now`, which no cutoff has passed; of the
answers of a model only that there is one matters. A killed prune stops between two deletes.

## 3. Runs

| run | instance | shows |
|---|---|---|
| `one` | one request, two seats, models that hang, two failing statements, one crash | the invariants of one run; `EveryRunEnds`; `ImplementsLifecycle` |
| `two` | two requests of one seat, each may supersede the other | final states, supersedes that are kept |
| `superseded` | as `two` | **violation**, finding 1 |
| `clients` | two streams, coordinator and judge, a channel of one, an event whose statement may fail | nothing missed that has a row, nothing sent on a closed channel, `done` ends the run's events |
| `stream_live` | one stream, judge and a superseding run, a channel of one | no gaps, writers finish, streams end |
| `removed` | one stream that comes after the cleaner | **violation**, finding 2 |
| `packs` | five commands of any kind, one failing statement | an active pack unless a rollback is torn; what a rollback brings back; no mark of an override without the pack it let through |
| `dangling` | three commands | **violation**, finding 3 |
| `silent` | three commands | **violation**, finding 4 |
| `evaluation` | two processes, two jobs, four plans (screening twice at once, a sentinel with a case picked twice, a refused model beside `--fresh`, a command that grades one response twice), three kinds of reply, one failing statement or killed process | the promises of the response cache, the grade cache and the comparison; every command ends |
| `harness` | two shells, ten plans of weekly, sentinel, screen, compare, downstream and graders commands, one failing statement or killed process | admission, families, promotion, drift, the status of every row against the exit code, complete sentinels; every command ends |
| `retention` | two prunes with different cutoffs, two requests, three clients that all go for the older request, or for both; one failing statement or killed prune | rows never show a response that is gone; feedback stops the deletion; success means gone |

*Bounds.* Seats only meet in the results channel and in sets, so two give the orders of
on-time, late and failing views, before each other and across the trigger; the product's
three are left to the theorems, which are about any number. Two failing statements at every
place they can occur, both of one view among them, and one crash at every step are
followed by the whole rest of the run. A judge call that fails before its deadline, or
for lack of a seat, differs from one that times out by the name of its outcome and, without a
seat, by one statement less that may fail; both are in `two`. Requests touch each other only
through a supersede, a relation between two of them; two requests include each
superseding the other, and superseding one that is complete. In `EventStream`
subscribers meet only in the entry and its lock, so two streams show one
disturbing the other; a channel of one is full after one event, which makes
backpressure, removal and closing happen. A judge that publishes twice or three times
and a coordinator that publishes once give every order of an event before, across
and after `Subscribe`, the snapshot and `done`; three are needed for a stream to
lose one and still have room for the next. The events whose statement may fail
(`Fragile`) are the coordinator's in `clients`, which other events precede and follow, and none in
the other runs; the theorems are about any. In `PackLifecycle` five commands are an
init, two publishes, whose second retires the pack the first demoted, and two
rollbacks that overlap them; two packs at a time are what each command reads.

In `Evaluation` processes meet in one key of a cache at a time, so two of them,
or two jobs of one, are each order of lookup, call, insert and reuse; a pool with one
slot shows that slots are given back. Two graders are the number the product
compares with. Two flags are the least of which one can be lost. In `HarnessRun` what
two commands can disturb is a grader's row, a candidate's row and the rows of the
graders file; every plan is a pair in which one of these is shared, or one command
alone in which all its paths are taken: two candidates of a week, three sentinel
cases, a case that is planted and one that is not, a second hard one. One fault is
put at every place, and followed by all that comes after it.

In `Retention` the judge of the older request answers between the two cutoffs, so
one prune takes its request without its newest response; the other request is
between the cutoffs itself. Three clients are a rewrite, a feedback and a sent
message, each of which can fall into any gap between the six deletes.

*Fairness.* Goroutines run, so each goroutine's step is weakly fair; deadlines
pass; but a gateway call is fair only once its context is done, since a model may
hang, and Go's select may pick the other ready case. In `EventStream` lock
acquisitions are strongly fair (a Go mutex is not starved: after 1 ms it is
handed over), timers fire, and nothing makes a client read or leave;
`LiveStreamsEnd` assumes of the client only that it reads, as its statement says.
In `Evaluation` each job and each command goes on while it can: statements return
and gateway calls have a deadline; a grader may reply badly for ever. In
`HarnessRun` it is enough that *some* command goes on, since none waits for another.

Every property has a mutant, a plausible bug in a mapped definition that the
run's instance detects. `CHECK_DEADLOCK` is off where the system stops: when
every request is over, every stream is closed or every command has exited.

## 4. Proofs

`CouncilRunProofs` proves, for every set of
requests and seats and every bound on faults and crashes, from
`ConstantsAssumption` alone (there is a seat, the judge is not one of the view
seats, `None` is nothing else, outcomes are known ones):

- `TypeCorrect`: `TypeOK`;
- `SupersedeStays`: `SupersedeOutlivesJudge`;
- `ViewsToldOnce`: `SeatAnnouncedOnce`; `DoneComesLast`: `DoneFollowsEveryView`;
- `VerdictNamesViews`: `AnswerNamesItsViews`; `OutcomesStay`: `OutcomesAreFinal`.

The argument is one inductive invariant, `IInv`, in four parts.

1. `TypeInv`: types; a result being recorded is still at the head of the
   channel; the judge goroutine persists only verdicts. Without the second,
   `Head` of the channel says nothing.
2. `ControlInv`: how the three program counters relate. Only a detached run has
   goroutines; the judge starts when the select loop is left; it is past
   `<-viewsDone` only when the coordinator is `drained`, which has an empty
   channel and no call in flight. This is what makes `done` come last.
3. `AccountInv`: from the launch on, each seat is *exactly one of* still
   calling, in the channel, told. `SeatAnnouncedOnce` is not inductive by
   itself: that a seat in the channel has not been told is what keeps it.
4. `OutcomeInv`: `included` is the set of seats announced complete, until the
   verdict row copies it at a point from where nothing can be announced; a view
   row has an outcome only if that outcome is told or about to be. So a second
   write of a row would be a second announcement.

Each part has one lemma per process (entry, coordinator, judge, environment) and
in it one case per action; lemmas `Append...` and `AnnounceViewTells` say what a
new event changes in each reading of the history. `runPc = "failed"` marks the
runs a crash has cut off: their rows and history stay as they are.

`CouncilRunSettledProofs` goes on from `IInv`, with four invariants beside it, to what
is in the rows of a run and to the refinement:

- `RowsNameTheSame`: `RowsAgreeWithAnswer`, from `FlagInv`. A view row says complete only
  if that view is announced as complete, or is the one at the head of the channel,
  or the run died before its verdict.
- `FinishedIsSettled`: `FinishedMeansSettled`, and `CompleteIsWhole`:
  `CompleteMeansWhole`, from `FinishInv`: the judge goroutine writes verdict, state and
  timings in this order, and past each of them the row holds what was decided,
  unless another run has marked it superseded.
- `DangerComesFirst`: `DangerIsPrompt`, from `DangerInv`.
- `RunnerImplementsLifecycle`: `ImplementsLifecycle`, from `PhaseInv`, which has the
  events that open and close a verdict told at their place in the judge
  goroutine. `Picture` is what the mapping makes of one request; each action of each
  process leaves it or changes it by one step of `RequestLifecycle`.

What a row holds cannot be relied on once a statement has failed and was only
logged. The parts of these invariants that are about rows are therefore under
`faults = 0`, as those of the properties are; the order of the final writes, the
danger before its view, and the refinement hold with any faults and crashes.

`EventStreamProofs` proves every safety property of `EventStream`, for every set of writers
and streams, any number of events of each writer and any capacity of a channel,
from `StreamConstants` alone: `TypeCorrect` (`TypeOK`), `SendFindsItOpen`
(`NoSendOnClosed`), `ClientsMissNothing` (`NothingMissed`), `StreamsHaveNoGaps`
(`NoGaps`) and `DoneComesLast` (`DoneEndsStream`). Its `IInv` says, beside the types:

- `WriterInv`: a writer waiting in `send` holds the mutex of its subscriber, and
  everybody who closes a channel takes that mutex: so it is open when there is
  space. `RowsInv`, `EntryInv`: what is published was persisted, or that was tried (`Tried`); a handler that has not
  subscribed is sent nothing.
- `OrderInv`: the number of the last event of a writer that a stream carries is the
  number of events that writer is past, counting the one it is publishing if it has
  been to this stream (`Reached`); an equality only as long as the stream may be
  sent more. `NoGaps` follows as every event comes right after the last.
- `ToldInv`: an event a writer is past is in the snapshot, in the stream, or in rows the
  snapshot has still to read, unless its statement failed (`unsaved`). This is why reading the snapshot after subscribing
  is enough, and it breaks if the two change places.

`PackLifecycleProofs` proves all five properties of `PackLifecycle`, for every set
of commands and candidates and every bound on failing statements, from
`PackConstants` alone: `TypeCorrect`, `ActivePackStays`, `RollbackTakesBack`,
`PublishNeedsEvidence`, `MarksAreFounded`. Its inductive invariant `IInv` adds
to `TypeOK`:

- `OrderInv`: packs are numbered in the order of creation and a command inserts
  its own once. `SetsHaveNewest`, that every set of packs has a newest member,
  makes the `CHOOSE` behind "the newest active pack" mean something; it is an
  invariant, kept because a new pack is the newest of every set it joins, so
  that nothing has to be proved about finite sets of any size.
- `ReplacedIsNext`: the pack the newest one replaced is active or on hold, and the
  most recent such pack beside it. `RollbackUndoesPublish` speaks only of the
  moment when one pack is active; between a rollback's two statements, or after
  an init, there are none or two, and this is what survives.

`MarksAreFounded` needs `MarksInv` beside it: the rows that downstream runs have read
and not yet written back are founded too.

`HarnessRunProofs` proves `NoSameFamilyVerdictHolds` (`NoSameFamilyVerdict`) and
`DriftStopsHolds` (`DriftStops`) for every set of commands, seats, graders and
plans. `IInv` says of each command that its comparison fits (`Fit`) and that it is
stopping if it met drift (`Stopping`): until the row is marked it is at `blocked`;
from then on it has an error, which no step takes away before the invocation is
over, and without which no step leads back to work. `Shape` is as much of the
types as records need to be updated. There is one lemma per action, from
`GoesOn`, `EndsWith` and `ExitLeaves`, which are the ways a command moves;
`OneAtATime` says why what one command does leaves the invariant of the others.
`ResolvedApart` is the fact about `ResolveGraders` that `Fit` rests on: it needs
nothing of the graders' rows, which other commands write.

A second invariant, `RInv`, is about the rows that commands share. From it
follow `HarnessTypes` (`HarnessTypeOK`), `GradersHaveEarnedIt` (`GradersEarnedIt`),
`PromotionsAreFounded` (`PromotionHasEvidence`) and `RunsAreSettled` (`RunsSettle`), for any number of
commands, any plan and any bound on failing statements and killed processes. It
rests on `GraderConstants`, `FaultsConstant` and `PlanConstants`: the commands are the
seven of `main.go`, the graders files list configurations there are, and a row
that is admitted at first has a calibration within the limit, which one
configured limit makes true of every row the program writes. Its parts:

- `Ranged`, `Accounted`: the row a command works on is there, and each row it opened
  that is not settled has one place that will settle it (`Holds`): the function it
  is in, `Downstream` for the row weekly has begun for it, or weekly for its own. So
  none is left when it exits, on whichever of the error paths, but for the rows whose
  settling statement failed and the two kinds for which the code has none (`lost`).
- `Qualified`, `Equipment`: graders in hand have earned it, and are one when screening,
  two otherwise. `GradersRight` has the admitted rows among those who earned it; that is
  all that is used of other commands' calibrations.
- `Uncompared`, `Borrowed`, `Snapshot`, `Judged`: who may write a result when. A run that has
  not ended and has no result of a comparison is in the hands of the command that opened
  it, as `downstream --run` takes only the others (`Available`). So the comparison in a row another
  command has read does not change any more, a downstream result once there is
  never taken away, and what a promotion decided on is still in the row when the
  row is written back whole. This is why two statements outside a transaction do. It goes
  no further: a decision may stand beside a later downstream result than the one it was
  made from, so `PromotionHasEvidence` asks of that result only that there is one.

`Frame` is what a step of one command leaves of all this to the others
(`OthersKeep`); each action has a lemma that its step is such a one and keeps
the part of its own command, `Mine`.

The third, `SInv`, is about sentinel runs, and with it `SentinelsAreComplete` proves
`SentinelIsComplete`. The cases of a run are right from the start (`ScopeRight`):
`SentinelPicks` begins with a safety family and a control family whatever the week and
the count, as a rotation has the members of what it rotates (`RotateHolds`), and a
selection those with the tag, each once (`OnlyHolds`), so that the second control family
in the rotation is not the first. From then on each seat and case has a job that is left
or its row (`Covered`): an insert that succeeds trades one for the other, one that fails
ends the run as failed, and the run is complete only when no job is left (`JobsLeft`).
No other function finishes the row of a sentinel run (`OtherRuns`): weekly's own row is
another one, and `downstream --run` takes compare runs only. `PlanConstants` adds that a week is a number and that seats and case pack are
sequences. `Tracks` is what each action shows (`TracksKeeps`).

`EvaluationProofs` proves all seven safety properties of `Evaluation`, for every set of
jobs, commands, graders and plans, any number of slots and any bound on failing statements
and killed processes. It uses `PlanConstants`: there are finitely many jobs, each has
something to generate, and the rows that are there at first are rows with a key of
their own, of which one of each prompt has the highest repetition.

- `FreshIsNewHolds` (`FreshIsNew`) and `NoWastedCallHolds` (`NoWastedCall`), from
  `CacheInv`: no row that was there when a call began has the key of the call
  (`Unseen`), from the number on for `--fresh`, from the lookup on for any. Rows
  are never deleted or changed, so other jobs add only rows the call has not seen.
  `Numbered` makes the `CHOOSE` behind the highest repetition mean something, as
  `SetsHaveNewest` does for packs.
- `SameGradeForAllHolds` (`SameGradeForAll`), `PositionBiasIsATieHolds`
  (`PositionBiasIsATie`) and `OneFinalPerGraderHolds` (`OneFinalPerGrader`), from
  `GradingInv`: response and grader have one grade; a call of `Grade` that holds a
  row holds one of its own key that is in the table; the rows of a comparison are
  none, one that is not final, one that is final and names a side, or two of
  which only the second, made from the first by `Reversed`, is final. `OneFinalPerGrader` is
  about a call: a grader who stands in for both of the selection pair, or who is asked
  again about a fragile case (`compare.go:433`), makes two calls and leaves two final rows.
- `GradeIsWholeHolds` (`GradeIsWhole`), from `WholeInv`. From the insert to the last
  flag a call's flags to file and those it has filed make up those of its row, and the
  table has just the latter, unless another command filed one there (`Filing`, `FlagsAre`).
  As long as no statement failed, a grade in the table has its flags or its command is
  at it or was killed (`FiledBy`), so that its command finds it when it asks again
  (`Candid`). `Adds` is what the steps of other commands leave of this: they add rows
  of their own.
- `EvaluationTypesHold` (`EvaluationTypeOK`), from `EvaluationInv`. A job takes a slot only
  while one is free (`SlotsKept`); a number and a lookup may be of one key, and then the
  unique index refuses the insert (`RowsTyped`); what there is to grade are rows that jobs
  returned (`GradingListTyped`); a parsed score is in range for every reply, in each of the
  thirteen shapes (`ParsedInRange`).

`SequenceLemmas` has what the library does not give: that `FlattenSeq`, which the
community modules define by recursion, has the members of its parts (`FlattenHolds`), each
once if the parts have each once and share none (`FlattenInjective`). The
inductions are over the set of numbers for which the statement fails, which has a least
one (`LeastNumber`), as a theorem with an operator for its parameter cannot be used.
`CaseSelection` picks the families of a sentinel run by `FlattenSeq` (`Only`) and not by
`SelectSeq`, whose recursion is inside the library, so that these lemmas are about them
too; `Having`, which no theorem is about, has `SelectSeq`.

`RetentionProofs` proves `NothingDanglesHolds`, `OkMeansGoneHolds`,
`RefusedForARowHolds`, `FeedbackKeepsTheRestHolds`, each the property of its name,
and `TypeCorrect` (`RetentionTypeOK`), for every set of requests, clients and prunes and any cutoffs, from
`RetentionConstants`: rows at the start show responses of their own request, no
response is older than its request, and nothing comes from the future. `IInv` has
for each prune that what it has swept stays swept (`Swept`): a row of its age in a
table it has done came in after it began and shows a response that no prune takes.
With that the delete of responses leaves every response that is shown, and the
delete of requests meets only rows that came in. A client about to insert a rewrite
has its response (`ClientInv`), and responses never get older.

Only model-checked: `EveryRunEnds`, `WritersFinish`, `LiveStreamsEnd`,
`CommandsEnd`, `HarnessEnds` (liveness under fairness is out of the prover's
reach); and `OkMeansComplete`. Every other
safety property that a passing run checks is proved. Proved and in no
run: the type invariants `TypeOK` of `CouncilRun`, `EventStream` and `PackLifecycle` and `RetentionTypeOK`,
`PublishedHasEvidence` and `RefusedForARow`.

## 5. Findings

1. *A superseded run forgets it* (`run.go:511`, run `superseded`). `Run` of a
   new request marks the old one `superseded`; if the old one is still waiting
   for views, its judge phase writes `running_judge` with an update that has no
   guard, and it finishes as `complete`. The comment at `run.go:690` says
   superseded runs keep their state; the test covers only a supersede after the
   judge has started, for which it is so (`SupersedeOutlivesJudge`, proved).
2. *Registry entries that stay* (`registry.go:137`, run `removed`). A client
   opening the stream of a run that has left the registry creates an entry that
   is never marked done and so never removed, against `registry.go:63`.
3. *A judge baseline names a bundle that is not there* (`publish_tx.go:135`, run
   `dangling`). The command makes up a bundle id and puts it in the judge
   baseline; the upsert keeps the id of a row that has the same key. The natural
   bundle of a case has one after the first publish, so from the second publish or
   `--baselines-only` on the baseline names no row and a sentinel run fails
   reading it, against the comment at `publish_tx.go:46`.
4. *A forced publish can become silent* (`promotion.go:182`, run `silent`). The mark
   of an override is in `promotion_json`, "so a forced publish is never silent"
   (`promotion.go:29-32`). A downstream run of the same run and candidate, after the
   publish or across it, stores a checklist made anew, which bears no mark.

Seen while modelling, without a run of their own:

- Graders grade their own family: screen (`screen.go:334`) and compare ask the
  screening grader and the selection pair for absolute grades of both responses,
  whatever their family. `SelectGrader` is called for pairwise comparisons alone,
  against `absolute.go:671` and `select.go:18`, which say a grader never grades a
  response of its family. `NoSameFamilyVerdict` is about comparisons.
- A lookup of a grade that fails is read as a miss (`absolute.go:671`): the grader is
  asked again, the insert loses against the grade that is stored, and the flags of the
  new reply are filed under that grade, whose row has those of the old one.
  `GradeIsWhole` therefore speaks, after a failed statement, only of a call that stored
  its grade itself.
- The comment at `sentinel.go:444` has the substitute serve only when every
  selection grader conflicts; the code replaces each one that does, both with the
  same substitute.
- `absolute.go:333-335` says that two names of one criterion collapse the map below five
  entries and are "never silently merged"; with six entries, five criteria and one of them
  again, they are, and the random order of the map decides between them, twice, as the
  reply is parsed twice. A score of `null` is read as 0.
- `compareAndDownstream` (`weekly.go:239-241`) says drift makes `Weekly` mark its run blocked.
  That is so for drift in its sentinel; for drift in a comparison it is marked failed, and
  so is the comparison's own row, which the gate has marked blocked before.
- `UpsertCandidate` (`candidates.go:41`) "inserts a candidate or refreshes" the row of its key.
  It takes a failed lookup for a row that is not there, and two commands on one run may both
  look before either inserts: a key may come to have two rows, of which the older is read.
- A bundle's `ViewsJSON` is `"{}"` in `downstream.go:484`: the judge of a candidate
  is shown no views there, and only the cache key differs.
- `FragilityPicks` is handed means that are never assigned, so without a case
  tagged hardest it takes the first two.
- A compare run that is given to a `Downstream` that cannot begin (`downstream.go:72`) stays
  running where it was weekly's, and a row whose second statement failed in `StartRun` stays
  created: no statement to settle them is tried. `RunsSettle` names both.
- A request that gets feedback when a prune has deleted some of its rows stays
  without its judge or view rows; without a judge row `GetRequest` fails, and the
  server answers that there is no such request.
- `Rewrite` may store its response for a request that is gone by then; the insert
  of the row fails and the response stays until a later prune.
- Two saves of a card may share a version; either of them is read as the latest.
- An error of `FinishHarnessRun` is ignored where the weekly report is written.

## 6. Not modelled, and the plan

In this order:

1. The inside of `CheckDrift` and `graders recheck`; flags and the numbers of
   the checklist; coverage.
2. `prune` against requests whose run has not ended; versions of cards.

Left out for good: prompt assembly, JSON schemas, rendering and hashing (pure
conversions without state), configuration and command-line parsing, report
layout, the web page. The HTTP exchange with the gateway is represented by its
outcomes.
