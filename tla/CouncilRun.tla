----------------------------- MODULE CouncilRun -----------------------------
(***************************************************************************)
(* One production council run per request (internal/council/run.go): the   *)
(* rows written by Run before it detaches, the supersede bookkeeping, the  *)
(* three view goroutines, the coordinator's select loop, the drain of      *)
(* stragglers, the judge phase and finishJudge.                            *)
(*                                                                         *)
(* A step is one database statement or one registry call together with the *)
(* local computation around it: the store has a single connection and      *)
(* every statement outside PublishAtomic commits by itself, so statements  *)
(* of different goroutines and requests interleave freely.                 *)
(*                                                                         *)
(* Durable rows survive a Crash; goroutines, contexts and the registry do  *)
(* not.  published is the history of the calls to Registry.Publish.        *)
(***************************************************************************)
EXTENDS Naturals, Sequences

CONSTANTS
  Requests,      \* request ids; each is used by at most one call of Run
  Seats,         \* ViewSeats: the seats whose views run in parallel
  Judge,         \* the judge seat
  None,          \* no request, or no seat
  ViewOutcomes,  \* the results of view calls an instance considers
  JudgeOutcomes, \* the results of judge calls an instance considers
  MaxFaults,     \* bound on database statements that fail
  MaxCrashes     \* bound on process crashes

\* What callView hands to the coordinator: a usable view, one that is usable
\* and reports urgent danger, a call ended by its deadline, or any other
\* failure (unsupported seat, gateway error, cancel, substituted model, empty
\* output, response row not stored).
ViewKinds   == {"usable", "danger", "timeout", "failed"}
Usable      == {"usable", "danger"}

\* What the judge call ends with.  "invalid": the seat was rejected before
\* any call, so there is no response row to store.
JudgeKinds  == {"answer", "danger", "error", "timeout", "invalid"}

ASSUME ConstantsAssumption ==
  /\ Seats # {}
  /\ Judge \notin Seats
  /\ ViewOutcomes \subseteq ViewKinds
  /\ JudgeOutcomes \subseteq JudgeKinds
  /\ None \notin Requests \cup Seats \cup {Judge}
  /\ MaxFaults \in Nat
  /\ MaxCrashes \in Nat

VARIABLES
  \* durable rows
  reqState,      \* requests.state; "absent" before InsertRequest
  supersededBy,  \* requests.superseded_by_request_id
  viewRow,       \* request_views.state per seat
  judgeRow,      \* request_judge: state and included_seats_json
  dangerFlag,    \* requests.danger_flagged
  finished,      \* requests.finished_at is set
  \* the goroutine inside Run, and what it knows
  runPc,         \* next step of Run
  target,        \* CreateRequest.SupersedesRequestID
  registered,    \* the registry holds the run's cancel func
  \* contexts
  canceled,      \* runCtx is canceled
  viewsCtx,      \* viewsCtx: live, or what ended it
  judgeCtx,      \* judgeCtx: live, or what ended it
  \* execute: the coordinator and its view goroutines
  exPc,          \* next step of the coordinator
  calling,       \* seats whose view goroutine has not delivered yet
  results,       \* the buffered results channel
  pending,       \* seats the select loop still waits for
  included,      \* seats whose usable view the select loop received
  \* the judge goroutine
  judgePc,       \* next step of the judge goroutine
  judgeOut,      \* outcome of the judge call
  \* history and bounds
  published,     \* events published for the request, in order
  faults, crashes

rowVars   == <<reqState, supersededBy, viewRow, judgeRow, dangerFlag, finished>>
entryVars == <<runPc, target, registered>>
ctxVars   == <<canceled, viewsCtx, judgeCtx>>
execVars  == <<exPc, calling, results, pending, included>>
judgeVars == <<judgePc, judgeOut>>
vars == <<rowVars, entryVars, ctxVars, execVars, judgeVars,
          published, faults, crashes>>

-----------------------------------------------------------------------------
ReqStates   == {"absent", "created", "running_views", "running_judge",
                "complete", "complete_partial", "superseded"}
ViewStates  == {"absent", "pending", "complete", "late", "timed_out", "failed"}
JudgeStates == {"absent", "pending", "complete", "failed", "timed_out"}
CtxStates   == {"live", "expired", "canceled"}

Verdicts    == {"complete", "failed", "timed_out"}

Event(type, who) == [type |-> type, who |-> who]
EventTypes == {"view_complete", "view_failed", "view_late", "danger",
               "judge_started", "judge_complete", "judge_failed",
               "superseded", "done"}
Events == [type : EventTypes, who : Seats \cup {Judge, None}]

Publish(r, e) == published' = [published EXCEPT ![r] = Append(@, e)]

\* A statement either succeeds or, within the bound, fails.
Attempt(ok) == /\ ok \/ faults < MaxFaults
               /\ faults' = IF ok THEN faults ELSE faults + 1

\* Of two statements, each fails by itself.
AttemptBoth(one, two) ==
  /\ faults' = faults + (IF one THEN 0 ELSE 1) + (IF two THEN 0 ELSE 1)
  /\ faults' <= MaxFaults

RowExists(r) == reqState[r] # "absent"

-----------------------------------------------------------------------------
Init ==
  /\ reqState     = [r \in Requests |-> "absent"]
  /\ supersededBy = [r \in Requests |-> None]
  /\ viewRow      = [r \in Requests |-> [s \in Seats |-> "absent"]]
  /\ judgeRow     = [r \in Requests |-> [state |-> "absent", included |-> {}]]
  /\ dangerFlag   = [r \in Requests |-> FALSE]
  /\ finished     = [r \in Requests |-> FALSE]
  /\ runPc        = [r \in Requests |-> "idle"]
  /\ target       = [r \in Requests |-> None]
  /\ registered   = [r \in Requests |-> FALSE]
  /\ canceled     = [r \in Requests |-> FALSE]
  /\ viewsCtx     = [r \in Requests |-> "live"]
  /\ judgeCtx     = [r \in Requests |-> "live"]
  /\ exPc         = [r \in Requests |-> "none"]
  /\ calling      = [r \in Requests |-> {}]
  /\ results      = [r \in Requests |-> <<>>]
  /\ pending      = [r \in Requests |-> {}]
  /\ included     = [r \in Requests |-> {}]
  /\ judgePc      = [r \in Requests |-> "none"]
  /\ judgeOut     = [r \in Requests |-> "none"]
  /\ published    = [r \in Requests |-> <<>>]
  /\ faults = 0
  /\ crashes = 0

-----------------------------------------------------------------------------
(* Run: rows first, then supersede bookkeeping, then detach.               *)

\* The client names a request it knows of: any request whose row exists.
InsertRequest(r) ==
  /\ runPc[r] = "idle"
  /\ \E old \in {o \in Requests : RowExists(o)} \cup {None} :
       target' = [target EXCEPT ![r] = old]
  /\ \E ok \in BOOLEAN :
       /\ Attempt(ok)
       /\ reqState' = [reqState EXCEPT ![r] = IF ok THEN "created" ELSE @]
       /\ runPc' = [runPc EXCEPT ![r] = IF ok THEN "rows" ELSE "failed"]
  /\ UNCHANGED <<supersededBy, viewRow, judgeRow, dangerFlag, finished,
                 registered, ctxVars, execVars, judgeVars, published, crashes>>

\* The view rows, seat by seat, and the judge row.  A failing statement makes
\* Run return an error and leaves the rows already inserted.
InsertRows(r) ==
  /\ runPc[r] = "rows"
  /\ \E done \in SUBSET Seats, ok \in BOOLEAN :
       /\ Attempt(ok)
       /\ ok => done = Seats
       /\ viewRow' = [viewRow EXCEPT ![r] =
                        [s \in Seats |-> IF s \in done THEN "pending" ELSE @[s]]]
       /\ judgeRow' = [judgeRow EXCEPT ![r] =
            IF ok THEN [state |-> "pending", included |-> {}] ELSE @]
       /\ runPc' = [runPc EXCEPT ![r] = IF ~ok THEN "failed"
                                        ELSE IF target[r] = None THEN "register"
                                        ELSE "supersede"]
  /\ UNCHANGED <<reqState, supersededBy, dangerFlag, finished, target,
                 registered, ctxVars, execVars, judgeVars, published, crashes>>

\* SetSuperseded overwrites whatever state the old row has; an error is logged.
SetSuperseded(r) ==
  /\ runPc[r] = "supersede"
  /\ \E ok \in BOOLEAN :
       /\ Attempt(ok)
       /\ IF ok
          THEN /\ reqState' = [reqState EXCEPT ![target[r]] = "superseded"]
               /\ supersededBy' = [supersededBy EXCEPT ![target[r]] = r]
          ELSE UNCHANGED <<reqState, supersededBy>>
  /\ runPc' = [runPc EXCEPT ![r] = "cancel"]
  /\ UNCHANGED <<viewRow, judgeRow, dangerFlag, finished, target, registered,
                 ctxVars, execVars, judgeVars, published, crashes>>

\* A context derived from runCtx keeps the first cause that ended it.
EndCtx(ctx, cause) == IF ctx = "live" THEN cause ELSE ctx

\* reg.Cancel: a run that has not registered its cancel func is not reached.
CancelSuperseded(r) ==
  LET old == target[r] IN
  /\ runPc[r] = "cancel"
  /\ IF registered[old]
     THEN /\ canceled' = [canceled EXCEPT ![old] = TRUE]
          /\ viewsCtx' = [viewsCtx EXCEPT ![old] = EndCtx(@, "canceled")]
          /\ judgeCtx' = [judgeCtx EXCEPT ![old] = EndCtx(@, "canceled")]
     ELSE UNCHANGED ctxVars
  /\ runPc' = [runPc EXCEPT ![r] = "announce"]
  /\ UNCHANGED <<rowVars, target, registered, execVars, judgeVars,
                 published, faults, crashes>>

AnnounceSuperseded(r) ==
  /\ runPc[r] = "announce"
  /\ Publish(target[r], Event("superseded", None))
  /\ runPc' = [runPc EXCEPT ![r] = "register"]
  /\ UNCHANGED <<rowVars, target, registered, ctxVars, execVars, judgeVars,
                 faults, crashes>>

\* Register the cancel func, start execute, return the id to the client.
RegisterRun(r) ==
  /\ runPc[r] = "register"
  /\ registered' = [registered EXCEPT ![r] = TRUE]
  /\ exPc' = [exPc EXCEPT ![r] = "start"]
  /\ runPc' = [runPc EXCEPT ![r] = "returned"]
  /\ UNCHANGED <<rowVars, target, ctxVars, calling, results, pending, included,
                 judgeVars, published, faults, crashes>>

-----------------------------------------------------------------------------
(* execute: coordinator and view goroutines.                               *)

\* Mutant: the update without its guard.
SetAlways(r, state) == reqState' = [reqState EXCEPT ![r] = state]

\* UpdateRequestStateIfNotSuperseded
SetUnlessSuperseded(r, state) ==
  reqState' = [reqState EXCEPT ![r] = IF @ = "superseded" THEN @ ELSE state]

StartViews(r) ==
  /\ exPc[r] = "start"
  /\ \E ok \in BOOLEAN :
       /\ Attempt(ok)
       /\ IF ok THEN SetUnlessSuperseded(r, "running_views")
                ELSE UNCHANGED reqState
  /\ exPc' = [exPc EXCEPT ![r] = "select"]
  /\ calling' = [calling EXCEPT ![r] = Seats]
  /\ pending' = [pending EXCEPT ![r] = Seats]
  /\ UNCHANGED <<supersededBy, viewRow, judgeRow, dangerFlag, finished,
                 entryVars, ctxVars, results, included, judgeVars,
                 published, crashes>>

\* Mutant: the view calls run on a context without a deadline.
ViewsDeadlineUnset(r) == FALSE /\ UNCHANGED vars

\* The deadline is counted from the call of Run, so it may pass at any time;
\* once the judge is triggered nothing depends on it any more.
ViewsDeadline(r) ==
  /\ exPc[r] \in {"start", "select", "received"}
  /\ viewsCtx[r] = "live"
  /\ viewsCtx' = [viewsCtx EXCEPT ![r] = "expired"]
  /\ UNCHANGED <<rowVars, entryVars, canceled, judgeCtx, execVars, judgeVars,
                 published, faults, crashes>>

\* callView ends and its goroutine delivers into the channel, which has room
\* for every seat.  The gateway reports a timeout only for an expired context.
CallView(r, s) ==
  /\ s \in calling[r]
  /\ \E kind \in ViewOutcomes :
       /\ kind = "timeout" => viewsCtx[r] = "expired"
       /\ results' = [results EXCEPT ![r] = Append(@, [seat |-> s, kind |-> kind])]
  /\ calling' = [calling EXCEPT ![r] = @ \ {s}]
  /\ UNCHANGED <<rowVars, entryVars, ctxVars, exPc, pending, included,
                 judgeVars, published, faults, crashes>>

\* Mutant: lateness is decided by the view's own outcome only.
RecordedWithoutLate(kind, late) ==
  CASE kind \in Usable   -> "complete"
    [] kind = "timeout"  -> "timed_out"
    [] OTHER             -> "failed"

\* recordView's choice of the row state; the flag included_in_judge is
\* written in the same statement as state = "complete".
RecordedState(kind, late) ==
  CASE late /\ kind \in Usable   -> "late"
    [] ~late /\ kind \in Usable  -> "complete"
    [] kind = "timeout"          -> "timed_out"
    [] OTHER                     -> "failed"

RecordedEvent(kind, late) ==
  IF kind \notin Usable THEN "view_failed"
  ELSE IF late THEN "view_late" ELSE "view_complete"

\* First half of recordView: the statements.  Their errors are only logged.
PersistView(r, late) ==
  LET res == Head(results[r]) IN
  \E rowOk, flagOk \in BOOLEAN :
    /\ flagOk \/ res.kind = "danger"
    /\ AttemptBoth(rowOk, flagOk)
    /\ viewRow' = [viewRow EXCEPT ![r][res.seat] =
                     IF rowOk THEN RecordedState(res.kind, late) ELSE @]
    /\ dangerFlag' = [dangerFlag EXCEPT ![r] =
                        @ \/ (res.kind = "danger" /\ flagOk)]

\* Mutant: the caution goes out after the view that reports it.
AnnounceViewFirst(r, late) ==
  LET res  == Head(results[r])
      told == Append(published[r], Event(RecordedEvent(res.kind, late), res.seat))
  IN  published' = [published EXCEPT ![r] =
        IF res.kind = "danger" THEN Append(told, Event("danger", res.seat)) ELSE told]

\* Second half: danger goes out before the view's own event.
AnnounceView(r, late) ==
  LET res    == Head(results[r])
      warned == IF res.kind = "danger"
                THEN Append(published[r], Event("danger", res.seat))
                ELSE published[r]
  IN  published' = [published EXCEPT ![r] =
        Append(warned, Event(RecordedEvent(res.kind, late), res.seat))]

\* The select loop receives a result ...
ReceiveView(r) ==
  /\ exPc[r] = "select"
  /\ results[r] # <<>>
  /\ PersistView(r, FALSE)
  /\ exPc' = [exPc EXCEPT ![r] = "received"]
  /\ UNCHANGED <<reqState, supersededBy, judgeRow, finished, entryVars, ctxVars,
                 calling, results, pending, included, judgeVars,
                 published, crashes>>

\* Mutant: every delivered view counts.
CountsAlways(kind) == TRUE

\* res.terminal: the view goes to the judge.
Counts(kind) == kind \in Usable

\* ... announces it, and triggers the judge when it was the last one.
IncludeView(r) ==
  LET res == Head(results[r])
      left == pending[r] \ {res.seat}
  IN
  /\ exPc[r] = "received"
  /\ AnnounceView(r, FALSE)
  /\ results' = [results EXCEPT ![r] = Tail(@)]
  /\ pending' = [pending EXCEPT ![r] = left]
  /\ included' = [included EXCEPT ![r] =
                    IF Counts(res.kind) THEN @ \cup {res.seat} ELSE @]
  /\ IF left = {}
     THEN /\ exPc' = [exPc EXCEPT ![r] = "drain"]
          /\ judgePc' = [judgePc EXCEPT ![r] = "start"]
     ELSE /\ exPc' = [exPc EXCEPT ![r] = "select"]
          /\ UNCHANGED judgePc
  /\ UNCHANGED <<rowVars, entryVars, ctxVars, calling, judgeOut, faults, crashes>>

\* Mutant: at the deadline a seat that has not answered is failed at once,
\* and recorded again when its goroutine delivers.
TriggerJudgeAndFail(r) ==
  /\ exPc[r] = "select"
  /\ viewsCtx[r] # "live"
  /\ exPc' = [exPc EXCEPT ![r] = "drain"]
  /\ judgePc' = [judgePc EXCEPT ![r] = "start"]
  /\ \E s \in pending[r] :
       /\ viewRow' = [viewRow EXCEPT ![r][s] = "timed_out"]
       /\ Publish(r, Event("view_failed", s))
  /\ UNCHANGED <<reqState, supersededBy, judgeRow, dangerFlag, finished, entryVars,
                 ctxVars, calling, results, pending, included, judgeOut, faults, crashes>>

\* ... or the views deadline, or the run's cancel, triggers the judge.  When
\* a result is ready as well, select may take either.
TriggerJudge(r) ==
  /\ exPc[r] = "select"
  /\ viewsCtx[r] # "live"
  /\ exPc' = [exPc EXCEPT ![r] = "drain"]
  /\ judgePc' = [judgePc EXCEPT ![r] = "start"]
  /\ UNCHANGED <<rowVars, entryVars, ctxVars, calling, results, pending, included,
                 judgeOut, published, faults, crashes>>

\* After the trigger the drain goroutine records every other view as late.
DrainView(r) ==
  /\ exPc[r] = "drain"
  /\ results[r] # <<>>
  /\ PersistView(r, TRUE)
  /\ exPc' = [exPc EXCEPT ![r] = "straggler"]
  /\ UNCHANGED <<reqState, supersededBy, judgeRow, finished, entryVars, ctxVars,
                 calling, results, pending, included, judgeVars,
                 published, crashes>>

AnnounceStraggler(r) ==
  /\ exPc[r] = "straggler"
  /\ AnnounceView(r, TRUE)
  /\ results' = [results EXCEPT ![r] = Tail(@)]
  /\ exPc' = [exPc EXCEPT ![r] = "drain"]
  /\ UNCHANGED <<rowVars, entryVars, ctxVars, calling, pending, included,
                 judgeVars, faults, crashes>>

\* Mutant: the drain stops as soon as the channel is empty.
AllDeliveredYet(r) == TRUE

\* wg.Wait: every view goroutine has delivered.
AllDelivered(r) == calling[r] = {}

\* results is closed once every goroutine delivered: viewsDrained is closed.
ViewsDrained(r) ==
  /\ exPc[r] = "drain"
  /\ AllDelivered(r)
  /\ results[r] = <<>>
  /\ exPc' = [exPc EXCEPT ![r] = "drained"]
  /\ UNCHANGED <<rowVars, entryVars, ctxVars, calling, results, pending, included,
                 judgeVars, published, faults, crashes>>

-----------------------------------------------------------------------------
(* runJudgePhase and finishJudge.                                          *)

\* UpdateRequestProgress writes running_judge whatever the state was.
StartJudge(r) ==
  /\ judgePc[r] = "start"
  /\ \E ok \in BOOLEAN :
       /\ Attempt(ok)
       /\ reqState' = [reqState EXCEPT ![r] = IF ok THEN "running_judge" ELSE @]
  /\ judgePc' = [judgePc EXCEPT ![r] = "announce"]
  /\ UNCHANGED <<supersededBy, viewRow, judgeRow, dangerFlag, finished, entryVars,
                 ctxVars, execVars, judgeOut, published, crashes>>

\* judgeCtx is derived from runCtx here: an earlier cancel is inherited.
AnnounceJudge(r) ==
  /\ judgePc[r] = "announce"
  /\ Publish(r, Event("judge_started", Judge))
  /\ judgePc' = [judgePc EXCEPT ![r] = "call"]
  /\ UNCHANGED <<rowVars, entryVars, ctxVars, execVars, judgeOut, faults, crashes>>

JudgeDeadline(r) ==
  /\ judgePc[r] = "call"
  /\ judgeCtx[r] = "live"
  /\ judgeCtx' = [judgeCtx EXCEPT ![r] = "expired"]
  /\ UNCHANGED <<rowVars, entryVars, canceled, viewsCtx, execVars, judgeVars,
                 published, faults, crashes>>

CallJudge(r) ==
  /\ judgePc[r] = "call"
  /\ \E kind \in JudgeOutcomes :
       /\ kind = "timeout" => judgeCtx[r] = "expired"
       /\ judgeOut' = [judgeOut EXCEPT ![r] = kind]
  /\ judgePc' = [judgePc EXCEPT ![r] = "await"]
  /\ UNCHANGED <<rowVars, entryVars, ctxVars, execVars, published, faults, crashes>>

\* Mutant: the judge's outcome does not wait for stragglers.
ViewsDoneSkipped(r) == exPc[r] # "none"

\* <-viewsDone
ViewsDone(r) == exPc[r] = "drained"

\* <-viewsDone, then the danger flag when the answer reports danger.
AwaitViews(r) ==
  /\ judgePc[r] = "await"
  /\ ViewsDone(r)
  /\ \E ok \in BOOLEAN :
       /\ Attempt(ok)
       /\ ok \/ judgeOut[r] = "danger"
       /\ dangerFlag' = [dangerFlag EXCEPT ![r] = @ \/ (judgeOut[r] = "danger" /\ ok)]
  /\ judgePc' = [judgePc EXCEPT ![r] = "store"]
  /\ UNCHANGED <<reqState, supersededBy, viewRow, judgeRow, finished, entryVars,
                 ctxVars, execVars, judgeOut, published, crashes>>

\* The danger event, then the response row; an answer that cannot be stored
\* counts as a failed judge.
StoreJudge(r) ==
  /\ judgePc[r] = "store"
  /\ IF judgeOut[r] = "danger" THEN Publish(r, Event("danger", Judge))
                               ELSE UNCHANGED published
  /\ \E ok \in BOOLEAN :
       /\ Attempt(ok)
       /\ ok \/ judgeOut[r] # "invalid"
       /\ judgeOut' = [judgeOut EXCEPT ![r] =
            CASE @ \in {"answer", "danger"} /\ ok -> "complete"
              [] @ = "timeout"                    -> "timed_out"
              [] OTHER                            -> "failed"]
  /\ judgePc' = [judgePc EXCEPT ![r] = "persist"]
  /\ UNCHANGED <<rowVars, entryVars, ctxVars, execVars, crashes>>

\* finishJudge: UpdateJudgeResult with the complement of the missing seats.
PersistVerdict(r) ==
  /\ judgePc[r] = "persist"
  /\ \E ok \in BOOLEAN :
       /\ Attempt(ok)
       /\ judgeRow' = [judgeRow EXCEPT ![r] =
            IF ok THEN [state |-> judgeOut[r], included |-> included[r]] ELSE @]
  /\ judgePc' = [judgePc EXCEPT ![r] = "verdict"]
  /\ UNCHANGED <<reqState, supersededBy, viewRow, dangerFlag, finished, entryVars,
                 ctxVars, execVars, judgeOut, published, crashes>>

AnnounceVerdict(r) ==
  /\ judgePc[r] = "verdict"
  /\ Publish(r, Event(IF judgeOut[r] = "complete" THEN "judge_complete"
                                                  ELSE "judge_failed", Judge))
  /\ judgePc' = [judgePc EXCEPT ![r] = "reload"]
  /\ UNCHANGED <<rowVars, entryVars, ctxVars, execVars, judgeOut, faults, crashes>>

\* GetRequest, for the timings: its error ends the run without done.
ReloadRequest(r) ==
  /\ judgePc[r] = "reload"
  /\ \E ok \in BOOLEAN :
       /\ Attempt(ok)
       /\ judgePc' = [judgePc EXCEPT ![r] = IF ok THEN "state" ELSE "lost"]
  /\ UNCHANGED <<rowVars, entryVars, ctxVars, execVars, judgeOut, published, crashes>>

\* Mutant: an answered judge makes the request complete.
FinalStateOfJudge(r) == IF judgeOut[r] = "complete" THEN "complete"
                                                    ELSE "complete_partial"

\* complete, unless the judge failed or a view is missing.
FinalState(r) == IF judgeOut[r] = "complete" /\ included[r] = Seats
                 THEN "complete" ELSE "complete_partial"

\* The timings are written whether or not the row was superseded, and not
\* at all when the statement fails.
FinishState(r) ==
  /\ judgePc[r] = "state"
  /\ \E ok \in BOOLEAN :
       /\ Attempt(ok)
       /\ IF ok THEN SetUnlessSuperseded(r, FinalState(r)) ELSE UNCHANGED reqState
       /\ judgePc' = [judgePc EXCEPT ![r] = IF ok THEN "timings" ELSE "done"]
  /\ UNCHANGED <<supersededBy, viewRow, judgeRow, dangerFlag, finished, entryVars,
                 ctxVars, execVars, judgeOut, published, crashes>>

FinishTimings(r) ==
  /\ judgePc[r] = "timings"
  /\ \E ok \in BOOLEAN :
       /\ Attempt(ok)
       /\ finished' = [finished EXCEPT ![r] = @ \/ ok]
  /\ judgePc' = [judgePc EXCEPT ![r] = "done"]
  /\ UNCHANGED <<reqState, supersededBy, viewRow, judgeRow, dangerFlag, entryVars,
                 ctxVars, execVars, judgeOut, published, crashes>>

PublishDone(r) ==
  /\ judgePc[r] = "done"
  /\ Publish(r, Event("done", None))
  /\ judgePc' = [judgePc EXCEPT ![r] = "exit"]
  /\ UNCHANGED <<rowVars, entryVars, ctxVars, execVars, judgeOut, faults, crashes>>

-----------------------------------------------------------------------------
\* The process dies: only rows and what subscribers already saw remain.  No
\* code picks up the requests left in created, running_views or running_judge.
Crash ==
  /\ crashes < MaxCrashes
  /\ crashes' = crashes + 1
  /\ runPc'      = [r \in Requests |-> IF runPc[r] = "idle" THEN "idle" ELSE "failed"]
  /\ target'     = [r \in Requests |-> None]
  /\ registered' = [r \in Requests |-> FALSE]
  /\ canceled'   = [r \in Requests |-> FALSE]
  /\ viewsCtx'   = [r \in Requests |-> "live"]
  /\ judgeCtx'   = [r \in Requests |-> "live"]
  /\ exPc'       = [r \in Requests |-> "none"]
  /\ calling'    = [r \in Requests |-> {}]
  /\ results'    = [r \in Requests |-> <<>>]
  /\ pending'    = [r \in Requests |-> {}]
  /\ included'   = [r \in Requests |-> {}]
  /\ judgePc'    = [r \in Requests |-> "none"]
  /\ judgeOut'   = [r \in Requests |-> "none"]
  /\ UNCHANGED <<rowVars, published, faults>>

EntryStep(r) == \/ InsertRequest(r) \/ InsertRows(r) \/ SetSuperseded(r)
                \/ CancelSuperseded(r) \/ AnnounceSuperseded(r) \/ RegisterRun(r)

CoordinatorStep(r) == \/ StartViews(r) \/ ReceiveView(r) \/ IncludeView(r)
                      \/ TriggerJudge(r) \/ DrainView(r) \/ AnnounceStraggler(r)
                      \/ ViewsDrained(r)

JudgeStep(r) == \/ StartJudge(r) \/ AnnounceJudge(r) \/ CallJudge(r)
                \/ AwaitViews(r) \/ StoreJudge(r) \/ PersistVerdict(r)
                \/ AnnounceVerdict(r) \/ ReloadRequest(r) \/ FinishState(r)
                \/ FinishTimings(r) \/ PublishDone(r)

Next ==
  \/ \E r \in Requests :
       \/ EntryStep(r)
       \/ CoordinatorStep(r)
       \/ JudgeStep(r)
       \/ ViewsDeadline(r)
       \/ JudgeDeadline(r)
       \/ \E s \in Seats : CallView(r, s)
  \/ Crash

Spec == Init /\ [][Next]_vars

\* Goroutines run, and Run is not abandoned half way.  A model may hang: a
\* gateway call is bound to end only once its context is done, and a context
\* ends because its deadline passes.
Fairness ==
  \A r \in Requests :
    /\ WF_vars(runPc[r] # "idle" /\ EntryStep(r))
    /\ WF_vars(CoordinatorStep(r))
    /\ WF_vars(judgePc[r] # "call" /\ JudgeStep(r))
    /\ WF_vars(judgeCtx[r] # "live" /\ CallJudge(r))
    /\ WF_vars(ViewsDeadline(r))
    /\ WF_vars(JudgeDeadline(r))
    /\ \A s \in Seats : WF_vars(viewsCtx[r] # "live" /\ CallView(r, s))

FairSpec == Spec /\ Fairness

-----------------------------------------------------------------------------
RunPcs   == {"idle", "rows", "supersede", "cancel", "announce", "register",
             "returned", "failed"}
ExPcs    == {"none", "start", "select", "received", "drain", "straggler", "drained"}
JudgePcs == {"none", "start", "announce", "call", "await", "store", "persist",
             "verdict", "reload", "state", "timings", "done", "exit", "lost"}
Results  == [seat : Seats, kind : ViewKinds]

RowTypeOK ==
  /\ reqState \in [Requests -> ReqStates]
  /\ supersededBy \in [Requests -> Requests \cup {None}]
  /\ viewRow \in [Requests -> [Seats -> ViewStates]]
  /\ judgeRow \in [Requests -> [state : JudgeStates, included : SUBSET Seats]]
  /\ dangerFlag \in [Requests -> BOOLEAN]
  /\ finished \in [Requests -> BOOLEAN]

EntryTypeOK ==
  /\ runPc \in [Requests -> RunPcs]
  /\ target \in [Requests -> Requests \cup {None}]
  /\ registered \in [Requests -> BOOLEAN]

CtxTypeOK ==
  /\ canceled \in [Requests -> BOOLEAN]
  /\ viewsCtx \in [Requests -> CtxStates]
  /\ judgeCtx \in [Requests -> CtxStates]

ExecTypeOK ==
  /\ exPc \in [Requests -> ExPcs]
  /\ calling \in [Requests -> SUBSET Seats]
  /\ results \in [Requests -> Seq(Results)]
  /\ pending \in [Requests -> SUBSET Seats]
  /\ included \in [Requests -> SUBSET Seats]

JudgeTypeOK ==
  /\ judgePc \in [Requests -> JudgePcs]
  /\ judgeOut \in [Requests -> {"none"} \cup JudgeKinds \cup Verdicts]

HistoryTypeOK ==
  /\ published \in [Requests -> Seq(Events)]
  /\ faults \in 0..MaxFaults
  /\ crashes \in 0..MaxCrashes

\* Every variable has its type.
TypeOK == /\ RowTypeOK /\ EntryTypeOK /\ CtxTypeOK
          /\ ExecTypeOK /\ JudgeTypeOK /\ HistoryTypeOK

ViewEvents == {"view_complete", "view_failed", "view_late"}
IsViewEvent(e, s) == e.type \in ViewEvents /\ e.who = s
Announced(r, type, who) ==
  \E i \in 1..Len(published[r]) : published[r][i] = Event(type, who)

\* done follows the outcome of every view, stragglers included, and nothing
\* but a supersede notice follows done (execute waits for the drain before
\* the judge result is persisted).
DoneFollowsEveryView ==
  \A r \in Requests : \A i \in 1..Len(published[r]) :
    published[r][i].type = "done" =>
      /\ \A s \in Seats : \E j \in 1..(i - 1) : IsViewEvent(published[r][j], s)
      /\ \A j \in (i + 1)..Len(published[r]) : published[r][j].type = "superseded"

\* A view is announced at most once: never both as included and as late,
\* whichever way the select at the deadline goes.
SeatAnnouncedOnce ==
  \A r \in Requests : \A i, j \in 1..Len(published[r]) : \A s \in Seats :
    IsViewEvent(published[r][i], s) /\ IsViewEvent(published[r][j], s) => i = j

\* An urgent danger reaches the client before the view that reports it, and
\* the row carries the flag for a client that reads it later.
DangerIsPrompt ==
  \A r \in Requests : \A i \in 1..Len(published[r]) :
    published[r][i].type = "danger" =>
      /\ faults = 0 => dangerFlag[r]
      /\ \A j \in 1..(i - 1) : ~ IsViewEvent(published[r][j], published[r][i].who)

\* The stored judge answer names as included exactly the views that were
\* announced as complete: the judge never claims a late or failed view.
AnswerNamesItsViews ==
  \A r \in Requests :
    judgeRow[r].state \in Verdicts =>
      judgeRow[r].included = {s \in Seats : Announced(r, "view_complete", s)}

\* request_views.included_in_judge and request_judge.included_seats_json are
\* written by different goroutines: no view row claims to be included when
\* the judge row does not, and without failed statements they are equal.
RowsAgreeWithAnswer ==
  \A r \in Requests :
    judgeRow[r].state \in Verdicts =>
      LET flagged == {s \in Seats : viewRow[r][s] = "complete"}
      IN  /\ flagged \subseteq judgeRow[r].included
          /\ faults = 0 => flagged = judgeRow[r].included

\* A request is stored as complete exactly when its judge answered over all
\* views; any missing view or failed judge leaves complete_partial.
CompleteMeansWhole ==
  \A r \in Requests :
    LET whole == judgeRow[r] = [state |-> "complete", included |-> Seats]
    IN  faults = 0 =>
          /\ reqState[r] = "complete" => whole
          /\ reqState[r] = "complete_partial" =>
               judgeRow[r].state \in Verdicts /\ ~whole

\* finished_at is the last word: by then no view is pending, the verdict is
\* stored, and the state is one a client may stop polling at.
FinishedMeansSettled ==
  \A r \in Requests :
    finished[r] /\ faults = 0 =>
      /\ \A s \in Seats : viewRow[r][s] \in {"complete", "late", "timed_out", "failed"}
      /\ judgeRow[r].state \in Verdicts
      /\ reqState[r] \in {"complete", "complete_partial", "superseded"}

\* A recorded view outcome is never overwritten, nor a stored verdict: a
\* straggler cannot replace what the judge has used.
OutcomesAreFinal ==
  [][\A r \in Requests :
       /\ \A s \in Seats :
            viewRow[r][s] \notin {"absent", "pending"} => viewRow'[r][s] = viewRow[r][s]
       /\ judgeRow[r].state \in Verdicts => judgeRow'[r] = judgeRow[r]]_vars

\* Once the judge has started, a supersede that reached the row stays: the
\* guarded update of finishJudge cannot turn it into complete.
SupersedeOutlivesJudge ==
  [][\A r \in Requests :
       reqState[r] = "superseded" /\ judgePc[r] \notin {"none", "start"}
         => reqState'[r] = "superseded"]_vars

\* What the guarded update promises at any time: a superseded request keeps
\* that state.
SupersededIsFinal ==
  [][\A r \in Requests :
       reqState[r] = "superseded" => reqState'[r] = "superseded"]_vars

\* Every run that was detached publishes done, even when models hang, unless
\* the final GetRequest fails or the process dies.
EveryRunEnds ==
  \A r \in Requests :
    runPc[r] = "returned" ~> \/ Announced(r, "done", None)
                             \/ judgePc[r] = "lost"
                             \/ runPc[r] = "failed"
=============================================================================
