---------------------- MODULE CouncilRunSettledProofs ----------------------
(***************************************************************************)
(* What the rows of a run say once it is settled, how danger is told, and  *)
(* that CouncilRun implements RequestLifecycle, for every set of requests  *)
(* and seats and every bound on faults and crashes.                        *)
(***************************************************************************)
EXTENDS CouncilRunProofs

\* Readings of one history of events p.
SaidIn(p, type, who) == \E i \in 1..Len(p) : p[i] = Event(type, who)
WarnedIn(p)          == \E i \in 1..Len(p) : p[i].type = "danger"
DangerFirstIn(p) ==
  \A i \in 1..Len(p) : p[i].type = "danger" =>
    \A j \in 1..(i - 1) : ~ IsViewEvent(p[j], p[i].who)

\* The result the coordinator records or announces next.
Current(r) == Head(results[r])

\* The judge goroutine is past UpdateJudgeResult, past its event, and past
\* the guarded update of the request.
PastPersist == {"verdict", "reload", "state", "timings", "done", "exit", "lost"}
PastVerdict == PastPersist \ {"verdict"}
PastState   == {"timings", "done", "exit"}

Settled == {"complete", "late", "timed_out", "failed"}

\* A row says complete only of a view that is announced as complete or about
\* to be, unless the run died before its verdict; without failed statements
\* the row of every announced view holds what was announced.
Flagged(r) ==
  /\ \A s \in Seats : viewRow[r][s] = "complete" =>
       \/ CompletedIn(published[r], s)
       \/ exPc[r] = "received" /\ s = Current(r).seat /\ Current(r).kind \in Usable
       \/ runPc[r] = "failed" /\ judgeRow[r].state \notin Verdicts
  /\ faults = 0 =>
       /\ exPc[r] \in {"received", "straggler"} =>
            viewRow[r][Current(r).seat] =
              RecordedState(Current(r).kind, exPc[r] = "straggler")
       /\ \A s \in Seats : ToldIn(published[r], s) => viewRow[r][s] \in Settled
       /\ \A s \in Seats : CompletedIn(published[r], s) => viewRow[r][s] = "complete"

\* The final rows are written in the order verdict, state, timings, and only
\* by the run itself, except that another run may mark it as superseded.
Finishing(r) ==
  /\ reqState[r] \in {"complete", "complete_partial"} =>
       runPc[r] = "failed" \/ judgePc[r] \in PastState
  /\ finished[r] => runPc[r] = "failed" \/ judgePc[r] \in {"done", "exit"}
  /\ faults = 0 =>
       /\ judgePc[r] \in PastPersist =>
            /\ judgeOut[r] \in Verdicts
            /\ judgeRow[r] = [state |-> judgeOut[r], included |-> included[r]]
       /\ judgePc[r] \in PastState =>
            reqState[r] \in {"complete", "complete_partial", "superseded"}
       /\ finished[r] =>
            /\ \A s \in Seats : viewRow[r][s] \in Settled
            /\ judgeRow[r].state \in Verdicts
            /\ reqState[r] \in {"complete", "complete_partial", "superseded"}
       /\ reqState[r] \in {"complete", "complete_partial"} =>
            /\ judgeRow[r].state \in Verdicts
            /\ reqState[r] = "complete" <=>
                 judgeRow[r] = [state |-> "complete", included |-> Seats]

\* A danger is told before the view that reports it, and flagged before it is
\* told; no view event is about the judge.
Warned(r) ==
  /\ DangerFirstIn(published[r])
  /\ ~ ToldIn(published[r], Judge)
  /\ faults = 0 =>
       /\ WarnedIn(published[r]) => dangerFlag[r]
       /\ exPc[r] \in {"received", "straggler"} /\ Current(r).kind = "danger" => dangerFlag[r]
       /\ judgePc[r] = "store" /\ judgeOut[r] = "danger" => dangerFlag[r]

\* The events that open and close the verdict are told in their place, and a
\* run that writes anything has its row.
Phased(r) ==
  LET decided == Answered(r) \/ Unanswered(r) IN
  /\ decided => runPc[r] = "failed" \/ judgePc[r] \in PastVerdict
  /\ judgePc[r] \in PastVerdict => decided
  /\ ~ (Answered(r) /\ Unanswered(r))
  /\ runPc[r] \notin {"idle", "failed"} => RowExists(r)
  /\ target[r] \in Requests => RowExists(target[r])
  /\ ~ RowExists(r) => ~decided /\ ~ DoneIn(published[r])

-----------------------------------------------------------------------------
(* What one more event adds to the readings.                               *)

LEMMA AppendSaid ==
  ASSUME NEW p \in Seq(Events), NEW e \in Events, NEW type, NEW who
  PROVE  SaidIn(Append(p, e), type, who) <=> SaidIn(p, type, who) \/ e = Event(type, who)
<1> DEFINE q == Append(p, e)
<1>1. Len(q) = Len(p) + 1 /\ q[Len(p) + 1] = e /\ \A i \in 1..Len(p) : q[i] = p[i]
  BY AppendProperties
<1>2. Len(p) \in Nat
  BY LenProperties
<1> HIDE DEF q
<1>3. SaidIn(q, type, who) <=> SaidIn(p, type, who) \/ e = Event(type, who)
  BY <1>1, <1>2 DEF SaidIn
<1>4. QED
  BY <1>3 DEF q

LEMMA AppendWarned ==
  ASSUME NEW p \in Seq(Events), NEW e \in Events
  PROVE  /\ WarnedIn(Append(p, e)) <=> WarnedIn(p) \/ e.type = "danger"
         /\ DangerFirstIn(p) /\ (e.type = "danger" => ~ ToldIn(p, e.who))
              => DangerFirstIn(Append(p, e))
<1> DEFINE q == Append(p, e)
<1>1. Len(q) = Len(p) + 1 /\ q[Len(p) + 1] = e /\ \A i \in 1..Len(p) : q[i] = p[i]
  BY AppendProperties
<1>2. Len(p) \in Nat
  BY LenProperties
<1> HIDE DEF q
<1>3. WarnedIn(q) <=> WarnedIn(p) \/ e.type = "danger"
  BY <1>1, <1>2 DEF WarnedIn
<1>4. ASSUME DangerFirstIn(p), e.type = "danger" => ~ ToldIn(p, e.who),
             NEW i \in 1..Len(q), q[i].type = "danger", NEW j \in 1..(i - 1)
      PROVE  ~ IsViewEvent(q[j], q[i].who)
  <2>1. j \in 1..Len(p) /\ q[j] = p[j]
    BY <1>1, <1>2, <1>4
  <2>2. CASE i \in 1..Len(p)
    BY <1>1, <1>4, <2>1, <2>2 DEF DangerFirstIn
  <2>3. CASE i = Len(p) + 1
    BY <1>1, <1>4, <2>1, <2>3 DEF ToldIn
  <2>4. QED
    BY <1>1, <1>2, <2>2, <2>3
<1>5. QED
  BY <1>3, <1>4 DEF q, DangerFirstIn

\* An event that is not about a view.
LEMMA PublishSays ==
  ASSUME TypeInv, NEW r \in Requests, NEW e \in Events, Publish(r, e),
         e.type \notin ViewEvents
  PROVE  /\ \A x \in Requests \ {r} : published'[x] = published[x]
         /\ \A type, who : SaidIn(published'[r], type, who) <=>
              SaidIn(published[r], type, who) \/ e = Event(type, who)
         /\ \A s : ToldIn(published'[r], s) <=> ToldIn(published[r], s)
         /\ WarnedIn(published'[r]) <=> WarnedIn(published[r]) \/ e.type = "danger"
         /\ /\ DangerFirstIn(published[r])
            /\ e.type = "danger" => ~ ToldIn(published[r], e.who)
            => DangerFirstIn(published'[r])
<1>1. published'[r] = Append(published[r], e) /\ published[r] \in Seq(Events)
  BY DEF TypeInv, TypeOK, HistoryTypeOK, Publish
<1>2. \A x \in Requests \ {r} : published'[x] = published[x]
  BY DEF TypeInv, TypeOK, HistoryTypeOK, Publish
<1>3. \A type, who : SaidIn(published'[r], type, who) <=>
        SaidIn(published[r], type, who) \/ e = Event(type, who)
  BY <1>1, AppendSaid
<1>4. \A s : ToldIn(published'[r], s) <=> ToldIn(published[r], s)
  BY <1>1, AppendTold DEF IsViewEvent
<1>5. /\ WarnedIn(published'[r]) <=> WarnedIn(published[r]) \/ e.type = "danger"
      /\ /\ DangerFirstIn(published[r])
         /\ e.type = "danger" => ~ ToldIn(published[r], e.who)
         => DangerFirstIn(published'[r])
  BY <1>1, AppendWarned
<1>6. QED
  BY <1>2, <1>3, <1>4, <1>5

\* recordView's events: at most a danger, then the view's own.
LEMMA AnnounceViewSays ==
  ASSUME TypeInv, NEW r \in Requests, NEW late \in BOOLEAN,
         results[r] # <<>>, AnnounceView(r, late)
  PROVE  /\ Current(r).seat \in Seats /\ Current(r).kind \in ViewKinds
         /\ \A x \in Requests \ {r} : published'[x] = published[x]
         /\ \A type, who : SaidIn(published'[r], type, who) <=>
              \/ SaidIn(published[r], type, who)
              \/ type = RecordedEvent(Current(r).kind, late) /\ who = Current(r).seat
              \/ Current(r).kind = "danger" /\ type = "danger" /\ who = Current(r).seat
         /\ \A s : ToldIn(published'[r], s) <=> ToldIn(published[r], s) \/ s = Current(r).seat
         /\ WarnedIn(published'[r]) <=> WarnedIn(published[r]) \/ Current(r).kind = "danger"
         /\ DangerFirstIn(published[r]) /\ ~ ToldIn(published[r], Current(r).seat)
              => DangerFirstIn(published'[r])
<1> DEFINE s    == Current(r).seat
           kind == Current(r).kind
           warning == Event("danger", s)
           outcome == Event(RecordedEvent(kind, late), s)
           warned == IF kind = "danger" THEN Append(published[r], warning) ELSE published[r]
<1>1. s \in Seats /\ kind \in ViewKinds
  <2>1. Head(results[r]) \in Results
    BY HeadTailProperties DEF TypeInv, TypeOK, ExecTypeOK
  <2>2. QED
    BY <2>1 DEF Results, Current
<1>2. published[r] \in Seq(Events)
  BY DEF TypeInv, TypeOK, HistoryTypeOK
<1>3. warning \in Events /\ outcome \in Events
  <2>1. RecordedEvent(kind, late) \in EventTypes
    BY DEF RecordedEvent, EventTypes
  <2>2. QED
    BY <1>1, <2>1, EventType DEF EventTypes
<1>4. warned \in Seq(Events)
  BY <1>2, <1>3, AppendProperties
<1>5. published' = [published EXCEPT ![r] = Append(warned, outcome)]
  BY DEF AnnounceView, Current
<1>6. /\ published'[r] = Append(warned, outcome)
      /\ \A x \in Requests \ {r} : published'[x] = published[x]
  BY <1>5 DEF TypeInv, TypeOK, HistoryTypeOK
<1>7. \A type, who : /\ warning = Event(type, who) <=> type = "danger" /\ who = s
                     /\ outcome = Event(type, who) <=>
                          type = RecordedEvent(kind, late) /\ who = s
  BY DEF Event
<1>8. warning.type = "danger" /\ warning.who = s /\ outcome.type # "danger"
  BY DEF Event, RecordedEvent
<1>9. \A t : IsViewEvent(outcome, t) <=> t = s
  BY DEF IsViewEvent, Event, RecordedEvent, ViewEvents
<1>10. \A t : ~ IsViewEvent(warning, t)
  BY DEF IsViewEvent, Event, ViewEvents
<1> HIDE DEF warning, outcome, kind, s
<1>11. \A type, who : SaidIn(warned, type, who) <=>
         SaidIn(published[r], type, who) \/ (kind = "danger" /\ type = "danger" /\ who = s)
  BY <1>2, <1>3, <1>7, AppendSaid
<1>12. \A t : ToldIn(warned, t) <=> ToldIn(published[r], t)
  BY <1>2, <1>3, <1>10, AppendTold
<1>13. WarnedIn(warned) <=> WarnedIn(published[r]) \/ kind = "danger"
  BY <1>2, <1>3, <1>8, AppendWarned
<1>14. DangerFirstIn(published[r]) /\ ~ ToldIn(published[r], s) => DangerFirstIn(warned)
  BY <1>2, <1>3, <1>8, AppendWarned
<1> HIDE DEF warned
<1>15. \A type, who : SaidIn(published'[r], type, who) <=>
         \/ SaidIn(published[r], type, who)
         \/ type = RecordedEvent(kind, late) /\ who = s
         \/ kind = "danger" /\ type = "danger" /\ who = s
  BY <1>3, <1>4, <1>6, <1>7, <1>11, AppendSaid
<1>16. \A t : ToldIn(published'[r], t) <=> ToldIn(published[r], t) \/ t = s
  BY <1>3, <1>4, <1>6, <1>9, <1>12, AppendTold
<1>17. WarnedIn(published'[r]) <=> WarnedIn(published[r]) \/ kind = "danger"
  BY <1>3, <1>4, <1>6, <1>8, <1>13, AppendWarned
<1>18. DangerFirstIn(published[r]) /\ ~ ToldIn(published[r], s) => DangerFirstIn(published'[r])
  BY <1>3, <1>4, <1>6, <1>8, <1>14, AppendWarned
<1>19. QED
  BY <1>1, <1>6, <1>15, <1>16, <1>17, <1>18 DEF kind, s

-----------------------------------------------------------------------------
(* What the steps of each goroutine leave alone.                           *)

\* Failed statements are never forgotten.
LEMMA FaultsGrow ==
  ASSUME TypeInv, [Next]_vars
  PROVE  faults' = 0 => faults = 0
<1> USE DEF TypeInv, TypeOK, HistoryTypeOK
<1>0. faults \in Nat
  BY ConstantsAssumption
<1>1. ASSUME NEW ok \in BOOLEAN, Attempt(ok) PROVE faults' = 0 => faults = 0
  BY <1>0, <1>1 DEF Attempt
<1>2. ASSUME NEW r \in Requests, EntryStep(r) PROVE faults' = 0 => faults = 0
  BY <1>1, <1>2 DEF EntryStep, InsertRequest, InsertRows, SetSuperseded, CancelSuperseded,
                    AnnounceSuperseded, RegisterRun
<1>3. ASSUME NEW r \in Requests, CoordinatorStep(r) PROVE faults' = 0 => faults = 0
  <2>1. ASSUME NEW late \in BOOLEAN, PersistView(r, late) PROVE faults' = 0 => faults = 0
    <3>1. PICK rowOk \in BOOLEAN, flagOk \in BOOLEAN : AttemptBoth(rowOk, flagOk)
      BY <2>1 DEF PersistView
    <3>2. QED
      BY <3>1, AttemptBothType DEF IInv, TypeInv, TypeOK
  <2>2. QED
    BY <1>1, <1>3, <2>1 DEF CoordinatorStep, StartViews, ReceiveView, IncludeView, TriggerJudge,
                            DrainView, AnnounceStraggler, ViewsDrained
<1>4. ASSUME NEW r \in Requests, JudgeStep(r) PROVE faults' = 0 => faults = 0
  BY <1>1, <1>4 DEF JudgeStep, StartJudge, AnnounceJudge, CallJudge, AwaitViews, StoreJudge,
                    PersistVerdict, AnnounceVerdict, ReloadRequest, FinishState,
                    FinishTimings, PublishDone
<1>5. ASSUME NEW r \in Requests, NEW s \in Seats,
             ViewsDeadline(r) \/ JudgeDeadline(r) \/ CallView(r, s)
      PROVE  faults' = faults
  BY <1>5 DEF ViewsDeadline, JudgeDeadline, CallView
<1>6. CASE Crash \/ UNCHANGED vars
  BY <1>6 DEF Crash, vars
<1>7. QED
  BY <1>2, <1>3, <1>4, <1>5, <1>6, ConstantsAssumption DEF Next

\* Run tells nothing but supersede notices, and none before its row exists.
LEMMA EntryTells ==
  ASSUME TypeInv, NEW r \in Requests, EntryStep(r), NEW q \in Requests
  PROVE  /\ \A type, who : type # "superseded" =>
              (SaidIn(published'[q], type, who) <=> SaidIn(published[q], type, who))
         /\ \A s : ToldIn(published'[q], s) <=> ToldIn(published[q], s)
         /\ WarnedIn(published'[q]) <=> WarnedIn(published[q])
         /\ DangerFirstIn(published[q]) => DangerFirstIn(published'[q])
         /\ DoneIn(published'[q]) <=> DoneIn(published[q])
<1>1. CASE AnnounceSuperseded(r) /\ target[r] \in Requests
  <2> DEFINE e == Event("superseded", None)
  <2>1. e \in Events /\ e.type \notin ViewEvents /\ e.type = "superseded"
    BY EventType DEF EventTypes, Event, ViewEvents
  <2>2. \A type, who : e = Event(type, who) => type = "superseded"
    BY DEF Event
  <2>3. Publish(target[r], e)
    BY <1>1 DEF AnnounceSuperseded
  <2> HIDE DEF e
  <2>4. QED
    BY <1>1, <2>1, <2>2, <2>3, PublishSays, PublishTells
<1>2. CASE ~ (AnnounceSuperseded(r) /\ target[r] \in Requests)
  <2>1. published'[q] = published[q]
    BY <1>2 DEF EntryStep, InsertRequest, InsertRows, SetSuperseded, CancelSuperseded,
                AnnounceSuperseded, Publish, RegisterRun, TypeInv, TypeOK, HistoryTypeOK
  <2>2. QED
    BY <2>1
<1>3. QED
  BY <1>1, <1>2

\* Run touches the rows it inserts, the old request's state, and its own
\* progress; goroutines of other runs go on undisturbed.
LEMMA EntryFrame ==
  ASSUME TypeInv, ControlInv, NEW r \in Requests, EntryStep(r)
  PROVE  /\ UNCHANGED <<dangerFlag, finished, calling, results, included, judgePc, judgeOut>>
         /\ runPc[r] \in RunPcs \ {"returned", "failed"}
         /\ exPc[r] = "none" /\ judgePc[r] = "none"
         /\ exPc'[r] \in {"none", "start"}
         /\ \A x \in Requests \ {r} : /\ runPc'[x] = runPc[x] /\ exPc'[x] = exPc[x]
                                      /\ viewRow'[x] = viewRow[x]
                                      /\ judgeRow'[x] = judgeRow[x]
<1> USE DEF TypeInv, TypeOK, RowTypeOK, EntryTypeOK, ExecTypeOK
<1>1. /\ UNCHANGED <<dangerFlag, finished, calling, results, included, judgePc, judgeOut>>
      /\ runPc[r] \in RunPcs \ {"returned", "failed"}
      /\ \A x \in Requests \ {r} : /\ runPc'[x] = runPc[x] /\ exPc'[x] = exPc[x]
                                   /\ viewRow'[x] = viewRow[x]
                                   /\ judgeRow'[x] = judgeRow[x]
  BY DEF EntryStep, InsertRequest, InsertRows, SetSuperseded, CancelSuperseded,
         AnnounceSuperseded, RegisterRun, execVars, judgeVars, rowVars, RunPcs
<1>2. exPc[r] = "none" /\ judgePc[r] = "none"
  BY <1>1 DEF ControlInv, Ordered
<1>3. exPc'[r] \in {"none", "start"}
  BY <1>2 DEF EntryStep, InsertRequest, InsertRows, SetSuperseded, CancelSuperseded,
              AnnounceSuperseded, RegisterRun, execVars
<1>4. QED
  BY <1>1, <1>2, <1>3

\* The judge goroutine leaves the views, the coordinator and other requests
\* alone.
LEMMA JudgeFrame ==
  ASSUME TypeInv, NEW r \in Requests, JudgeStep(r)
  PROVE  /\ UNCHANGED <<viewRow, supersededBy, entryVars, execVars>>
         /\ \A x \in Requests \ {r} :
              /\ reqState'[x] = reqState[x] /\ judgeRow'[x] = judgeRow[x]
              /\ dangerFlag'[x] = dangerFlag[x] /\ finished'[x] = finished[x]
              /\ judgePc'[x] = judgePc[x] /\ judgeOut'[x] = judgeOut[x]
              /\ published'[x] = published[x]
         /\ \A q \in Requests : \A s : ToldIn(published'[q], s) <=> ToldIn(published[q], s)
         /\ \A q \in Requests : \A s :
              CompletedIn(published'[q], s) <=> CompletedIn(published[q], s)
<1> USE DEF TypeInv, TypeOK, RowTypeOK, JudgeTypeOK, HistoryTypeOK
<1>1. UNCHANGED <<viewRow, supersededBy, entryVars, execVars>>
  BY DEF JudgeStep, StartJudge, AnnounceJudge, CallJudge, AwaitViews, StoreJudge,
         PersistVerdict, AnnounceVerdict, ReloadRequest, FinishState,
         FinishTimings, PublishDone, rowVars
<1>2. \A x \in Requests \ {r} :
        /\ reqState'[x] = reqState[x] /\ judgeRow'[x] = judgeRow[x]
        /\ dangerFlag'[x] = dangerFlag[x] /\ finished'[x] = finished[x]
        /\ judgePc'[x] = judgePc[x] /\ judgeOut'[x] = judgeOut[x]
        /\ published'[x] = published[x]
  BY DEF JudgeStep, StartJudge, AnnounceJudge, CallJudge, AwaitViews, StoreJudge,
         PersistVerdict, AnnounceVerdict, ReloadRequest, FinishState, SetUnlessSuperseded,
         FinishTimings, PublishDone, rowVars, Publish
<1>3. \/ published' = published
      \/ \E e \in Events : e.type \notin ViewEvents /\ Publish(r, e)
  <2>1. \A type \in EventTypes \ ViewEvents, who \in Seats \cup {Judge, None} :
          Event(type, who) \in Events /\ Event(type, who).type \notin ViewEvents
    BY EventType DEF Event
  <2>2. /\ Judge \in Seats \cup {Judge, None} /\ None \in Seats \cup {Judge, None}
        /\ {"danger", "judge_started", "judge_complete", "judge_failed", "done"}
             \subseteq EventTypes \ ViewEvents
    BY DEF EventTypes, ViewEvents
  <2>3. CASE AnnounceVerdict(r)
    BY <2>1, <2>2, <2>3 DEF AnnounceVerdict
  <2>4. CASE AnnounceJudge(r) \/ PublishDone(r) \/ StoreJudge(r)
    BY <2>1, <2>2, <2>4 DEF AnnounceJudge, PublishDone, StoreJudge
  <2>5. CASE ~ (AnnounceJudge(r) \/ PublishDone(r) \/ StoreJudge(r) \/ AnnounceVerdict(r))
    BY <2>5 DEF JudgeStep, StartJudge, CallJudge, AwaitViews,
         PersistVerdict, ReloadRequest, FinishState, FinishTimings
  <2>6. QED
    BY <2>3, <2>4, <2>5
<1>4. /\ \A q \in Requests : \A s : ToldIn(published'[q], s) <=> ToldIn(published[q], s)
      /\ \A q \in Requests : \A s :
           CompletedIn(published'[q], s) <=> CompletedIn(published[q], s)
  <2>1. CASE published' = published
    BY <2>1
  <2>2. ASSUME NEW e \in Events, e.type \notin ViewEvents, Publish(r, e)
        PROVE  /\ \A q \in Requests : \A s :
                    ToldIn(published'[q], s) <=> ToldIn(published[q], s)
               /\ \A q \in Requests : \A s :
                    CompletedIn(published'[q], s) <=> CompletedIn(published[q], s)
    <3>1. \A s : e # Event("view_complete", s)
      BY <2>2 DEF Event, ViewEvents
    <3>2. /\ \A x \in Requests \ {r} : published'[x] = published[x]
          /\ \A s : ToldIn(published'[r], s) <=> ToldIn(published[r], s)
          /\ \A s : SaidIn(published'[r], "view_complete", s) <=>
                      SaidIn(published[r], "view_complete", s)
      BY <2>2, <3>1, PublishSays
    <3>3. QED
      BY <3>2 DEF SaidIn, CompletedIn
  <2>3. QED
    BY <1>3, <2>1, <2>2
<1>5. QED
  BY <1>1, <1>2, <1>4

-----------------------------------------------------------------------------
(* Rows and events of the views.                                           *)

FlagInv == \A r \in Requests : Flagged(r)

LEMMA EmptyHistory ==
  ASSUME Init, NEW r \in Requests
  PROVE  /\ \A s : ~ ToldIn(published[r], s) /\ ~ CompletedIn(published[r], s)
         /\ \A type, who : ~ SaidIn(published[r], type, who)
         /\ ~ WarnedIn(published[r]) /\ DangerFirstIn(published[r]) /\ ~ DoneIn(published[r])
<1>1. published[r] = <<>> /\ Len(published[r]) = 0
  BY DEF Init
<1>2. QED
  BY <1>1 DEF ToldIn, CompletedIn, SaidIn, WarnedIn, DangerFirstIn, DoneIn

LEMMA FlagInit == Init => FlagInv
<1> SUFFICES ASSUME Init, NEW r \in Requests PROVE Flagged(r)
  BY DEF FlagInv
<1>1. exPc[r] = "none" /\ \A s \in Seats : viewRow[r][s] = "absent"
  BY DEF Init
<1>2. QED
  BY <1>1, EmptyHistory DEF Flagged

\* Flagged depends on the rows, the head of the channel and what is told.
LEMMA FlagKept ==
  ASSUME NEW r \in Requests, Flagged(r), faults' = 0 => faults = 0,
         UNCHANGED <<viewRow[r], exPc[r]>>,
         exPc[r] \in {"received", "straggler"} => Current(r)' = Current(r),
         runPc[r] = "failed" /\ judgeRow[r].state \notin Verdicts =>
           runPc'[r] = "failed" /\ judgeRow'[r].state \notin Verdicts,
         \A s \in Seats : /\ ToldIn(published'[r], s) <=> ToldIn(published[r], s)
                          /\ CompletedIn(published'[r], s) <=> CompletedIn(published[r], s)
  PROVE  Flagged(r)'
  BY DEF Flagged

LEMMA CompletedSaid ==
  \A p, s : CompletedIn(p, s) <=> SaidIn(p, "view_complete", s)
  BY DEF CompletedIn, SaidIn

LEMMA EntryFlags ==
  ASSUME IInv, FlagInv, NEW r \in Requests, EntryStep(r), NEW q \in Requests,
         faults' = 0 => faults = 0
  PROVE  Flagged(q)'
<1> USE DEF IInv
<1>1. Flagged(q) /\ Ordered(q) /\ Accounted(q) /\ Recorded(q)
  BY DEF FlagInv, ControlInv, AccountInv, OutcomeInv
<1>2. \A s : /\ ToldIn(published'[q], s) <=> ToldIn(published[q], s)
             /\ CompletedIn(published'[q], s) <=> CompletedIn(published[q], s)
  BY EntryTells, CompletedSaid
<1>3. CASE q # r
  BY <1>1, <1>2, <1>3, EntryFrame, FlagKept DEF Current
<1>4. CASE q = r
  <2>1. /\ runPc[r] # "failed" /\ exPc[r] = "none" /\ exPc'[r] \in {"none", "start"}
    BY EntryFrame
  <2>2. \A s \in Seats : ~ ToldIn(published[r], s) /\ viewRow[r][s] \in {"absent", "pending"}
    BY <1>1, <1>4, <2>1 DEF Accounted, Recorded
  <2>3. \A s \in Seats : ~ CompletedIn(published[r], s)
    BY <1>1, <1>4, <2>2 DEF OutcomeInv, Named
  <2>4. \A s \in Seats : viewRow'[r][s] \in {"absent", "pending"}
    BY <2>2 DEF EntryStep, InsertRequest, InsertRows, SetSuperseded, CancelSuperseded,
                AnnounceSuperseded, RegisterRun, rowVars, TypeInv, TypeOK, RowTypeOK
  <2>5. QED
    BY <1>2, <1>4, <2>1, <2>2, <2>3, <2>4 DEF Flagged
<1>5. QED
  BY <1>3, <1>4

\* recordView's statements, at the head of the channel.
LEMMA PersistViewFlags ==
  ASSUME IInv, FlagInv, NEW r \in Requests, NEW late \in BOOLEAN, PersistView(r, late),
         results[r] # <<>>, exPc[r] = IF late THEN "drain" ELSE "select",
         exPc' = [exPc EXCEPT ![r] = IF late THEN "straggler" ELSE "received"],
         UNCHANGED <<runPc, results, judgeRow, published>>,
         faults' = 0 => faults = 0, NEW q \in Requests
  PROVE  Flagged(q)'
<1> DEFINE h == Current(r).seat
           kind == Current(r).kind
<1> USE DEF IInv, TypeInv, TypeOK
<1>1. Flagged(q) /\ Ordered(q) /\ Accounted(q) /\ Recorded(q)
  BY DEF FlagInv, ControlInv, AccountInv, OutcomeInv
<1>2. h \in Seats
  <2>1. Head(results[r]) \in Results
    BY HeadTailProperties DEF ExecTypeOK
  <2>2. QED
    BY <2>1 DEF Results, Current
<1>3. PICK rowOk \in BOOLEAN, flagOk \in BOOLEAN :
        /\ AttemptBoth(rowOk, flagOk)
        /\ viewRow' = [viewRow EXCEPT ![r][h] =
             IF rowOk THEN RecordedState(kind, late) ELSE @]
  BY DEF PersistView, Current
<1>4. faults' = 0 => rowOk
  BY <1>3, AttemptBothType
<1>5. Current(r)' = Current(r)
  BY DEF Current
<1>6. RecordedState(kind, late) = "complete" => ~late /\ kind \in Usable
  BY DEF RecordedState
<1>7. CASE q = r
  <2>1. runPc[r] = "returned"
    BY <1>1, <1>7 DEF Ordered
  <2>2. ~ ToldIn(published[r], h)
    <3>1. HasSeat(results[r], h)
      BY <1>1, <1>7, ReceiveSeat DEF Accounted, Current, ExecTypeOK
    <3>2. QED
      BY <1>1, <1>2, <1>7, <2>1, <3>1 DEF Accounted
  <2>3. exPc'[r] = IF late THEN "straggler" ELSE "received"
    BY DEF ExecTypeOK
  <2>4. /\ viewRow'[r][h] = IF rowOk THEN RecordedState(kind, late) ELSE viewRow[r][h]
        /\ \A s \in Seats \ {h} : viewRow'[r][s] = viewRow[r][s]
    BY <1>2, <1>3 DEF RowTypeOK
  <2>5. viewRow[r][h] \in {"absent", "pending"}
    BY <1>1, <1>2, <1>7, <2>1, <2>2 DEF Recorded
  <2>6. ~ CompletedIn(published[r], h)
    BY <1>2, <2>2 DEF OutcomeInv, Named
  <2> HIDE DEF h, kind
  <2>7. ASSUME NEW s \in Seats, viewRow'[r][s] = "complete"
        PROVE  \/ CompletedIn(published'[r], s)
               \/ /\ exPc'[r] = "received" /\ s = Current(r)'.seat
                  /\ Current(r)'.kind \in Usable
    <3>1. CASE s = h
      BY <1>5, <1>6, <2>3, <2>4, <2>5, <2>7, <3>1 DEF h, kind
    <3>2. CASE s # h
      BY <1>1, <1>7, <2>1, <2>4, <2>7, <3>2 DEF Flagged
    <3>3. QED
      BY <3>1, <3>2
  <2>8. ASSUME faults' = 0
        PROVE  /\ exPc'[r] \in {"received", "straggler"} =>
                    viewRow'[r][Current(r)'.seat] =
                      RecordedState(Current(r)'.kind, exPc'[r] = "straggler")
               /\ \A s \in Seats : ToldIn(published'[r], s) => viewRow'[r][s] \in Settled
               /\ \A s \in Seats : CompletedIn(published'[r], s) => viewRow'[r][s] = "complete"
    <3>1. viewRow'[r][h] = RecordedState(kind, exPc'[r] = "straggler")
      BY <1>4, <2>3, <2>4, <2>8
    <3>2. QED
      BY <1>1, <1>5, <1>7, <2>2, <2>4, <2>6, <2>8, <3>1 DEF Flagged, h, kind
  <2>9. QED
    BY <1>7, <2>7, <2>8 DEF Flagged
<1>8. CASE q # r
  <2>1. viewRow'[q] = viewRow[q] /\ exPc'[q] = exPc[q]
    BY <1>3, <1>8 DEF RowTypeOK, ExecTypeOK
  <2>2. QED
    BY <1>1, <2>1, FlagKept DEF Current
<1>9. QED
  BY <1>7, <1>8

\* recordView's events, for the head of the channel, which then leaves.
LEMMA AnnounceViewFlags ==
  ASSUME IInv, FlagInv, NEW r \in Requests, NEW late \in BOOLEAN, AnnounceView(r, late),
         exPc[r] = IF late THEN "straggler" ELSE "received",
         exPc'[r] \notin {"received", "straggler"},
         \A x \in Requests \ {r} : exPc'[x] = exPc[x] /\ results'[x] = results[x],
         UNCHANGED <<runPc, viewRow, judgeRow>>,
         faults' = 0 => faults = 0, NEW q \in Requests
  PROVE  Flagged(q)'
<1> DEFINE h == Current(r).seat
           kind == Current(r).kind
<1>1. Flagged(q) /\ Ordered(q)
  BY DEF IInv, FlagInv, ControlInv
<1>2. results[r] # <<>>
  BY DEF IInv, TypeInv, HoldsResult
<1>3. /\ h \in Seats /\ kind \in ViewKinds
      /\ \A x \in Requests \ {r} : published'[x] = published[x]
      /\ \A s : ToldIn(published'[r], s) <=> ToldIn(published[r], s) \/ s = h
      /\ \A s : CompletedIn(published'[r], s) <=>
           \/ CompletedIn(published[r], s)
           \/ "view_complete" = RecordedEvent(kind, late) /\ s = h
  BY <1>2, AnnounceViewSays, CompletedSaid DEF IInv
<1>4. "view_complete" = RecordedEvent(kind, late) <=> ~late /\ kind \in Usable
  BY DEF RecordedEvent
<1>5. /\ RecordedState(kind, late) \in Settled
      /\ ~late /\ kind \in Usable => RecordedState(kind, late) = "complete"
  <2>1. CASE kind \in Usable
    BY <2>1 DEF RecordedState, Settled, Usable
  <2>2. CASE kind \notin Usable
    BY <2>2 DEF RecordedState, Settled
  <2>3. QED
    BY <2>1, <2>2
<1> HIDE DEF h, kind
<1>6. CASE q = r
  <2>1. runPc[r] = "returned"
    BY <1>1, <1>6 DEF Ordered
  <2>2. (exPc[r] = "straggler") = late
    OBVIOUS
  <2>3. ASSUME NEW s \in Seats, viewRow[r][s] = "complete"
        PROVE  CompletedIn(published'[r], s)
    BY <1>1, <1>3, <1>4, <1>6, <2>1, <2>3 DEF Flagged, h, kind
  <2>4. ASSUME faults = 0
        PROVE  viewRow[r][h] = RecordedState(kind, late)
    BY <1>1, <1>6, <2>2, <2>4 DEF Flagged, h, kind
  <2>5. ASSUME faults = 0
        PROVE  /\ \A s \in Seats : ToldIn(published'[r], s) => viewRow[r][s] \in Settled
               /\ \A s \in Seats : CompletedIn(published'[r], s) => viewRow[r][s] = "complete"
    BY <1>1, <1>3, <1>4, <1>5, <1>6, <2>4, <2>5 DEF Flagged
  <2>6. QED
    BY <1>6, <2>3, <2>5 DEF Flagged
<1>7. CASE q # r
  BY <1>1, <1>3, <1>7, FlagKept DEF Current
<1>8. QED
  BY <1>6, <1>7

LEMMA CoordinatorFlags ==
  ASSUME IInv, FlagInv, NEW r \in Requests, CoordinatorStep(r), NEW q \in Requests,
         faults' = 0 => faults = 0
  PROVE  Flagged(q)'
<1> USE DEF IInv, TypeInv, TypeOK, ExecTypeOK, entryVars, rowVars, judgeVars
<1>1. Flagged(q) /\ Ordered(q)
  BY DEF FlagInv, ControlInv
<1>2. CASE StartViews(r) \/ TriggerJudge(r) \/ ViewsDrained(r)
  <2>1. /\ UNCHANGED <<viewRow, runPc, results, judgeRow, published>>
        /\ \A x \in Requests \ {r} : exPc'[x] = exPc[x]
        /\ {exPc[r], exPc'[r]} \cap {"received", "straggler"} = {}
    BY <1>2 DEF StartViews, TriggerJudge, ViewsDrained
  <2>2. QED
    BY <1>1, <2>1 DEF Flagged, Current
<1>3. CASE ReceiveView(r)
  BY <1>3, PersistViewFlags DEF ReceiveView
<1>4. CASE DrainView(r)
  BY <1>4, PersistViewFlags DEF DrainView
<1>5. CASE IncludeView(r)
  <2>1. /\ AnnounceView(r, FALSE) /\ exPc[r] = "received"
        /\ exPc'[r] \notin {"received", "straggler"}
        /\ \A x \in Requests \ {r} : exPc'[x] = exPc[x] /\ results'[x] = results[x]
        /\ UNCHANGED <<runPc, viewRow, judgeRow>>
    BY <1>5 DEF IncludeView
  <2>2. QED
    BY <2>1, AnnounceViewFlags
<1>6. CASE AnnounceStraggler(r)
  <2>1. /\ AnnounceView(r, TRUE) /\ exPc[r] = "straggler"
        /\ exPc'[r] \notin {"received", "straggler"}
        /\ \A x \in Requests \ {r} : exPc'[x] = exPc[x] /\ results'[x] = results[x]
        /\ UNCHANGED <<runPc, viewRow, judgeRow>>
    BY <1>6 DEF AnnounceStraggler
  <2>2. QED
    BY <2>1, AnnounceViewFlags
<1>7. QED
  BY <1>2, <1>3, <1>4, <1>5, <1>6 DEF CoordinatorStep

\* A delivery leaves the head of the channel where it is.
LEMMA DeliveryKeepsHead ==
  ASSUME TypeInv, NEW r \in Requests, NEW s \in Seats, CallView(r, s), NEW q \in Requests,
         results[q] # <<>>
  PROVE  Current(q)' = Current(q)
<1> USE DEF TypeInv, TypeOK, ExecTypeOK
<1>1. PICK kind \in ViewOutcomes :
        results' = [results EXCEPT ![r] = Append(@, [seat |-> s, kind |-> kind])]
  BY DEF CallView
<1>2. [seat |-> s, kind |-> kind] \in Results
  BY ConstantsAssumption DEF Results
<1>3. CASE q = r
  <2>1. results[r] \in Seq(Results) /\ Len(results[r]) \in Nat \ {0}
    BY <1>3, EmptySeq
  <2>2. /\ results'[r] = Append(results[r], [seat |-> s, kind |-> kind])
        /\ results'[r][1] = results[r][1]
    BY <1>1, <1>2, <2>1, AppendProperties
  <2>3. QED
    BY <1>2, <1>3, <2>1, <2>2, AppendProperties DEF Current
<1>4. CASE q # r
  BY <1>1, <1>4 DEF Current
<1>5. QED
  BY <1>3, <1>4

LEMMA FlagStep == IInv /\ FlagInv /\ [Next]_vars => FlagInv'
<1> SUFFICES ASSUME IInv, FlagInv, [Next]_vars, NEW q \in Requests PROVE Flagged(q)'
  BY DEF FlagInv
<1>1. Flagged(q) /\ Ordered(q) /\ TypeInv
  BY DEF FlagInv, IInv, ControlInv
<1>2. faults' = 0 => faults = 0
  BY <1>1, FaultsGrow
<1>3. ASSUME NEW r \in Requests, JudgeStep(r) PROVE Flagged(q)'
  <2>1. /\ UNCHANGED <<viewRow, runPc, exPc, results>>
        /\ \A x \in Requests \ {r} : judgeRow'[x] = judgeRow[x]
        /\ \A s : /\ ToldIn(published'[q], s) <=> ToldIn(published[q], s)
                  /\ CompletedIn(published'[q], s) <=> CompletedIn(published[q], s)
    BY <1>1, <1>3, JudgeFrame DEF entryVars, execVars
  <2>2. judgePc[r] # "none"
    BY <1>3 DEF JudgeStep, StartJudge, AnnounceJudge, CallJudge, AwaitViews, StoreJudge,
                PersistVerdict, AnnounceVerdict, ReloadRequest, FinishState,
                FinishTimings, PublishDone
  <2>3. runPc[q] = "failed" => q # r
    BY <1>1, <2>2 DEF Ordered
  <2>4. QED
    BY <1>1, <1>2, <2>1, <2>3, FlagKept DEF Current
<1>4. ASSUME NEW r \in Requests, NEW s \in Seats, CallView(r, s) PROVE Flagged(q)'
  <2>1. UNCHANGED <<viewRow, runPc, exPc, judgeRow, published>>
    BY <1>4 DEF CallView, rowVars, entryVars
  <2>2. exPc[q] \in {"received", "straggler"} => Current(q)' = Current(q)
    BY <1>1, <1>4, DeliveryKeepsHead DEF TypeInv, HoldsResult
  <2>3. QED
    BY <1>1, <1>2, <2>1, <2>2, FlagKept
<1>5. ASSUME NEW r \in Requests, ViewsDeadline(r) \/ JudgeDeadline(r) PROVE Flagged(q)'
  BY <1>1, <1>2, <1>5, FlagKept DEF ViewsDeadline, JudgeDeadline, rowVars, entryVars,
                                    execVars, Current
<1>6. CASE Crash
  <2>1. exPc'[q] = "none" /\ UNCHANGED <<viewRow, judgeRow, published, faults>>
    BY <1>6 DEF Crash, rowVars
  <2>2. runPc'[q] = "failed" \/ runPc[q] = "idle"
    BY <1>6 DEF Crash
  <2>3. exPc[q] = "received" => judgeRow[q].state \notin Verdicts
    BY <1>1 DEF Ordered, IInv, OutcomeInv, Named, PastViews
  <2>4. runPc[q] = "idle" => exPc[q] = "none"
    BY <1>1 DEF Ordered
  <2>5. QED
    BY <1>1, <2>1, <2>2, <2>3, <2>4 DEF Flagged
<1>7. CASE UNCHANGED vars
  BY <1>1, <1>2, <1>7, FlagKept DEF vars, rowVars, entryVars, execVars, Current
<1>8. QED
  BY <1>2, <1>3, <1>4, <1>5, <1>6, <1>7, EntryFlags, CoordinatorFlags, ConstantsAssumption DEF Next

LEMMA Flags == Spec => [](IInv /\ FlagInv)
  BY Invariant, FlagInit, FlagStep, PTL DEF Spec

\* No view row claims to be included when the stored verdict does not, and
\* without failed statements the rows marked as included are exactly those
\* the verdict names, although two goroutines write them.
THEOREM RowsNameTheSame == Spec => []RowsAgreeWithAnswer
<1>1. IInv /\ FlagInv => RowsAgreeWithAnswer
  <2> SUFFICES ASSUME IInv, FlagInv, NEW r \in Requests, judgeRow[r].state \in Verdicts
               PROVE  LET flagged == {s \in Seats : viewRow[r][s] = "complete"}
                      IN  /\ flagged \subseteq judgeRow[r].included
                          /\ faults = 0 => flagged = judgeRow[r].included
    BY DEF RowsAgreeWithAnswer
  <2>1. Flagged(r) /\ Named(r) /\ Ordered(r)
    BY DEF FlagInv, IInv, OutcomeInv, ControlInv
  <2>2. judgeRow[r].included = {s \in Seats : CompletedIn(published[r], s)}
    BY <2>1 DEF Named
  <2>3. exPc[r] # "received"
    BY <2>1 DEF Named, Ordered, PastViews
  <2>4. QED
    BY <2>1, <2>2, <2>3 DEF Flagged
<1>2. QED
  BY <1>1, Flags, PTL

-----------------------------------------------------------------------------
(* The last rows of a run.                                                 *)

FinishInv == \A r \in Requests : Finishing(r)

LEMMA FinishInit == Init => FinishInv
<1> SUFFICES ASSUME Init, NEW r \in Requests PROVE Finishing(r)
  BY DEF FinishInv
<1>1. reqState[r] = "absent" /\ finished[r] = FALSE /\ judgePc[r] = "none"
  BY DEF Init
<1>2. QED
  BY <1>1 DEF Finishing, PastPersist, PastState

\* A run that has not reached its last writes, and does not reach them now.
LEMMA NotFinishing ==
  ASSUME NEW r \in Requests, Finishing(r), runPc[r] # "failed",
         judgePc[r] \notin PastState, judgePc'[r] \notin PastPersist,
         reqState'[r] \notin {"complete", "complete_partial"} \/ reqState'[r] = reqState[r],
         finished'[r] = finished[r]
  PROVE  Finishing(r)'
<1>1. reqState[r] \notin {"complete", "complete_partial"} /\ ~ finished[r]
  BY DEF Finishing, PastState
<1>2. QED
  BY <1>1 DEF Finishing, PastState, PastPersist

\* Another goroutine, or another run, at work: the verdict stays, recorded
\* views stay, and the state stays or becomes superseded.
LEMMA FinishKept ==
  ASSUME IInv, [Next]_vars, faults' = 0 => faults = 0,
         NEW r \in Requests, Finishing(r),
         reqState'[r] \in {reqState[r], "superseded"},
         runPc[r] = "failed" => runPc'[r] = "failed",
         UNCHANGED <<finished[r], judgePc[r], judgeOut[r]>>,
         judgePc[r] \in PastPersist => included'[r] = included[r]
  PROVE  Finishing(r)'
<1>1. /\ \A s \in Seats : viewRow[r][s] \in Settled => viewRow'[r][s] = viewRow[r][s]
      /\ judgeRow[r].state \in Verdicts => judgeRow'[r] = judgeRow[r]
  BY FinalStep DEF Settled
<1>2. reqState'[r] \in {"complete", "complete_partial"} => reqState'[r] = reqState[r]
  OBVIOUS
<1>3. /\ reqState'[r] \in {"complete", "complete_partial"} =>
           runPc'[r] = "failed" \/ judgePc'[r] \in PastState
      /\ finished'[r] => runPc'[r] = "failed" \/ judgePc'[r] \in {"done", "exit"}
  BY <1>2 DEF Finishing
<1>4. ASSUME faults' = 0, judgePc'[r] \in PastPersist
      PROVE  /\ judgeOut'[r] \in Verdicts
             /\ judgeRow'[r] = [state |-> judgeOut'[r], included |-> included'[r]]
  BY <1>1, <1>4 DEF Finishing
<1>5. ASSUME faults' = 0, judgePc'[r] \in PastState
      PROVE  reqState'[r] \in {"complete", "complete_partial", "superseded"}
  BY <1>5 DEF Finishing
<1>6. ASSUME faults' = 0, finished'[r]
      PROVE  /\ \A s \in Seats : viewRow'[r][s] \in Settled
             /\ judgeRow'[r].state \in Verdicts
             /\ reqState'[r] \in {"complete", "complete_partial", "superseded"}
  BY <1>1, <1>6 DEF Finishing
<1>7. ASSUME faults' = 0, reqState'[r] \in {"complete", "complete_partial"}
      PROVE  /\ judgeRow'[r].state \in Verdicts
             /\ reqState'[r] = "complete" <=>
                  judgeRow'[r] = [state |-> "complete", included |-> Seats]
  BY <1>1, <1>2, <1>7 DEF Finishing
<1>8. QED
  BY <1>3, <1>4, <1>5, <1>6, <1>7 DEF Finishing

LEMMA EntryFinishes ==
  ASSUME IInv, FinishInv, NEW r \in Requests, EntryStep(r), Next, NEW q \in Requests,
         faults' = 0 => faults = 0
  PROVE  Finishing(q)'
<1> USE DEF IInv
<1>1. Finishing(q)
  BY DEF FinishInv
<1>2. \/ reqState'[q] \in {reqState[q], "superseded"}
      \/ q = r /\ reqState'[q] = "created"
  BY DEF EntryStep, InsertRequest, InsertRows, SetSuperseded, CancelSuperseded,
         AnnounceSuperseded, RegisterRun, rowVars, TypeInv, TypeOK, RowTypeOK
<1>3. CASE q # r
  BY <1>1, <1>2, <1>3, EntryFrame, FinishKept
<1>4. CASE q = r
  BY <1>1, <1>2, <1>4, EntryFrame, NotFinishing DEF PastState, PastPersist
<1>5. QED
  BY <1>3, <1>4

LEMMA CoordinatorFinishes ==
  ASSUME IInv, FinishInv, NEW r \in Requests, CoordinatorStep(r), Next, NEW q \in Requests,
         faults' = 0 => faults = 0
  PROVE  Finishing(q)'
<1> USE DEF IInv, TypeInv, TypeOK
<1>1. Finishing(q) /\ Ordered(q) /\ Ordered(r)
  BY DEF FinishInv, ControlInv
<1>2. /\ UNCHANGED <<runPc, finished, judgeOut>>
      /\ \A x \in Requests \ {r} : /\ reqState'[x] = reqState[x]
                                   /\ judgePc'[x] = judgePc[x]
                                   /\ included'[x] = included[x]
  <2> USE DEF CoordinatorStep, StartViews, ReceiveView, IncludeView, TriggerJudge, DrainView,
              AnnounceStraggler, ViewsDrained
  <2>1. UNCHANGED <<runPc, finished, judgeOut>>
    BY DEF rowVars, entryVars, judgeVars
  <2>2. \A x \in Requests \ {r} : reqState'[x] = reqState[x]
    BY DEF SetUnlessSuperseded, rowVars, RowTypeOK
  <2>3. \A x \in Requests \ {r} : judgePc'[x] = judgePc[x]
    BY DEF judgeVars, JudgeTypeOK
  <2>4. \A x \in Requests \ {r} : included'[x] = included[x]
    BY DEF ExecTypeOK
  <2>5. QED
    BY <2>1, <2>2, <2>3, <2>4
<1>3. CASE q # r
  BY <1>1, <1>2, <1>3, FinishKept
<1>4. CASE q = r /\ exPc[r] \in {"start", "select", "received"}
  <2>1. judgePc[r] = "none" /\ runPc[r] = "returned"
    BY <1>1, <1>4 DEF Ordered
  <2>2. judgePc'[r] \in {"none", "start"}
    BY <1>4, <2>1 DEF CoordinatorStep, StartViews, ReceiveView, IncludeView, TriggerJudge,
         DrainView, AnnounceStraggler, ViewsDrained, judgeVars, JudgeTypeOK
  <2>3. reqState'[r] \in {reqState[r], "running_views", "superseded"}
    BY <1>4 DEF CoordinatorStep, StartViews, ReceiveView, IncludeView, TriggerJudge,
         DrainView, AnnounceStraggler, ViewsDrained, SetUnlessSuperseded, rowVars, RowTypeOK
  <2>4. QED
    BY <1>1, <1>2, <1>4, <2>1, <2>2, <2>3, NotFinishing DEF PastState, PastPersist
<1>5. CASE q = r /\ exPc[r] \notin {"start", "select", "received"}
  <2>1. UNCHANGED <<reqState, judgePc, included>>
    BY <1>5 DEF CoordinatorStep, StartViews, ReceiveView, IncludeView, TriggerJudge, DrainView,
         AnnounceStraggler, ViewsDrained, rowVars, judgeVars
  <2>2. QED
    BY <1>1, <1>2, <2>1, FinishKept
<1>6. QED
  BY <1>3, <1>4, <1>5

\* Once the judge goroutine is past <-viewsDone, every view was told.
LEMMA AllTold ==
  ASSUME IInv, NEW r \in Requests, judgePc[r] \in PastViews
  PROVE  \A s \in Seats : ToldIn(published[r], s)
<1>1. Ordered(r) /\ Accounted(r)
  BY DEF IInv, ControlInv, AccountInv
<1>2. exPc[r] = "drained" /\ calling[r] = {} /\ results[r] = <<>>
  BY <1>1 DEF Ordered
<1>3. QED
  BY <1>1, <1>2, EmptyChannel DEF Accounted

\* The judge goroutine's own steps.
LEMMA JudgeFinishes ==
  ASSUME IInv, FlagInv, FinishInv, NEW r \in Requests, JudgeStep(r), Next,
         faults' = 0 => faults = 0
  PROVE  Finishing(r)'
<1> USE DEF IInv, TypeInv, TypeOK
<1>1. Finishing(r) /\ Ordered(r) /\ Flagged(r)
  BY DEF FinishInv, ControlInv, FlagInv
<1>2. runPc[r] # "failed"
  BY <1>1 DEF Ordered, JudgeStep, StartJudge, AnnounceJudge, CallJudge, AwaitViews, StoreJudge,
         PersistVerdict, AnnounceVerdict, ReloadRequest, FinishState, FinishTimings, PublishDone
<1>3. UNCHANGED <<runPc, viewRow, included>>
  BY JudgeFrame DEF entryVars, execVars
<1>4. CASE StartJudge(r) \/ AnnounceJudge(r) \/ CallJudge(r) \/ AwaitViews(r) \/ StoreJudge(r)
  <2>1. judgePc[r] \notin PastState /\ judgePc'[r] \notin PastPersist
    BY <1>4 DEF StartJudge, AnnounceJudge, CallJudge, AwaitViews, StoreJudge,
                PastState, PastPersist, JudgeTypeOK
  <2>2. /\ finished' = finished
        /\ reqState'[r] \in {reqState[r], "running_judge"}
    BY <1>4 DEF StartJudge, AnnounceJudge, CallJudge, AwaitViews, StoreJudge,
                rowVars, RowTypeOK
  <2>3. QED
    BY <1>1, <1>2, <2>1, <2>2, NotFinishing
<1>5. CASE PersistVerdict(r)
  <2>1. PICK ok \in BOOLEAN :
          /\ Attempt(ok)
          /\ judgeRow' = [judgeRow EXCEPT ![r] =
               IF ok THEN [state |-> judgeOut[r], included |-> included[r]] ELSE @]
    BY <1>5 DEF PersistVerdict
  <2>2. faults' = 0 => ok
    BY <2>1, ConstantsAssumption DEF Attempt, HistoryTypeOK
  <2>3. judgeOut[r] \in Verdicts
    BY <1>5 DEF PersistVerdict, HoldsVerdict
  <2>4. faults' = 0 => judgeRow'[r] = [state |-> judgeOut[r], included |-> included[r]]
    BY <2>1, <2>2 DEF RowTypeOK
  <2>5. /\ judgePc[r] = "persist" /\ judgePc'[r] = "verdict"
        /\ UNCHANGED <<reqState, finished, judgeOut>>
    BY <1>5 DEF PersistVerdict, JudgeTypeOK
  <2>6. reqState[r] \notin {"complete", "complete_partial"} /\ ~ finished[r]
    BY <1>1, <1>2, <2>5 DEF Finishing, PastState
  <2>7. QED
    BY <1>3, <2>3, <2>4, <2>5, <2>6 DEF Finishing, PastState
<1>6. CASE AnnounceVerdict(r) \/ ReloadRequest(r) \/ PublishDone(r)
  <2>1. UNCHANGED <<reqState, finished, judgeRow, judgeOut>>
    BY <1>6 DEF AnnounceVerdict, ReloadRequest, PublishDone, rowVars
  <2>2. /\ judgePc[r] \in PastPersist /\ judgePc'[r] \in PastPersist
        /\ judgePc'[r] \in PastState <=> judgePc[r] \in PastState
        /\ judgePc[r] \in {"done", "exit"} => judgePc'[r] \in {"done", "exit"}
    BY <1>6 DEF AnnounceVerdict, ReloadRequest, PublishDone, PastState, PastPersist, JudgeTypeOK
  <2>3. QED
    BY <1>1, <1>3, <2>1, <2>2 DEF Finishing
<1>7. CASE FinishState(r)
  <2>1. PICK ok \in BOOLEAN :
          /\ Attempt(ok)
          /\ IF ok THEN SetUnlessSuperseded(r, FinalState(r)) ELSE UNCHANGED reqState
          /\ judgePc' = [judgePc EXCEPT ![r] = IF ok THEN "timings" ELSE "done"]
    BY <1>7 DEF FinishState
  <2>2. faults' = 0 => ok
    BY <2>1, ConstantsAssumption DEF Attempt, HistoryTypeOK
  <2>3. /\ judgePc[r] = "state" /\ judgePc'[r] \in {"timings", "done"}
        /\ UNCHANGED <<finished, judgeRow, judgeOut>>
    BY <1>7, <2>1 DEF FinishState, JudgeTypeOK
  <2>4. reqState[r] \notin {"complete", "complete_partial"} /\ ~ finished[r]
    BY <1>1, <1>2, <2>3 DEF Finishing, PastState
  <2>5. ASSUME faults' = 0
        PROVE  /\ judgeOut[r] \in Verdicts
               /\ judgeRow[r] = [state |-> judgeOut[r], included |-> included[r]]
    BY <1>1, <2>3, <2>5 DEF Finishing, PastPersist
  <2>6. ASSUME faults' = 0
        PROVE  reqState'[r] = IF reqState[r] = "superseded" THEN "superseded" ELSE FinalState(r)
    BY <2>1, <2>2, <2>6 DEF SetUnlessSuperseded, RowTypeOK
  <2>7. /\ FinalState(r) \in {"complete", "complete_partial"}
        /\ FinalState(r) = "complete" <=> judgeOut[r] = "complete" /\ included[r] = Seats
    BY DEF FinalState
  <2>8. ASSUME faults' = 0, reqState'[r] \in {"complete", "complete_partial"}
        PROVE  /\ judgeRow[r].state \in Verdicts
               /\ reqState'[r] = "complete" <=>
                    judgeRow[r] = [state |-> "complete", included |-> Seats]
    BY <2>5, <2>6, <2>7, <2>8
  <2>9. ASSUME faults' = 0
        PROVE  reqState'[r] \in {"complete", "complete_partial", "superseded"}
    BY <2>6, <2>7, <2>9
  <2>10. QED
    BY <1>3, <2>3, <2>4, <2>5, <2>8, <2>9 DEF Finishing, PastState
<1>8. CASE FinishTimings(r)
  <2>1. /\ judgePc[r] = "timings" /\ judgePc'[r] = "done"
        /\ UNCHANGED <<reqState, judgeRow, judgeOut>>
    BY <1>8 DEF FinishTimings, JudgeTypeOK
  <2>2. \A s \in Seats : ToldIn(published[r], s)
    BY <2>1, AllTold DEF PastViews
  <2>3. ASSUME faults' = 0
        PROVE  /\ \A s \in Seats : viewRow[r][s] \in Settled
               /\ judgeRow[r].state \in Verdicts
               /\ reqState[r] \in {"complete", "complete_partial", "superseded"}
    BY <1>1, <2>1, <2>2, <2>3 DEF Flagged, Finishing, PastPersist, PastState
  <2>4. QED
    BY <1>1, <1>3, <2>1, <2>3 DEF Finishing, PastPersist, PastState
<1>9. QED
  BY <1>4, <1>5, <1>6, <1>7, <1>8 DEF JudgeStep

LEMMA FinishStep == IInv /\ FlagInv /\ FinishInv /\ [Next]_vars => FinishInv'
<1> SUFFICES ASSUME IInv, FlagInv, FinishInv, [Next]_vars, NEW q \in Requests
             PROVE  Finishing(q)'
  BY DEF FinishInv
<1>1. Finishing(q) /\ Ordered(q) /\ TypeInv
  BY DEF FinishInv, IInv, ControlInv
<1>2. faults' = 0 => faults = 0
  BY <1>1, FaultsGrow
<1>3. ASSUME NEW r \in Requests, JudgeStep(r), Next PROVE Finishing(q)'
  <2>1. CASE q = r
    BY <1>2, <1>3, <2>1, JudgeFinishes
  <2>2. CASE q # r
    BY <1>1, <1>2, <1>3, <2>2, JudgeFrame, FinishKept DEF entryVars, execVars
  <2>3. QED
    BY <2>1, <2>2
<1>4. ASSUME NEW r \in Requests, NEW s \in Seats, Next,
             CallView(r, s) \/ ViewsDeadline(r) \/ JudgeDeadline(r)
      PROVE  Finishing(q)'
  <2>1. UNCHANGED <<reqState, finished, runPc, judgePc, judgeOut, included>>
    BY <1>4 DEF CallView, ViewsDeadline, JudgeDeadline, rowVars, entryVars, execVars, judgeVars
  <2>2. QED
    BY <1>1, <1>2, <2>1, FinishKept
<1>5. CASE Crash
  <2>1. /\ judgePc'[q] = "none" /\ UNCHANGED <<rowVars, faults>>
        /\ runPc'[q] = "failed" \/ runPc[q] = "idle"
    BY <1>5 DEF Crash
  <2>2. runPc[q] = "idle" => judgePc[q] = "none"
    BY <1>1 DEF Ordered
  <2>3. runPc[q] = "idle" =>
          reqState[q] \notin {"complete", "complete_partial"} /\ ~ finished[q]
    BY <1>1, <2>2 DEF Finishing, PastState
  <2>4. QED
    BY <1>1, <2>1, <2>3 DEF Finishing, PastPersist, PastState, rowVars
<1>6. CASE UNCHANGED vars
  BY <1>1, <1>6 DEF vars, rowVars, entryVars, execVars, judgeVars, Finishing
<1>7. QED
  BY <1>2, <1>3, <1>4, <1>5, <1>6, EntryFinishes, CoordinatorFinishes, ConstantsAssumption DEF Next

LEMMA Finishes == Spec => [](IInv /\ FlagInv /\ FinishInv)
  BY Flags, FinishInit, FinishStep, PTL DEF Spec

\* finished_at is the last word: without failed statements no view is then
\* pending, the verdict is stored and the state is final, also when another
\* run supersedes this one at any time or the process dies afterwards.
THEOREM FinishedIsSettled == Spec => []FinishedMeansSettled
<1>1. FinishInv => FinishedMeansSettled
  BY DEF FinishInv, Finishing, FinishedMeansSettled, Settled
<1>2. QED
  BY <1>1, Finishes, PTL

\* Without failed statements a request is stored as complete exactly when its
\* judge answered over all views.
THEOREM CompleteIsWhole == Spec => []CompleteMeansWhole
<1>1. FinishInv => CompleteMeansWhole
  BY DEF FinishInv, Finishing, CompleteMeansWhole
<1>2. QED
  BY <1>1, Finishes, PTL

-----------------------------------------------------------------------------
(* Danger.                                                                 *)

DangerInv == \A r \in Requests : Warned(r)

LEMMA DangerInit == Init => DangerInv
<1> SUFFICES ASSUME Init, NEW r \in Requests PROVE Warned(r)
  BY DEF DangerInv
<1>1. exPc[r] = "none" /\ judgePc[r] = "none"
  BY DEF Init
<1>2. QED
  BY <1>1, EmptyHistory DEF Warned

LEMMA WarnKept ==
  ASSUME NEW r \in Requests, Warned(r), faults' = 0 => faults = 0,
         dangerFlag[r] => dangerFlag'[r],
         DangerFirstIn(published[r]) => DangerFirstIn(published'[r]),
         ToldIn(published'[r], Judge) => ToldIn(published[r], Judge),
         WarnedIn(published'[r]) => WarnedIn(published[r]),
         exPc'[r] \in {"received", "straggler"} =>
           exPc'[r] = exPc[r] /\ Current(r)' = Current(r),
         judgePc'[r] = "store" => judgePc[r] = "store" /\ judgeOut'[r] = judgeOut[r]
  PROVE  Warned(r)'
<1>1. DangerFirstIn(published'[r]) /\ ~ ToldIn(published'[r], Judge)
  BY DEF Warned
<1>2. ASSUME faults' = 0
      PROVE  /\ WarnedIn(published'[r]) => dangerFlag'[r]
             /\ exPc'[r] \in {"received", "straggler"} /\ Current(r)'.kind = "danger"
                  => dangerFlag'[r]
             /\ judgePc'[r] = "store" /\ judgeOut'[r] = "danger" => dangerFlag'[r]
  BY <1>2 DEF Warned
<1>3. QED
  BY <1>1, <1>2 DEF Warned

\* recordView's statements flag the danger first ...
LEMMA PersistViewWarns ==
  ASSUME IInv, DangerInv, NEW r \in Requests, NEW late \in BOOLEAN, PersistView(r, late),
         results[r] # <<>>, UNCHANGED <<judgePc, judgeOut, results, published>>,
         \A x \in Requests \ {r} : exPc'[x] = exPc[x],
         faults' = 0 => faults = 0, NEW q \in Requests
  PROVE  Warned(q)'
<1> USE DEF IInv, TypeInv, TypeOK
<1>1. Warned(q)
  BY DEF DangerInv
<1>2. PICK rowOk \in BOOLEAN, flagOk \in BOOLEAN :
        /\ AttemptBoth(rowOk, flagOk)
        /\ dangerFlag' = [dangerFlag EXCEPT ![r] =
             @ \/ (Current(r).kind = "danger" /\ flagOk)]
  BY DEF PersistView, Current
<1>3. faults' = 0 => flagOk
  BY <1>2, AttemptBothType
<1>4. Current(q)' = Current(q)
  BY DEF Current
<1>5. CASE q = r
  <2>1. dangerFlag'[r] = (dangerFlag[r] \/ (Current(r).kind = "danger" /\ flagOk))
    BY <1>2 DEF RowTypeOK
  <2>2. QED
    BY <1>1, <1>3, <1>4, <1>5, <2>1 DEF Warned
<1>6. CASE q # r
  <2>1. dangerFlag'[q] = dangerFlag[q]
    BY <1>2, <1>6 DEF RowTypeOK
  <2>2. QED
    BY <1>1, <1>4, <1>6, <2>1, WarnKept
<1>7. QED
  BY <1>5, <1>6

\* ... and its events tell it first.
LEMMA AnnounceViewWarns ==
  ASSUME IInv, DangerInv, NEW r \in Requests, NEW late \in BOOLEAN, AnnounceView(r, late),
         exPc[r] \in {"received", "straggler"}, exPc'[r] \notin {"received", "straggler"},
         \A x \in Requests \ {r} : exPc'[x] = exPc[x] /\ results'[x] = results[x],
         \A x \in Requests : judgePc'[x] \in {judgePc[x], "start"},
         UNCHANGED <<dangerFlag, judgeOut>>,
         faults' = 0 => faults = 0, NEW q \in Requests
  PROVE  Warned(q)'
<1>1. Warned(q) /\ Accounted(r) /\ Ordered(r)
  BY DEF DangerInv, IInv, AccountInv, ControlInv
<1>2. results[r] # <<>>
  BY DEF IInv, TypeInv, HoldsResult
<1>3. /\ Current(r).seat \in Seats
      /\ \A x \in Requests \ {r} : published'[x] = published[x]
      /\ \A s : ToldIn(published'[r], s) <=> ToldIn(published[r], s) \/ s = Current(r).seat
      /\ WarnedIn(published'[r]) <=> WarnedIn(published[r]) \/ Current(r).kind = "danger"
      /\ DangerFirstIn(published[r]) /\ ~ ToldIn(published[r], Current(r).seat)
           => DangerFirstIn(published'[r])
  BY <1>2, AnnounceViewSays DEF IInv
<1>4. CASE q = r
  <2>1. ~ ToldIn(published[r], Current(r).seat)
    <3>1. HasSeat(results[r], Current(r).seat) /\ runPc[r] = "returned"
      BY <1>1, <1>2, ReceiveSeat
         DEF Accounted, Ordered, Current, IInv, TypeInv, TypeOK, ExecTypeOK
    <3>2. QED
      BY <1>1, <1>3, <3>1 DEF Accounted
  <2>2. Judge # Current(r).seat
    BY <1>3, ConstantsAssumption
  <2>3. judgePc'[r] = "store" => judgePc[r] = "store"
    OBVIOUS
  <2>4. DangerFirstIn(published'[r]) /\ ~ ToldIn(published'[r], Judge)
    BY <1>1, <1>3, <1>4, <2>1, <2>2 DEF Warned
  <2>5. ASSUME faults' = 0
        PROVE  /\ WarnedIn(published'[r]) => dangerFlag'[r]
               /\ judgePc'[r] = "store" /\ judgeOut'[r] = "danger" => dangerFlag'[r]
    BY <1>1, <1>3, <1>4, <2>3, <2>5 DEF Warned
  <2>6. QED
    BY <1>4, <2>4, <2>5 DEF Warned
<1>5. CASE q # r
  BY <1>1, <1>3, <1>5, WarnKept DEF Current
<1>6. QED
  BY <1>4, <1>5

LEMMA CoordinatorWarns ==
  ASSUME IInv, DangerInv, NEW r \in Requests, CoordinatorStep(r), NEW q \in Requests,
         faults' = 0 => faults = 0
  PROVE  Warned(q)'
<1> USE DEF IInv, TypeInv, TypeOK, ExecTypeOK, JudgeTypeOK, entryVars, rowVars, judgeVars
<1>1. Warned(q)
  BY DEF DangerInv
<1>2. CASE StartViews(r) \/ TriggerJudge(r) \/ ViewsDrained(r)
  <2>1. /\ UNCHANGED <<dangerFlag, results, published, judgeOut>>
        /\ \A x \in Requests : judgePc'[x] \in {judgePc[x], "start"}
        /\ \A x \in Requests \ {r} : exPc'[x] = exPc[x]
        /\ exPc'[r] \notin {"received", "straggler"}
    BY <1>2 DEF StartViews, TriggerJudge, ViewsDrained
  <2>2. judgePc'[q] = "store" => judgePc[q] = "store"
    BY <2>1
  <2>3. QED
    BY <1>1, <2>1, <2>2, WarnKept DEF Current
<1>3. CASE ReceiveView(r)
  BY <1>3, PersistViewWarns DEF ReceiveView
<1>4. CASE DrainView(r)
  BY <1>4, PersistViewWarns DEF DrainView
<1>5. CASE IncludeView(r)
  <2>1. /\ AnnounceView(r, FALSE) /\ exPc[r] = "received"
        /\ exPc'[r] \notin {"received", "straggler"}
        /\ \A x \in Requests \ {r} : exPc'[x] = exPc[x] /\ results'[x] = results[x]
        /\ \A x \in Requests : judgePc'[x] \in {judgePc[x], "start"}
        /\ UNCHANGED <<dangerFlag, judgeOut>>
    BY <1>5 DEF IncludeView
  <2>2. QED
    BY <2>1, AnnounceViewWarns
<1>6. CASE AnnounceStraggler(r)
  <2>1. /\ AnnounceView(r, TRUE) /\ exPc[r] = "straggler"
        /\ exPc'[r] \notin {"received", "straggler"}
        /\ \A x \in Requests \ {r} : exPc'[x] = exPc[x] /\ results'[x] = results[x]
        /\ UNCHANGED <<dangerFlag, judgeVars>>
    BY <1>6 DEF AnnounceStraggler
  <2>2. QED
    BY <2>1, AnnounceViewWarns
<1>7. QED
  BY <1>2, <1>3, <1>4, <1>5, <1>6 DEF CoordinatorStep

LEMMA JudgeWarns ==
  ASSUME IInv, DangerInv, NEW r \in Requests, JudgeStep(r), faults' = 0 => faults = 0
  PROVE  Warned(r)'
<1> USE DEF IInv, TypeInv, TypeOK, JudgeTypeOK, RowTypeOK
<1>1. Warned(r)
  BY DEF DangerInv
<1>2. /\ UNCHANGED <<exPc, results>>
      /\ ToldIn(published'[r], Judge) <=> ToldIn(published[r], Judge)
  BY JudgeFrame DEF execVars
<1>3. ASSUME NEW e \in Events, Publish(r, e), e.type \notin ViewEvents, e.type # "danger",
             UNCHANGED dangerFlag, judgePc'[r] # "store"
      PROVE  Warned(r)'
  <2>1. /\ WarnedIn(published'[r]) <=> WarnedIn(published[r])
        /\ DangerFirstIn(published[r]) => DangerFirstIn(published'[r])
    BY <1>3, PublishSays
  <2>2. QED
    BY <1>1, <1>2, <1>3, <2>1, WarnKept DEF Current
<1>4. ASSUME UNCHANGED <<published, dangerFlag>>, judgePc'[r] # "store"
      PROVE  Warned(r)'
  BY <1>1, <1>2, <1>4, WarnKept DEF Current
<1>5. CASE AnnounceJudge(r)
  <2> DEFINE e == Event("judge_started", Judge)
  <2>1. e \in Events /\ e.type \notin ViewEvents /\ e.type # "danger"
    BY EventType DEF EventTypes, Event, ViewEvents
  <2>2. Publish(r, e) /\ judgePc'[r] = "call" /\ UNCHANGED dangerFlag
    BY <1>5 DEF AnnounceJudge, rowVars
  <2> HIDE DEF e
  <2>3. QED
    BY <1>3, <2>1, <2>2
<1>6. CASE AnnounceVerdict(r)
  <2> DEFINE e == Event(IF judgeOut[r] = "complete" THEN "judge_complete" ELSE "judge_failed", Judge)
  <2>1. e \in Events /\ e.type \notin ViewEvents /\ e.type # "danger"
    BY EventType DEF EventTypes, Event, ViewEvents
  <2>2. Publish(r, e) /\ judgePc'[r] = "reload" /\ UNCHANGED dangerFlag
    BY <1>6 DEF AnnounceVerdict, rowVars
  <2> HIDE DEF e
  <2>3. QED
    BY <1>3, <2>1, <2>2
<1>7. CASE PublishDone(r)
  <2> DEFINE e == Event("done", None)
  <2>1. e \in Events /\ e.type \notin ViewEvents /\ e.type # "danger"
    BY EventType DEF EventTypes, Event, ViewEvents
  <2>2. Publish(r, e) /\ judgePc'[r] = "exit" /\ UNCHANGED dangerFlag
    BY <1>7 DEF PublishDone, rowVars
  <2> HIDE DEF e
  <2>3. QED
    BY <1>3, <2>1, <2>2
<1>8. CASE \/ StartJudge(r) \/ CallJudge(r) \/ PersistVerdict(r)
           \/ ReloadRequest(r) \/ FinishState(r) \/ FinishTimings(r)
  BY <1>4, <1>8 DEF StartJudge, CallJudge, PersistVerdict, ReloadRequest, FinishState,
                    FinishTimings, rowVars
<1>9. CASE AwaitViews(r)
  <2>1. PICK ok \in BOOLEAN :
          /\ Attempt(ok)
          /\ dangerFlag' = [dangerFlag EXCEPT ![r] = @ \/ (judgeOut[r] = "danger" /\ ok)]
    BY <1>9 DEF AwaitViews
  <2>2. faults' = 0 => ok
    BY <2>1, ConstantsAssumption DEF Attempt, HistoryTypeOK
  <2>3. dangerFlag'[r] = (dangerFlag[r] \/ (judgeOut[r] = "danger" /\ ok))
    BY <2>1
  <2>4. UNCHANGED <<judgeOut, published>>
    BY <1>9 DEF AwaitViews
  <2>5. QED
    BY <1>1, <1>2, <2>2, <2>3, <2>4 DEF Warned, Current
<1>10. CASE StoreJudge(r)
  <2> DEFINE e == Event("danger", Judge)
  <2>1. e \in Events /\ e.type \notin ViewEvents /\ e.type = "danger" /\ e.who = Judge
    BY EventType DEF EventTypes, Event, ViewEvents
  <2>2. /\ IF judgeOut[r] = "danger" THEN Publish(r, e) ELSE UNCHANGED published
        /\ judgePc[r] = "store" /\ judgePc'[r] = "persist" /\ UNCHANGED dangerFlag
    BY <1>10 DEF StoreJudge, rowVars
  <2> HIDE DEF e
  <2>3. /\ DangerFirstIn(published'[r])
        /\ WarnedIn(published'[r]) => WarnedIn(published[r]) \/ judgeOut[r] = "danger"
    BY <1>1, <2>1, <2>2, PublishSays DEF Warned
  <2>4. QED
    BY <1>1, <1>2, <2>2, <2>3 DEF Warned, Current
<1>11. QED
  BY <1>5, <1>6, <1>7, <1>8, <1>9, <1>10 DEF JudgeStep

LEMMA DangerStep == IInv /\ DangerInv /\ [Next]_vars => DangerInv'
<1> SUFFICES ASSUME IInv, DangerInv, [Next]_vars, NEW q \in Requests PROVE Warned(q)'
  BY DEF DangerInv
<1>1. Warned(q) /\ TypeInv /\ ControlInv
  BY DEF DangerInv, IInv
<1>2. faults' = 0 => faults = 0
  BY <1>1, FaultsGrow
<1>3. ASSUME NEW r \in Requests, EntryStep(r) PROVE Warned(q)'
  <2>1. /\ UNCHANGED <<dangerFlag, results, judgePc, judgeOut>>
        /\ exPc'[q] \in {"received", "straggler"} => exPc'[q] = exPc[q]
    BY <1>1, <1>3, EntryFrame
  <2>2. QED
    BY <1>1, <1>2, <1>3, <2>1, EntryTells, WarnKept DEF Current
<1>4. ASSUME NEW r \in Requests, JudgeStep(r) PROVE Warned(q)'
  <2>1. CASE q = r
    BY <1>2, <1>4, <2>1, JudgeWarns
  <2>2. CASE q # r
    BY <1>1, <1>2, <1>4, <2>2, JudgeFrame, WarnKept DEF execVars, Current
  <2>3. QED
    BY <2>1, <2>2
<1>5. ASSUME NEW r \in Requests, NEW s \in Seats, CallView(r, s) PROVE Warned(q)'
  <2>1. UNCHANGED <<dangerFlag, exPc, judgePc, judgeOut, published>>
    BY <1>5 DEF CallView, rowVars, judgeVars
  <2>2. exPc[q] \in {"received", "straggler"} => Current(q)' = Current(q)
    BY <1>1, <1>5, DeliveryKeepsHead DEF TypeInv, HoldsResult
  <2>3. QED
    BY <1>1, <1>2, <2>1, <2>2, WarnKept
<1>6. ASSUME NEW r \in Requests, ViewsDeadline(r) \/ JudgeDeadline(r) PROVE Warned(q)'
  BY <1>1, <1>2, <1>6, WarnKept DEF ViewsDeadline, JudgeDeadline, rowVars, execVars, judgeVars,
                                    Current
<1>7. CASE Crash
  <2>1. /\ exPc'[q] = "none" /\ judgePc'[q] = "none"
        /\ UNCHANGED <<dangerFlag, published, faults>>
    BY <1>7 DEF Crash, rowVars
  <2>2. QED
    BY <1>1, <2>1 DEF Warned
<1>8. CASE UNCHANGED vars
  BY <1>1, <1>2, <1>8, WarnKept DEF vars, rowVars, execVars, judgeVars, Current
<1>9. QED
  BY <1>2, <1>3, <1>4, <1>5, <1>6, <1>7, <1>8, CoordinatorWarns, ConstantsAssumption DEF Next

\* An urgent danger reaches the client before the view that reports it,
\* whether a seat in time, a straggler or the judge reports it, and without
\* failed statements the row carries the flag before any client is told.
THEOREM DangerComesFirst == Spec => []DangerIsPrompt
<1>1. Spec => [](IInv /\ DangerInv)
  BY Invariant, DangerInit, DangerStep, PTL DEF Spec
<1>2. DangerInv => DangerIsPrompt
  BY DEF DangerInv, Warned, WarnedIn, DangerFirstIn, DangerIsPrompt
<1>3. QED
  BY <1>1, <1>2, PTL

-----------------------------------------------------------------------------
(* The client's picture of a request, and the promise of RequestLifecycle. *)

PhaseInv == \A r \in Requests : Phased(r)

\* What a step does to the picture of one request.
Picture(r) == <<PhaseOf(r), Heard(r), Missed(r), VerdictOf(r)>>

LEMMA AnnouncedSaid == \A r, type, who : Announced(r, type, who) <=> SaidIn(published[r], type, who)
  BY DEF Announced, SaidIn

LEMMA SaidDone ==
  ASSUME NEW p, SaidIn(p, "done", None)
  PROVE  DoneIn(p)
  BY DEF SaidIn, DoneIn, Event

\* A view told is a seat heard or missed.
LEMMA ToldSaid ==
  ASSUME NEW p \in Seq(Events), NEW s
  PROVE  ToldIn(p, s) <=> \E type \in ViewEvents : SaidIn(p, type, s)
<1>1. ASSUME NEW i \in 1..Len(p)
      PROVE  IsViewEvent(p[i], s) <=> \E type \in ViewEvents : p[i] = Event(type, s)
  <2>1. p[i] \in Events
    BY <1>1, ElementOfSeq
  <2>2. p[i] = Event(p[i].type, p[i].who)
    BY <2>1 DEF Event, Events
  <2>3. ASSUME NEW type \in ViewEvents, p[i] = Event(type, s)
        PROVE  IsViewEvent(p[i], s)
    BY <2>3 DEF IsViewEvent, Event
  <2>4. QED
    BY <2>2, <2>3 DEF IsViewEvent
<1>2. QED
  BY <1>1 DEF ToldIn, SaidIn

LEMMA PictureKept ==
  ASSUME NEW r \in Requests,
         RowExists(r)' <=> RowExists(r),
         \A type \in ViewEvents \cup {"judge_complete", "judge_failed", "done"} :
           \A who : SaidIn(published'[r], type, who) <=> SaidIn(published[r], type, who)
  PROVE  Picture(r)' = Picture(r)
<1>1. \A type \in {"view_complete", "view_failed", "view_late", "judge_complete",
                   "judge_failed", "done"} :
        \A who : Announced(r, type, who)' <=> Announced(r, type, who)
  BY AnnouncedSaid DEF ViewEvents, Announced, SaidIn
<1>2. Heard(r)' = Heard(r) /\ Missed(r)' = Missed(r)
  BY <1>1 DEF Heard, Missed
<1>3. (Answered(r)' <=> Answered(r)) /\ (Unanswered(r)' <=> Unanswered(r))
  BY <1>1 DEF Answered, Unanswered
<1>4. Announced(r, "done", None)' <=> Announced(r, "done", None)
  BY <1>1
<1>5. PhaseOf(r)' = PhaseOf(r)
  BY <1>3, <1>4 DEF PhaseOf
<1>6. VerdictOf(r)' = VerdictOf(r)
  BY <1>2, <1>3 DEF VerdictOf
<1>7. QED
  BY <1>2, <1>5, <1>6 DEF Picture

LEMMA PhaseInit == Init => PhaseInv
<1> SUFFICES ASSUME Init, NEW r \in Requests PROVE Phased(r)
  BY DEF PhaseInv
<1>1. runPc[r] = "idle" /\ judgePc[r] = "none" /\ target[r] = None /\ None \notin Requests
  BY ConstantsAssumption DEF Init
<1>2. ~ Answered(r) /\ ~ Unanswered(r) /\ ~ DoneIn(published[r])
  BY EmptyHistory, AnnouncedSaid DEF Answered, Unanswered
<1>3. QED
  BY <1>1, <1>2 DEF Phased, PastVerdict, PastPersist

\* Which steps write which request's state: a row once inserted stays, and a
\* row appears only by InsertRequest of its own run.
LEMMA RowStep ==
  ASSUME TypeInv, ControlInv, PhaseInv, [Next]_vars, NEW q \in Requests,
         ~ (InsertRequest(q) /\ ~ RowExists(q))
  PROVE  RowExists(q)' <=> RowExists(q)
<1> USE DEF TypeInv, TypeOK, RowTypeOK, rowVars, RowExists
<1>1. ASSUME NEW r \in Requests, EntryStep(r) PROVE RowExists(q)' <=> RowExists(q)
  <2>1. target[r] \in Requests => RowExists(target[r])
    BY DEF PhaseInv, Phased
  <2>2. CASE InsertRequest(r)
    BY <2>2 DEF InsertRequest
  <2>3. CASE SetSuperseded(r)
    BY <2>1, <2>3 DEF SetSuperseded
  <2>4. QED
    BY <1>1, <2>2, <2>3 DEF EntryStep, InsertRows, CancelSuperseded, AnnounceSuperseded, RegisterRun
<1>2. ASSUME NEW r \in Requests, exPc[r] # "none"
      PROVE  reqState[r] # "absent"
  BY <1>2 DEF PhaseInv, Phased, ControlInv, Ordered
<1>3. ASSUME NEW r \in Requests, CoordinatorStep(r) PROVE RowExists(q)' <=> RowExists(q)
  <2>1. exPc[r] # "none"
    BY <1>3 DEF CoordinatorStep, StartViews, ReceiveView, IncludeView, TriggerJudge,
                DrainView, AnnounceStraggler, ViewsDrained
  <2>2. \/ UNCHANGED reqState
        \/ SetUnlessSuperseded(r, "running_views")
    BY <1>3 DEF CoordinatorStep, StartViews, ReceiveView, IncludeView, TriggerJudge,
                DrainView, AnnounceStraggler, ViewsDrained
  <2>3. QED
    BY <1>2, <2>1, <2>2 DEF SetUnlessSuperseded
<1>4. ASSUME NEW r \in Requests, JudgeStep(r) PROVE RowExists(q)' <=> RowExists(q)
  <2>1. judgePc[r] # "none"
    BY <1>4 DEF JudgeStep, StartJudge, AnnounceJudge, CallJudge, AwaitViews, StoreJudge,
                PersistVerdict, AnnounceVerdict, ReloadRequest, FinishState,
                FinishTimings, PublishDone
  <2>2. reqState[r] # "absent"
    BY <1>2, <2>1 DEF ControlInv, Ordered
  <2>3. \/ UNCHANGED reqState
        \/ SetUnlessSuperseded(r, FinalState(r))
        \/ reqState' = [reqState EXCEPT ![r] = "running_judge"]
    BY <1>4 DEF JudgeStep, StartJudge, AnnounceJudge, CallJudge, AwaitViews, StoreJudge,
                PersistVerdict, AnnounceVerdict, ReloadRequest, FinishState,
                FinishTimings, PublishDone
  <2>4. FinalState(r) # "absent"
    BY DEF FinalState
  <2>5. QED
    BY <2>2, <2>3, <2>4 DEF SetUnlessSuperseded
<1>5. ASSUME NEW r \in Requests, NEW s \in Seats,
             ViewsDeadline(r) \/ JudgeDeadline(r) \/ CallView(r, s)
      PROVE  UNCHANGED reqState
  BY <1>5 DEF ViewsDeadline, JudgeDeadline, CallView
<1>6. CASE Crash \/ UNCHANGED vars
  BY <1>6 DEF Crash, vars
<1>7. QED
  BY <1>1, <1>3, <1>4, <1>5, <1>6, ConstantsAssumption DEF Next

\* The steps of the coordinator and of Run say nothing about the verdict.
LEMMA CoordinatorSays ==
  ASSUME TypeInv, NEW r \in Requests, CoordinatorStep(r)
  PROVE  /\ \A q \in Requests : \A who : \A type \in {"judge_complete", "judge_failed", "done"} :
              SaidIn(published'[q], type, who) <=> SaidIn(published[q], type, who)
         /\ \A q \in Requests : DoneIn(published'[q]) <=> DoneIn(published[q])
         /\ \A q \in Requests \ {r} : published'[q] = published[q]
         /\ UNCHANGED <<runPc, target>>
         /\ \A q \in Requests : judgePc'[q] \in {judgePc[q], "start"}
         /\ judgePc'[r] = "start" => judgePc[r] = "start" \/ exPc[r] \in {"select", "received"}
<1> USE DEF TypeInv, TypeOK, JudgeTypeOK
<1>1. /\ UNCHANGED <<runPc, target>>
      /\ \A q \in Requests : judgePc'[q] \in {judgePc[q], "start"}
      /\ judgePc'[r] = "start" => judgePc[r] = "start" \/ exPc[r] \in {"select", "received"}
  BY DEF CoordinatorStep, StartViews, ReceiveView, IncludeView, TriggerJudge,
         DrainView, AnnounceStraggler, ViewsDrained, entryVars, judgeVars
<1>2. \/ published' = published
      \/ \E late \in BOOLEAN : results[r] # <<>> /\ AnnounceView(r, late)
  BY DEF CoordinatorStep, StartViews, ReceiveView, IncludeView, TriggerJudge,
         DrainView, AnnounceStraggler, ViewsDrained, HoldsResult
<1>3. ASSUME NEW late \in BOOLEAN, results[r] # <<>>, AnnounceView(r, late)
      PROVE  /\ \A x \in Requests \ {r} : published'[x] = published[x]
             /\ \A who : \A type \in {"judge_complete", "judge_failed", "done"} :
                  SaidIn(published'[r], type, who) <=> SaidIn(published[r], type, who)
             /\ DoneIn(published'[r]) <=> DoneIn(published[r])
  <2>1. RecordedEvent(Current(r).kind, late) \notin {"judge_complete", "judge_failed", "done"}
    BY DEF RecordedEvent
  <2>2. DoneIn(published'[r]) <=> DoneIn(published[r])
    BY <1>3, AnnounceViewTells
  <2>3. /\ \A x \in Requests \ {r} : published'[x] = published[x]
        /\ \A type, who : SaidIn(published'[r], type, who) <=>
              \/ SaidIn(published[r], type, who)
              \/ type = RecordedEvent(Current(r).kind, late) /\ who = Current(r).seat
              \/ Current(r).kind = "danger" /\ type = "danger" /\ who = Current(r).seat
    BY <1>3, AnnounceViewSays
  <2>4. QED
    BY <2>1, <2>2, <2>3
<1>4. QED
  BY <1>1, <1>2, <1>3

LEMMA PhaseStep == IInv /\ PhaseInv /\ [Next]_vars => PhaseInv'
<1> SUFFICES ASSUME IInv, PhaseInv, [Next]_vars, NEW q \in Requests PROVE Phased(q)'
  BY DEF PhaseInv
<1> USE DEF IInv, TypeInv, TypeOK
<1>1. Phased(q) /\ Ordered(q) /\ Accounted(q)
  BY DEF PhaseInv, ControlInv, AccountInv
<1>2. \A x \in Requests : RowExists(x) => RowExists(x)'
  BY RowStep
\* Nothing is said about the verdict or the end, and nothing changes hands.
<1>3. ASSUME Answered(q)' <=> Answered(q), Unanswered(q)' <=> Unanswered(q),
             ~ RowExists(q) => (DoneIn(published'[q]) <=> DoneIn(published[q])),
             runPc[q] = "failed" => runPc'[q] = "failed",
             judgePc'[q] \in PastVerdict <=> judgePc[q] \in PastVerdict,
             runPc'[q] \notin {"idle", "failed"} => RowExists(q)',
             (target[q] \in Requests => RowExists(target[q]))'
      PROVE  Phased(q)'
  BY <1>1, <1>2, <1>3 DEF Phased
<1>4. ASSUME NEW r \in Requests, EntryStep(r) PROVE Phased(q)'
  <2>1. /\ Answered(q)' <=> Answered(q)
        /\ Unanswered(q)' <=> Unanswered(q)
        /\ DoneIn(published'[q]) <=> DoneIn(published[q])
    BY <1>4, EntryTells DEF Answered, Unanswered, Announced, SaidIn
  <2>2. /\ judgePc' = judgePc
        /\ runPc[r] \in RunPcs \ {"returned", "failed"}
        /\ q # r => runPc'[q] = runPc[q]
    BY <1>4, EntryFrame
  <2>3. runPc'[q] \notin {"idle", "failed"} => RowExists(q)'
    <3>1. CASE q = r /\ InsertRequest(r)
      BY <3>1 DEF InsertRequest, RowExists, RowTypeOK, EntryTypeOK
    <3>2. CASE q = r /\ ~ InsertRequest(r)
      <4>1. runPc[r] # "idle"
        BY <1>4, <3>2 DEF EntryStep, InsertRows, SetSuperseded, CancelSuperseded,
                          AnnounceSuperseded, RegisterRun
      <4>2. QED
        BY <1>1, <1>2, <2>2, <3>2, <4>1 DEF Phased
    <3>3. CASE q # r
      BY <1>1, <1>2, <2>2, <3>3 DEF Phased
    <3>4. QED
      BY <3>1, <3>2, <3>3
  <2>4. (target[q] \in Requests => RowExists(target[q]))'
    <3>1. CASE InsertRequest(r)
      <4>1. PICK old \in {o \in Requests : RowExists(o)} \cup {None} :
              target' = [target EXCEPT ![r] = old]
        BY <3>1 DEF InsertRequest
      <4>2. target'[q] = IF q = r THEN old ELSE target[q]
        BY <4>1 DEF EntryTypeOK
      <4>3. target'[q] \in Requests => RowExists(target'[q])
        BY <1>1, <4>1, <4>2, ConstantsAssumption DEF Phased
      <4>4. QED
        BY <1>2, <4>3 DEF RowExists
    <3>2. CASE UNCHANGED target
      BY <1>1, <1>2, <3>2 DEF Phased, RowExists
    <3>3. QED
      BY <1>4, <3>1, <3>2 DEF EntryStep, InsertRows, SetSuperseded, CancelSuperseded,
                              AnnounceSuperseded, RegisterRun
  <2>5. QED
    BY <1>3, <2>1, <2>2, <2>3, <2>4
<1>5. ASSUME NEW r \in Requests, CoordinatorStep(r) PROVE Phased(q)'
  <2>1. /\ Answered(q)' <=> Answered(q)
        /\ Unanswered(q)' <=> Unanswered(q)
        /\ DoneIn(published'[q]) <=> DoneIn(published[q])
        /\ UNCHANGED <<runPc, target>>
    BY <1>5, CoordinatorSays DEF Answered, Unanswered, Announced, SaidIn
  <2>2. judgePc'[q] \in PastVerdict <=> judgePc[q] \in PastVerdict
    <3>1. /\ judgePc'[q] \in {judgePc[q], "start"}
          /\ q # r => judgePc'[q] = judgePc[q]
          /\ judgePc'[r] = "start" => judgePc[r] = "start" \/ exPc[r] \in {"select", "received"}
      BY <1>5, CoordinatorSays DEF CoordinatorStep, StartViews, ReceiveView, IncludeView,
         TriggerJudge, DrainView, AnnounceStraggler, ViewsDrained, judgeVars, JudgeTypeOK
    <3>2. QED
      BY <1>1, <3>1 DEF Ordered, PastVerdict, PastPersist
  <2>3. QED
    BY <1>1, <1>2, <1>3, <2>1, <2>2 DEF Phased, RowExists
<1>6. ASSUME NEW r \in Requests, JudgeStep(r) PROVE Phased(q)'
  <2>1. UNCHANGED <<runPc, target>> /\ \A x \in Requests \ {r} : /\ published'[x] = published[x]
                                                                 /\ judgePc'[x] = judgePc[x]
    BY <1>6, JudgeFrame DEF entryVars
  <2>2. /\ runPc'[q] \notin {"idle", "failed"} => RowExists(q)'
        /\ (target[q] \in Requests => RowExists(target[q]))'
    BY <1>1, <1>2, <2>1 DEF Phased, RowExists
  <2>3. CASE q # r
    BY <1>3, <2>1, <2>2, <2>3 DEF Answered, Unanswered, Announced
  <2>4. CASE q = r
    <3>1. judgePc[r] # "none" /\ judgePc[r] # "exit"
      BY <1>6 DEF JudgeStep, StartJudge, AnnounceJudge, CallJudge, AwaitViews, StoreJudge,
                PersistVerdict, AnnounceVerdict, ReloadRequest, FinishState,
                FinishTimings, PublishDone
    <3>2. runPc[r] = "returned" /\ RowExists(r)
      BY <1>1, <2>4, <3>1 DEF Ordered, Phased
    <3>3. ASSUME NEW e \in Events, Publish(r, e), e.type \notin ViewEvents,
                 e.type \notin {"judge_complete", "judge_failed"},
                 judgePc'[r] \in PastVerdict <=> judgePc[r] \in PastVerdict
          PROVE  Phased(q)'
      <4>1. \A who : e # Event("judge_complete", who) /\ e # Event("judge_failed", who)
        BY <3>3 DEF Event
      <4>2. /\ Answered(q)' <=> Answered(q)
            /\ Unanswered(q)' <=> Unanswered(q)
        BY <2>4, <3>3, <4>1, PublishSays DEF Answered, Unanswered, Announced, SaidIn
      <4>3. QED
        BY <1>3, <2>1, <2>2, <2>4, <3>2, <3>3, <4>2
    <3>4. CASE AnnounceVerdict(r)
      <4> DEFINE type == IF judgeOut[r] = "complete" THEN "judge_complete" ELSE "judge_failed"
                 e == Event(type, Judge)
      <4>1. e \in Events /\ e.type \notin ViewEvents
        BY EventType DEF EventTypes, Event, ViewEvents
      <4>2. Publish(r, e) /\ judgePc[r] = "verdict" /\ judgePc'[r] = "reload"
        BY <3>4 DEF AnnounceVerdict, JudgeTypeOK
      <4>3. \A t, who : e = Event(t, who) <=> t = type /\ who = Judge
        BY DEF Event
      <4> HIDE DEF e
      <4>4. \A t, who : SaidIn(published'[r], t, who) <=>
              SaidIn(published[r], t, who) \/ (t = type /\ who = Judge)
        BY <4>1, <4>2, <4>3, PublishSays
      <4>5. ~ Answered(r) /\ ~ Unanswered(r)
        BY <1>1, <2>4, <3>2, <4>2 DEF Phased, PastVerdict
      <4>6. /\ Answered(r)' <=> type = "judge_complete"
            /\ Unanswered(r)' <=> type = "judge_failed"
        BY <4>4, <4>5 DEF Answered, Unanswered, Announced, SaidIn
      <4>7. judgePc'[r] \in PastVerdict
        BY <4>2 DEF PastVerdict, PastPersist
      <4>8. QED
        BY <1>2, <2>2, <2>4, <3>2, <4>6, <4>7 DEF Phased
    <3>5. CASE AnnounceJudge(r)
      <4> DEFINE e == Event("judge_started", Judge)
      <4>1. e \in Events /\ e.type \notin ViewEvents \cup {"judge_complete", "judge_failed"}
        BY EventType DEF EventTypes, Event, ViewEvents
      <4>2. Publish(r, e) /\ judgePc[r] = "announce" /\ judgePc'[r] = "call"
        BY <3>5 DEF AnnounceJudge, JudgeTypeOK
      <4> HIDE DEF e
      <4>3. QED
        BY <3>3, <4>1, <4>2 DEF PastVerdict, PastPersist
    <3>6. CASE PublishDone(r)
      <4> DEFINE e == Event("done", None)
      <4>1. e \in Events /\ e.type \notin ViewEvents \cup {"judge_complete", "judge_failed"}
        BY EventType DEF EventTypes, Event, ViewEvents
      <4>2. Publish(r, e) /\ judgePc[r] = "done" /\ judgePc'[r] = "exit"
        BY <3>6 DEF PublishDone, JudgeTypeOK
      <4> HIDE DEF e
      <4>3. QED
        BY <3>3, <4>1, <4>2 DEF PastVerdict, PastPersist
    <3>7. CASE StoreJudge(r) /\ judgeOut[r] = "danger"
      <4> DEFINE e == Event("danger", Judge)
      <4>1. e \in Events /\ e.type \notin ViewEvents \cup {"judge_complete", "judge_failed"}
        BY EventType DEF EventTypes, Event, ViewEvents
      <4>2. Publish(r, e) /\ judgePc[r] = "store" /\ judgePc'[r] = "persist"
        BY <3>7 DEF StoreJudge, JudgeTypeOK
      <4> HIDE DEF e
      <4>3. QED
        BY <3>3, <4>1, <4>2 DEF PastVerdict, PastPersist
    <3>8. CASE UNCHANGED published /\ ~ (AnnounceVerdict(r) \/ AnnounceJudge(r) \/ PublishDone(r))
      <4>1. judgePc'[r] \in PastVerdict <=> judgePc[r] \in PastVerdict
        BY <1>6, <3>8 DEF JudgeStep, StartJudge, CallJudge, AwaitViews, StoreJudge,
             PersistVerdict, ReloadRequest, FinishState, FinishTimings,
             PastVerdict, PastPersist, JudgeTypeOK
      <4>2. QED
        BY <1>3, <2>1, <2>2, <2>4, <3>8, <4>1 DEF Answered, Unanswered, Announced
    <3>9. UNCHANGED published \/ AnnounceVerdict(r) \/ AnnounceJudge(r) \/ PublishDone(r)
            \/ (StoreJudge(r) /\ judgeOut[r] = "danger")
      BY <1>6 DEF JudgeStep, StartJudge, CallJudge, AwaitViews, StoreJudge,
             PersistVerdict, ReloadRequest, FinishState, FinishTimings
    <3>10. QED
      BY <3>4, <3>5, <3>6, <3>7, <3>8, <3>9
  <2>5. QED
    BY <2>3, <2>4
<1>7. ASSUME NEW r \in Requests, NEW s \in Seats,
             CallView(r, s) \/ ViewsDeadline(r) \/ JudgeDeadline(r)
      PROVE  Phased(q)'
  <2>1. UNCHANGED <<reqState, runPc, target, judgePc, published>>
    BY <1>7 DEF CallView, ViewsDeadline, JudgeDeadline, rowVars, entryVars, judgeVars
  <2>2. QED
    BY <1>1, <2>1 DEF Phased, RowExists, Answered, Unanswered, Announced
<1>8. CASE Crash
  <2>1. /\ UNCHANGED <<reqState, published>> /\ judgePc'[q] = "none" /\ target'[q] = None
        /\ runPc'[q] = IF runPc[q] = "idle" THEN "idle" ELSE "failed"
    BY <1>8 DEF Crash, rowVars
  <2>2. runPc[q] = "idle" => judgePc[q] = "none"
    BY <1>1 DEF Ordered
  <2>3. QED
    BY <1>1, <2>1, <2>2, ConstantsAssumption
       DEF Phased, RowExists, Answered, Unanswered, Announced, PastVerdict, PastPersist
<1>9. CASE UNCHANGED vars
  BY <1>1, <1>9 DEF vars, rowVars, entryVars, judgeVars, Phased, RowExists, Answered,
                    Unanswered, Announced
<1>10. QED
  BY <1>4, <1>5, <1>6, <1>7, <1>8, <1>9, ConstantsAssumption DEF Next

\* The picture before and after a step, one request at a time.
LEMMA PictureStep ==
  ASSUME NEW r \in Requests, \A x \in Requests \ {r} : Picture(x)' = Picture(x)
  PROVE  \/ Picture(r)' = Picture(r)
         \/ /\ PhaseOf(r) = "none" /\ PhaseOf(r)' = "open"
            /\ Heard(r)' = Heard(r) /\ Missed(r)' = Missed(r) /\ VerdictOf(r)' = VerdictOf(r)
         \/ \E s \in Seats :
              /\ PhaseOf(r) = "open" /\ PhaseOf(r)' = "open"
              /\ s \notin Heard(r) \cup Missed(r)
              /\ VerdictOf(r)' = VerdictOf(r)
              /\ \/ Heard(r)' = Heard(r) \cup {s} /\ Missed(r)' = Missed(r)
                 \/ Missed(r)' = Missed(r) \cup {s} /\ Heard(r)' = Heard(r)
         \/ /\ PhaseOf(r) = "open" /\ PhaseOf(r)' = "decided"
            /\ Heard(r) \cup Missed(r) = Seats
            /\ Heard(r)' = Heard(r) /\ Missed(r)' = Missed(r)
            /\ VerdictOf(r)' \in {IF Heard(r) = Seats THEN "full" ELSE "partial", "unanswered"}
         \/ /\ PhaseOf(r) = "decided" /\ PhaseOf(r)' = "over"
            /\ Heard(r)' = Heard(r) /\ Missed(r)' = Missed(r) /\ VerdictOf(r)' = VerdictOf(r)
         => [Lifecycle!Next]_(Lifecycle!vars)
<1> DEFINE phase   == [x \in Requests |-> PhaseOf(x)]
           heard   == [x \in Requests |-> Heard(x)]
           missed  == [x \in Requests |-> Missed(x)]
           verdict == [x \in Requests |-> VerdictOf(x)]
<1>1. \A x \in Requests \ {r} : /\ PhaseOf(x)' = PhaseOf(x) /\ Heard(x)' = Heard(x)
                                /\ Missed(x)' = Missed(x) /\ VerdictOf(x)' = VerdictOf(x)
  BY DEF Picture
<1>2. /\ phase' = [phase EXCEPT ![r] = PhaseOf(r)']
      /\ heard' = [heard EXCEPT ![r] = Heard(r)']
      /\ missed' = [missed EXCEPT ![r] = Missed(r)']
      /\ verdict' = [verdict EXCEPT ![r] = VerdictOf(r)']
  BY <1>1
<1>3. /\ phase[r] = PhaseOf(r) /\ heard[r] = Heard(r)
      /\ missed[r] = Missed(r) /\ verdict[r] = VerdictOf(r)
  OBVIOUS
<1>4. /\ PhaseOf(r)' = PhaseOf(r) => phase' = phase
      /\ Heard(r)' = Heard(r) => heard' = heard
      /\ Missed(r)' = Missed(r) => missed' = missed
      /\ VerdictOf(r)' = VerdictOf(r) => verdict' = verdict
  BY <1>1
<1>5. CASE Picture(r)' = Picture(r)
  BY <1>4, <1>5 DEF Picture, Lifecycle!vars
<1>6. CASE /\ PhaseOf(r) = "none" /\ PhaseOf(r)' = "open"
           /\ Heard(r)' = Heard(r) /\ Missed(r)' = Missed(r) /\ VerdictOf(r)' = VerdictOf(r)
  <2>1. Lifecycle!Accept(r)
    BY <1>2, <1>3, <1>4, <1>6 DEF Lifecycle!Accept
  <2>2. QED
    BY <2>1 DEF Lifecycle!Next
<1>7. ASSUME NEW s \in Seats, PhaseOf(r) = "open", PhaseOf(r)' = "open",
             s \notin Heard(r) \cup Missed(r), VerdictOf(r)' = VerdictOf(r),
             \/ Heard(r)' = Heard(r) \cup {s} /\ Missed(r)' = Missed(r)
             \/ Missed(r)' = Missed(r) \cup {s} /\ Heard(r)' = Heard(r)
      PROVE  Lifecycle!Next
  <2>1. CASE Heard(r)' = Heard(r) \cup {s} /\ Missed(r)' = Missed(r)
    <3>1. Lifecycle!Hear(r, s)
      BY <1>2, <1>3, <1>4, <1>7, <2>1 DEF Lifecycle!Hear
    <3>2. QED
      BY <3>1 DEF Lifecycle!Next
  <2>2. CASE Missed(r)' = Missed(r) \cup {s} /\ Heard(r)' = Heard(r)
    <3>1. Lifecycle!Miss(r, s)
      BY <1>2, <1>3, <1>4, <1>7, <2>2 DEF Lifecycle!Miss
    <3>2. QED
      BY <3>1 DEF Lifecycle!Next
  <2>3. QED
    BY <1>7, <2>1, <2>2
<1>8. CASE /\ PhaseOf(r) = "open" /\ PhaseOf(r)' = "decided"
           /\ Heard(r) \cup Missed(r) = Seats
           /\ Heard(r)' = Heard(r) /\ Missed(r)' = Missed(r)
           /\ VerdictOf(r)' \in {IF Heard(r) = Seats THEN "full" ELSE "partial", "unanswered"}
  <2>1. Lifecycle!Decide(r)
    BY <1>2, <1>3, <1>4, <1>8 DEF Lifecycle!Decide
  <2>2. QED
    BY <2>1 DEF Lifecycle!Next
<1>9. CASE /\ PhaseOf(r) = "decided" /\ PhaseOf(r)' = "over"
           /\ Heard(r)' = Heard(r) /\ Missed(r)' = Missed(r) /\ VerdictOf(r)' = VerdictOf(r)
  <2>1. Lifecycle!Close(r)
    BY <1>2, <1>3, <1>4, <1>9 DEF Lifecycle!Close
  <2>2. QED
    BY <2>1 DEF Lifecycle!Next
<1>10. QED
  BY <1>5, <1>6, <1>7, <1>8, <1>9

\* Where a request stands while its run has goroutines.
LEMMA OpenWhileRunning ==
  ASSUME IInv, PhaseInv, NEW r \in Requests, exPc[r] # "none", judgePc[r] \notin PastVerdict
  PROVE  PhaseOf(r) = "open" /\ VerdictOf(r) = "none" /\ RowExists(r)
<1>1. Phased(r) /\ Ordered(r)
  BY DEF IInv, PhaseInv, ControlInv
<1>2. ~ DoneIn(published[r]) /\ runPc[r] = "returned"
  BY NotDoneYet DEF IInv, PastVerdict, PastPersist
<1>3. ~ Announced(r, "done", None)
  BY <1>2, SaidDone, AnnouncedSaid
<1>4. ~ Answered(r) /\ ~ Unanswered(r) /\ RowExists(r)
  BY <1>1, <1>2 DEF Phased
<1>5. QED
  BY <1>3, <1>4 DEF PhaseOf, VerdictOf

LEMMA EntryRefines ==
  ASSUME IInv, PhaseInv, NEW r \in Requests, EntryStep(r), Next
  PROVE  [Lifecycle!Next]_(Lifecycle!vars)
<1> USE DEF IInv
<1>1. ASSUME NEW q \in Requests,
             NEW type \in ViewEvents \cup {"judge_complete", "judge_failed", "done"}, NEW who
      PROVE  SaidIn(published'[q], type, who) <=> SaidIn(published[q], type, who)
  BY EntryTells DEF ViewEvents
<1>2. ASSUME NEW q \in Requests, ~ (InsertRequest(q) /\ ~ RowExists(q))
      PROVE  Picture(q)' = Picture(q)
  BY <1>1, <1>2, RowStep, PictureKept
<1>3. CASE InsertRequest(r) /\ ~ RowExists(r) /\ RowExists(r)'
  <2>1. ASSUME NEW q \in Requests \ {r} PROVE ~ InsertRequest(q)
    <3>1. runPc'[q] = runPc[q]
      BY EntryFrame
    <3>2. InsertRequest(q) => runPc'[q] # runPc[q]
      BY DEF InsertRequest, TypeInv, TypeOK, EntryTypeOK
    <3>3. QED
      BY <3>1, <3>2
  <2>2. \A q \in Requests \ {r} : Picture(q)' = Picture(q)
    BY <1>2, <2>1
  <2>3. ~ Answered(r) /\ ~ Unanswered(r) /\ ~ DoneIn(published[r])
    BY <1>3 DEF PhaseInv, Phased
  <2>4. ~ Announced(r, "done", None)
    BY <2>3, SaidDone, AnnouncedSaid
  <2>5. UNCHANGED published
    BY <1>3 DEF InsertRequest
  <2>6. /\ ~ Answered(r)' /\ ~ Unanswered(r)' /\ ~ Announced(r, "done", None)'
        /\ Heard(r)' = Heard(r) /\ Missed(r)' = Missed(r)
    BY <2>3, <2>4, <2>5 DEF Answered, Unanswered, Announced, Heard, Missed
  <2>7. PhaseOf(r) = "none" /\ PhaseOf(r)' = "open" /\ VerdictOf(r)' = VerdictOf(r)
    BY <1>3, <2>3, <2>4, <2>6 DEF PhaseOf, VerdictOf
  <2>8. QED
    BY <2>2, <2>6, <2>7, PictureStep
<1>4. CASE ~ (InsertRequest(r) /\ ~ RowExists(r) /\ RowExists(r)')
  <2>1. ASSUME NEW q \in Requests PROVE RowExists(q)' <=> RowExists(q)
    <3>1. CASE q = r
      BY <1>4, <3>1, RowStep
    <3>2. CASE q # r
      <4>1. runPc'[q] = runPc[q]
        BY <3>2, EntryFrame
      <4>2. InsertRequest(q) => runPc'[q] # runPc[q]
        BY DEF InsertRequest, TypeInv, TypeOK, EntryTypeOK
      <4>3. QED
        BY <4>1, <4>2, RowStep
    <3>3. QED
      BY <3>1, <3>2
  <2>2. \A q \in Requests : Picture(q)' = Picture(q)
    BY <1>1, <2>1, PictureKept
  <2>3. QED
    BY <2>2, PictureStep
<1>5. QED
  BY <1>3, <1>4

\* A view announced is a seat heard, or missed.
LEMMA AnnounceRefines ==
  ASSUME IInv, PhaseInv, Next, NEW r \in Requests, NEW late \in BOOLEAN, AnnounceView(r, late),
         exPc[r] \in {"received", "straggler"}, UNCHANGED runPc
  PROVE  [Lifecycle!Next]_(Lifecycle!vars)
<1> DEFINE s == Current(r).seat
           type == RecordedEvent(Current(r).kind, late)
<1> USE DEF IInv
<1>1. Ordered(r) /\ Accounted(r) /\ results[r] # <<>>
  BY DEF ControlInv, AccountInv, TypeInv, HoldsResult
<1>2. /\ s \in Seats
      /\ \A x \in Requests \ {r} : published'[x] = published[x]
      /\ \A t, who : SaidIn(published'[r], t, who) <=>
           \/ SaidIn(published[r], t, who)
           \/ t = type /\ who = s
           \/ Current(r).kind = "danger" /\ t = "danger" /\ who = s
  BY <1>1, AnnounceViewSays
<1>3. type \in ViewEvents
  BY DEF RecordedEvent, ViewEvents
<1>4. ~ ToldIn(published[r], s)
  <2>1. HasSeat(results[r], s) /\ runPc[r] = "returned"
    BY <1>1, ReceiveSeat DEF Accounted, Ordered, Current, TypeInv, TypeOK, ExecTypeOK
  <2>2. QED
    BY <1>1, <1>2, <2>1 DEF Accounted
<1>5. ASSUME NEW q \in Requests PROVE RowExists(q)' <=> RowExists(q)
  <2>1. ~ InsertRequest(q)
    BY DEF InsertRequest, TypeInv, TypeOK, EntryTypeOK
  <2>2. QED
    BY <2>1, RowStep
<1>6. \A q \in Requests \ {r} : Picture(q)' = Picture(q)
  BY <1>2, <1>5, PictureKept
<1>7. PhaseOf(r) = "open" /\ RowExists(r)'
  <2>1. judgePc[r] \notin PastVerdict
    BY <1>1 DEF Ordered, PastVerdict, PastPersist, PastViews
  <2>2. QED
    BY <1>5, <2>1, OpenWhileRunning
<1> HIDE DEF type, s
<1>8. \A t \in {"judge_complete", "judge_failed", "done"} : \A who :
        Announced(r, t, who)' <=> Announced(r, t, who)
  <2>1. \A t \in {"judge_complete", "judge_failed", "done"} : \A who :
          SaidIn(published'[r], t, who) <=> SaidIn(published[r], t, who)
    BY <1>2, <1>3 DEF ViewEvents
  <2>2. QED
    BY <2>1 DEF Announced, SaidIn
<1>9. ~ Announced(r, "done", None) /\ ~ Answered(r) /\ ~ Unanswered(r)
  BY <1>7 DEF PhaseOf
<1>10. PhaseOf(r)' = "open" /\ VerdictOf(r)' = VerdictOf(r)
  BY <1>7, <1>8, <1>9 DEF PhaseOf, VerdictOf, Answered, Unanswered
<1>11. \A t \in ViewEvents : \A who :
         Announced(r, t, who)' <=> Announced(r, t, who) \/ (t = type /\ who = s)
  <2>1. \A t \in ViewEvents : \A who :
          SaidIn(published'[r], t, who) <=> SaidIn(published[r], t, who) \/ (t = type /\ who = s)
    BY <1>2 DEF ViewEvents
  <2>2. QED
    BY <2>1 DEF Announced, SaidIn
<1>12. \A t \in ViewEvents : ~ Announced(r, t, s)
  <2>1. published[r] \in Seq(Events)
    BY DEF TypeInv, TypeOK, HistoryTypeOK
  <2>2. QED
    BY <1>4, <2>1, ToldSaid, AnnouncedSaid
<1>13. s \notin Heard(r) \cup Missed(r)
  BY <1>12 DEF Heard, Missed, ViewEvents
<1>14. \/ Heard(r)' = Heard(r) \cup {s} /\ Missed(r)' = Missed(r)
       \/ Missed(r)' = Missed(r) \cup {s} /\ Heard(r)' = Heard(r)
  <2>1. CASE type = "view_complete"
    BY <1>2, <1>11, <2>1 DEF Heard, Missed, ViewEvents
  <2>2. CASE type \in {"view_failed", "view_late"}
    BY <1>2, <1>11, <2>2 DEF Heard, Missed, ViewEvents
  <2>3. QED
    BY <1>3, <2>1, <2>2 DEF ViewEvents
<1>15. QED
  BY <1>2, <1>6, <1>7, <1>10, <1>13, <1>14, PictureStep

\* A step that tells no view, no verdict and no end changes no picture.
LEMMA QuietRefines ==
  ASSUME IInv, PhaseInv, Next, UNCHANGED runPc, Requests # {},
         \A q \in Requests :
           \A type \in ViewEvents \cup {"judge_complete", "judge_failed", "done"} : \A who :
             SaidIn(published'[q], type, who) <=> SaidIn(published[q], type, who)
  PROVE  [Lifecycle!Next]_(Lifecycle!vars)
<1>1. ASSUME NEW q \in Requests PROVE RowExists(q)' <=> RowExists(q)
  <2>1. ~ InsertRequest(q)
    BY DEF InsertRequest, IInv, TypeInv, TypeOK, EntryTypeOK
  <2>2. QED
    BY <2>1, RowStep DEF IInv
<1>2. \A q \in Requests : Picture(q)' = Picture(q)
  BY <1>1, PictureKept
<1>3. QED
  BY <1>2, PictureStep

LEMMA CoordinatorRefines ==
  ASSUME IInv, PhaseInv, Next, NEW r \in Requests, CoordinatorStep(r)
  PROVE  [Lifecycle!Next]_(Lifecycle!vars)
<1>1. UNCHANGED runPc
  BY CoordinatorSays DEF IInv
<1>2. CASE IncludeView(r)
  BY <1>1, <1>2, AnnounceRefines DEF IncludeView
<1>3. CASE AnnounceStraggler(r)
  BY <1>1, <1>3, AnnounceRefines DEF AnnounceStraggler
<1>4. CASE UNCHANGED published
  BY <1>1, <1>4, QuietRefines
<1>5. QED
  BY <1>2, <1>3, <1>4 DEF CoordinatorStep, StartViews, ReceiveView, TriggerJudge,
                          DrainView, ViewsDrained

\* What an event other than a view's does to the announcements.
LEMMA PublishAnnounces ==
  ASSUME TypeInv, NEW r \in Requests, NEW type \in EventTypes \ ViewEvents,
         NEW who \in Seats \cup {Judge, None}, Publish(r, Event(type, who))
  PROVE  /\ \A x \in Requests \ {r} : published'[x] = published[x]
         /\ \A t, w : SaidIn(published'[r], t, w) <=>
              SaidIn(published[r], t, w) \/ (t = type /\ w = who)
         /\ \A t, w : Announced(r, t, w)' <=> Announced(r, t, w) \/ (t = type /\ w = who)
         /\ Heard(r)' = Heard(r) /\ Missed(r)' = Missed(r)
<1> DEFINE e == Event(type, who)
<1>1. e \in Events /\ e.type \notin ViewEvents
  BY EventType DEF Event
<1>2. \A t, w : e = Event(t, w) <=> t = type /\ w = who
  BY DEF Event
<1>3. Publish(r, e)
  OBVIOUS
<1> HIDE DEF e
<1>4. /\ \A x \in Requests \ {r} : published'[x] = published[x]
      /\ \A t, w : SaidIn(published'[r], t, w) <=>
           SaidIn(published[r], t, w) \/ (t = type /\ w = who)
  BY <1>1, <1>2, <1>3, PublishSays
<1>5. \A t, w : Announced(r, t, w)' <=> Announced(r, t, w) \/ (t = type /\ w = who)
  BY <1>4 DEF Announced, SaidIn
<1>6. Heard(r)' = Heard(r) /\ Missed(r)' = Missed(r)
  BY <1>5 DEF Heard, Missed, ViewEvents
<1>7. QED
  BY <1>4, <1>5, <1>6

\* The judge event is the verdict, given when every seat is accounted for.
LEMMA VerdictRefines ==
  ASSUME IInv, PhaseInv, Next, NEW r \in Requests, AnnounceVerdict(r)
  PROVE  [Lifecycle!Next]_(Lifecycle!vars)
<1> DEFINE type == IF judgeOut[r] = "complete" THEN "judge_complete" ELSE "judge_failed"
<1> USE DEF IInv
<1>1. type \in EventTypes \ ViewEvents /\ type # "done"
  BY DEF EventTypes, ViewEvents
<1>2. Publish(r, Event(type, Judge)) /\ judgePc[r] = "verdict" /\ UNCHANGED <<runPc, reqState>>
  BY DEF AnnounceVerdict, rowVars, entryVars
<1> HIDE DEF type
<1>3. /\ \A x \in Requests \ {r} : published'[x] = published[x]
      /\ \A t, w : Announced(r, t, w)' <=> Announced(r, t, w) \/ (t = type /\ w = Judge)
      /\ Heard(r)' = Heard(r) /\ Missed(r)' = Missed(r)
  BY <1>1, <1>2, PublishAnnounces
<1>4. \A q \in Requests : RowExists(q)' <=> RowExists(q)
  BY <1>2 DEF RowExists
<1>5. \A q \in Requests \ {r} : Picture(q)' = Picture(q)
  BY <1>3, <1>4, PictureKept
<1>6. PhaseOf(r) = "open" /\ VerdictOf(r) = "none" /\ RowExists(r)
  <2>1. exPc[r] # "none" /\ judgePc[r] \notin PastVerdict
    BY <1>2 DEF ControlInv, Ordered, PastViews, PastVerdict, PastPersist
  <2>2. QED
    BY <2>1, OpenWhileRunning
<1>7. ~ Announced(r, "done", None) /\ ~ Answered(r) /\ ~ Unanswered(r)
  BY <1>6 DEF PhaseOf
<1>8. /\ ~ Announced(r, "done", None)'
      /\ Answered(r)' <=> type = "judge_complete"
      /\ Unanswered(r)' <=> type = "judge_failed"
  BY <1>1, <1>3, <1>7 DEF Answered, Unanswered
<1>9. type \in {"judge_complete", "judge_failed"}
  BY DEF type
<1>10. PhaseOf(r)' = "decided"
  BY <1>8, <1>9 DEF PhaseOf
<1>11. VerdictOf(r)' \in {IF Heard(r) = Seats THEN "full" ELSE "partial", "unanswered"}
  BY <1>3, <1>8, <1>9 DEF VerdictOf
<1>12. Heard(r) \cup Missed(r) = Seats
  <2>1. \A s \in Seats : ToldIn(published[r], s)
    BY <1>2, AllTold DEF PastViews
  <2>2. published[r] \in Seq(Events)
    BY DEF TypeInv, TypeOK, HistoryTypeOK
  <2>3. \A s \in Seats : \E t \in ViewEvents : Announced(r, t, s)
    BY <2>1, <2>2, ToldSaid, AnnouncedSaid
  <2>4. QED
    BY <2>3 DEF Heard, Missed, ViewEvents
<1>13. QED
  BY <1>3, <1>5, <1>6, <1>10, <1>11, <1>12, PictureStep

\* done ends the request.
LEMMA DoneRefines ==
  ASSUME IInv, PhaseInv, Next, NEW r \in Requests, PublishDone(r)
  PROVE  [Lifecycle!Next]_(Lifecycle!vars)
<1> USE DEF IInv
<1>1. Publish(r, Event("done", None)) /\ judgePc[r] = "done" /\ UNCHANGED <<runPc, reqState>>
  BY DEF PublishDone, rowVars, entryVars
<1>2. /\ \A x \in Requests \ {r} : published'[x] = published[x]
      /\ \A t, w : Announced(r, t, w)' <=> Announced(r, t, w) \/ (t = "done" /\ w = None)
      /\ Heard(r)' = Heard(r) /\ Missed(r)' = Missed(r)
  BY <1>1, PublishAnnounces DEF EventTypes, ViewEvents
<1>3. \A q \in Requests : RowExists(q)' <=> RowExists(q)
  BY <1>1 DEF RowExists
<1>4. \A q \in Requests \ {r} : Picture(q)' = Picture(q)
  BY <1>2, <1>3, PictureKept
<1>5. Answered(r) \/ Unanswered(r)
  BY <1>1 DEF PhaseInv, Phased, PastVerdict, PastPersist
<1>6. ~ Announced(r, "done", None)
  <2>1. exPc[r] # "none"
    BY <1>1 DEF ControlInv, Ordered, PastViews
  <2>2. ~ DoneIn(published[r])
    BY <1>1, <2>1, NotDoneYet
  <2>3. QED
    BY <2>2, SaidDone, AnnouncedSaid
<1>7. /\ Announced(r, "done", None)'
      /\ Answered(r)' <=> Answered(r)
      /\ Unanswered(r)' <=> Unanswered(r)
  BY <1>2 DEF Answered, Unanswered
<1>8. PhaseOf(r) = "decided" /\ PhaseOf(r)' = "over"
  BY <1>5, <1>6, <1>7 DEF PhaseOf
<1>9. VerdictOf(r)' = VerdictOf(r)
  BY <1>2, <1>7 DEF VerdictOf
<1>10. QED
  BY <1>2, <1>4, <1>8, <1>9, PictureStep

LEMMA JudgeRefines ==
  ASSUME IInv, PhaseInv, Next, NEW r \in Requests, JudgeStep(r)
  PROVE  [Lifecycle!Next]_(Lifecycle!vars)
<1>1. UNCHANGED runPc
  BY JudgeFrame DEF IInv, entryVars
<1>2. ASSUME NEW type \in {"judge_started", "danger"}, Publish(r, Event(type, Judge))
      PROVE  [Lifecycle!Next]_(Lifecycle!vars)
  <2>1. /\ \A x \in Requests \ {r} : published'[x] = published[x]
        /\ \A t, w : SaidIn(published'[r], t, w) <=>
             SaidIn(published[r], t, w) \/ (t = type /\ w = Judge)
    BY <1>2, PublishAnnounces DEF EventTypes, ViewEvents, IInv
  <2>2. \A q \in Requests :
          \A t \in ViewEvents \cup {"judge_complete", "judge_failed", "done"} : \A w :
            SaidIn(published'[q], t, w) <=> SaidIn(published[q], t, w)
    BY <1>2, <2>1 DEF ViewEvents
  <2>3. QED
    BY <1>1, <2>2, QuietRefines
<1>3. CASE UNCHANGED published
  BY <1>1, <1>3, QuietRefines
<1>4. QED
  BY <1>2, <1>3, VerdictRefines, DoneRefines
     DEF JudgeStep, StartJudge, AnnounceJudge, CallJudge, AwaitViews, StoreJudge,
         PersistVerdict, ReloadRequest, FinishState, FinishTimings

LEMMA LifecycleStep ==
  IInv /\ PhaseInv /\ [Next]_vars => [Lifecycle!Next]_(Lifecycle!vars)
<1> SUFFICES ASSUME IInv, PhaseInv, [Next]_vars PROVE [Lifecycle!Next]_(Lifecycle!vars)
  OBVIOUS
<1>1. CASE Crash \/ UNCHANGED vars
  <2>1. UNCHANGED <<reqState, published>>
    BY <1>1 DEF Crash, vars, rowVars
  <2>2. \A q \in Requests : PhaseOf(q)' = PhaseOf(q) /\ Heard(q)' = Heard(q)
                            /\ Missed(q)' = Missed(q) /\ VerdictOf(q)' = VerdictOf(q)
    BY <2>1 DEF PhaseOf, VerdictOf, Heard, Missed, Answered, Unanswered, Announced, RowExists
  <2>3. QED
    BY <2>2 DEF Lifecycle!vars
<1>2. ASSUME NEW r \in Requests, NEW s \in Seats, Next,
             ViewsDeadline(r) \/ JudgeDeadline(r) \/ CallView(r, s)
      PROVE  [Lifecycle!Next]_(Lifecycle!vars)
  <2>1. UNCHANGED <<runPc, published>>
    BY <1>2 DEF ViewsDeadline, JudgeDeadline, CallView, entryVars
  <2>2. QED
    BY <1>2, <2>1, QuietRefines
<1>3. QED
  BY <1>1, <1>2, EntryRefines, CoordinatorRefines, JudgeRefines, ConstantsAssumption DEF Next

LEMMA LifecycleInit == Init => Lifecycle!Init
<1> SUFFICES ASSUME Init PROVE Lifecycle!Init
  OBVIOUS
<1>1. \A r \in Requests : ~ RowExists(r) /\ \A t, w : ~ Announced(r, t, w)
  BY EmptyHistory, AnnouncedSaid DEF Init, RowExists
<1>2. \A r \in Requests : /\ PhaseOf(r) = "none" /\ VerdictOf(r) = "none"
                          /\ Heard(r) = {} /\ Missed(r) = {}
  BY <1>1 DEF PhaseOf, VerdictOf, Heard, Missed, Answered, Unanswered
<1>3. QED
  BY <1>2 DEF Lifecycle!Init

\* The runner keeps the promise of RequestLifecycle: read off the published
\* events, every behaviour, with failing statements, supersedes and crashes,
\* hears or misses each seat once, decides when all are accounted for, and
\* changes nothing after done.
THEOREM RunnerImplementsLifecycle == Spec => ImplementsLifecycle
<1>1. Spec => [](IInv /\ PhaseInv)
  BY Invariant, PhaseInit, PhaseStep, PTL DEF Spec
<1>2. QED
  BY <1>1, LifecycleInit, LifecycleStep, PTL DEF Spec, ImplementsLifecycle, Lifecycle!Spec
=============================================================================
