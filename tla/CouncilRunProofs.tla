-------------------------- MODULE CouncilRunProofs --------------------------
(***************************************************************************)
(* Proofs about CouncilRun for every set of requests and seats and every   *)
(* bound on faults and crashes.                                            *)
(***************************************************************************)
EXTENDS CouncilRunRefinement, SequenceTheorems, TLAPS

\* The coordinator records a result only while it is still in the channel.
HoldsResult ==
  \A r \in Requests : exPc[r] \in {"received", "straggler"} => results[r] # <<>>

\* finishJudge runs with a verdict.
HoldsVerdict ==
  \A r \in Requests : judgePc[r] = "persist" => judgeOut[r] \in Verdicts

TypeInv == TypeOK /\ HoldsResult /\ HoldsVerdict

LEMMA TypeInit == Init => TypeInv
<1> SUFFICES ASSUME Init PROVE TypeInv
  OBVIOUS
<1>1. RowTypeOK
  BY ConstantsAssumption DEF Init, RowTypeOK, ReqStates, ViewStates, JudgeStates
<1>2. EntryTypeOK /\ CtxTypeOK
  BY DEF Init, EntryTypeOK, CtxTypeOK, RunPcs, CtxStates
<1>3. ExecTypeOK /\ HoldsResult
  BY DEF Init, ExecTypeOK, ExPcs, HoldsResult
<1>4. JudgeTypeOK /\ HoldsVerdict /\ HistoryTypeOK
  BY ConstantsAssumption DEF Init, JudgeTypeOK, HoldsVerdict, HistoryTypeOK, JudgePcs
<1>5. QED
  BY <1>1, <1>2, <1>3, <1>4 DEF TypeInv, TypeOK

\* A step keeps the types of the variables it leaves alone.
LEMMA TypesKept ==
  /\ RowTypeOK /\ UNCHANGED rowVars => RowTypeOK'
  /\ EntryTypeOK /\ UNCHANGED entryVars => EntryTypeOK'
  /\ CtxTypeOK /\ UNCHANGED ctxVars => CtxTypeOK'
  /\ ExecTypeOK /\ HoldsResult /\ UNCHANGED execVars => ExecTypeOK' /\ HoldsResult'
  /\ JudgeTypeOK /\ HoldsVerdict /\ UNCHANGED judgeVars => JudgeTypeOK' /\ HoldsVerdict'
  /\ HistoryTypeOK /\ UNCHANGED <<published, faults, crashes>> => HistoryTypeOK'
<1>1. RowTypeOK /\ UNCHANGED rowVars => RowTypeOK'
  BY DEF RowTypeOK, rowVars
<1>2. EntryTypeOK /\ UNCHANGED entryVars => EntryTypeOK'
  BY DEF EntryTypeOK, entryVars
<1>3. CtxTypeOK /\ UNCHANGED ctxVars => CtxTypeOK'
  BY DEF CtxTypeOK, ctxVars
<1>4. ExecTypeOK /\ HoldsResult /\ UNCHANGED execVars => ExecTypeOK' /\ HoldsResult'
  BY DEF ExecTypeOK, HoldsResult, execVars
<1>5. JudgeTypeOK /\ HoldsVerdict /\ UNCHANGED judgeVars => JudgeTypeOK' /\ HoldsVerdict'
  BY DEF JudgeTypeOK, HoldsVerdict, judgeVars
<1>6. HistoryTypeOK /\ UNCHANGED <<published, faults, crashes>> => HistoryTypeOK'
  BY DEF HistoryTypeOK
<1>7. QED
  BY <1>1, <1>2, <1>3, <1>4, <1>5, <1>6

\* A statement stays within the bound on faults.
LEMMA AttemptType ==
  ASSUME HistoryTypeOK, NEW ok \in BOOLEAN, Attempt(ok), UNCHANGED <<published, crashes>>
  PROVE  HistoryTypeOK'
  BY ConstantsAssumption DEF HistoryTypeOK, Attempt

LEMMA AttemptBothType ==
  ASSUME HistoryTypeOK, NEW one \in BOOLEAN, NEW two \in BOOLEAN, AttemptBoth(one, two)
  PROVE  /\ faults' \in 0..MaxFaults
         /\ faults' = 0 => faults = 0 /\ one /\ two
  BY ConstantsAssumption DEF HistoryTypeOK, AttemptBoth

\* Publishing keeps the history a sequence of events.
LEMMA PublishType ==
  ASSUME HistoryTypeOK, NEW r, NEW e \in Events, Publish(r, e),
         UNCHANGED <<faults, crashes>>
  PROVE  HistoryTypeOK'
<1>1. ASSUME NEW q \in Requests
      PROVE  published'[q] = IF q = r THEN Append(published[q], e) ELSE published[q]
  BY DEF HistoryTypeOK, Publish
<1>2. ASSUME NEW q \in Requests
      PROVE  published'[q] \in Seq(Events)
  <2>1. published[q] \in Seq(Events)
    BY DEF HistoryTypeOK
  <2>2. Append(published[q], e) \in Seq(Events)
    BY <2>1, AppendProperties
  <2>3. QED
    BY <1>1, <2>1, <2>2
<1>3. published' \in [Requests -> Seq(Events)]
  BY <1>2 DEF HistoryTypeOK, Publish
<1>4. QED
  BY <1>3 DEF HistoryTypeOK

LEMMA EventType ==
  ASSUME NEW type \in EventTypes, NEW who \in Seats \cup {Judge, None}
  PROVE  Event(type, who) \in Events
  BY DEF Event, Events

LEMMA EntryTypes ==
  ASSUME TypeInv, NEW r \in Requests, EntryStep(r)
  PROVE  TypeInv'
<1> USE DEF TypeInv, TypeOK
<1>1. CASE InsertRequest(r)
  <2>1. RowTypeOK'
    BY <1>1 DEF InsertRequest, RowTypeOK, ReqStates
  <2>2. EntryTypeOK'
    BY <1>1 DEF InsertRequest, EntryTypeOK, RunPcs
  <2>3. HistoryTypeOK'
    BY <1>1, AttemptType DEF InsertRequest
  <2>4. QED
    BY <1>1, <2>1, <2>2, <2>3, TypesKept DEF InsertRequest
<1>2. CASE InsertRows(r)
  <2>1. RowTypeOK'
    <3>1. viewRow' \in [Requests -> [Seats -> ViewStates]]
      BY <1>2 DEF InsertRows, RowTypeOK, ViewStates
    <3>2. judgeRow' \in [Requests -> [state : JudgeStates, included : SUBSET Seats]]
      BY <1>2 DEF InsertRows, RowTypeOK, JudgeStates
    <3>3. QED
      BY <1>2, <3>1, <3>2 DEF InsertRows, RowTypeOK
  <2>2. EntryTypeOK'
    BY <1>2 DEF InsertRows, EntryTypeOK, RunPcs
  <2>3. HistoryTypeOK'
    BY <1>2, AttemptType DEF InsertRows
  <2>4. QED
    BY <1>2, <2>1, <2>2, <2>3, TypesKept DEF InsertRows
<1>3. CASE SetSuperseded(r)
  <2>1. RowTypeOK'
    BY <1>3 DEF SetSuperseded, RowTypeOK, ReqStates
  <2>2. EntryTypeOK'
    BY <1>3 DEF SetSuperseded, EntryTypeOK, RunPcs
  <2>3. HistoryTypeOK'
    BY <1>3, AttemptType DEF SetSuperseded
  <2>4. QED
    BY <1>3, <2>1, <2>2, <2>3, TypesKept DEF SetSuperseded
<1>4. CASE CancelSuperseded(r)
  <2>1. EntryTypeOK'
    BY <1>4 DEF CancelSuperseded, EntryTypeOK, RunPcs
  <2>2. CtxTypeOK'
    BY <1>4 DEF CancelSuperseded, CtxTypeOK, ctxVars, CtxStates, EndCtx
  <2>3. QED
    BY <1>4, <2>1, <2>2, TypesKept DEF CancelSuperseded
<1>5. CASE AnnounceSuperseded(r)
  <2>1. EntryTypeOK'
    BY <1>5 DEF AnnounceSuperseded, EntryTypeOK, RunPcs
  <2>2. HistoryTypeOK'
    <3>1. Event("superseded", None) \in Events
      BY EventType DEF EventTypes
    <3>2. QED
      BY <1>5, <3>1, PublishType DEF AnnounceSuperseded
  <2>3. QED
    BY <1>5, <2>1, <2>2, TypesKept DEF AnnounceSuperseded
<1>6. CASE RegisterRun(r)
  <2>1. EntryTypeOK'
    BY <1>6 DEF RegisterRun, EntryTypeOK, RunPcs
  <2>2. ExecTypeOK' /\ HoldsResult'
    BY <1>6 DEF RegisterRun, ExecTypeOK, HoldsResult, ExPcs
  <2>3. QED
    BY <1>6, <2>1, <2>2, TypesKept DEF RegisterRun
<1>7. QED
  BY <1>1, <1>2, <1>3, <1>4, <1>5, <1>6 DEF EntryStep

\* recordView's statements keep the row types.
LEMMA PersistViewTypes ==
  ASSUME TypeInv, NEW r \in Requests, NEW late \in BOOLEAN,
         results[r] # <<>>, PersistView(r, late),
         UNCHANGED <<reqState, supersededBy, judgeRow, finished, published, crashes>>
  PROVE  RowTypeOK' /\ HistoryTypeOK'
<1> USE DEF TypeInv, TypeOK
<1>1. Head(results[r]) \in Results
  BY HeadTailProperties DEF ExecTypeOK
<1>2. PICK rowOk \in BOOLEAN, flagOk \in BOOLEAN :
        /\ AttemptBoth(rowOk, flagOk)
        /\ viewRow' = [viewRow EXCEPT ![r][Head(results[r]).seat] =
             IF rowOk THEN RecordedState(Head(results[r]).kind, late) ELSE @]
        /\ dangerFlag' = [dangerFlag EXCEPT ![r] =
             @ \/ (Head(results[r]).kind = "danger" /\ flagOk)]
  BY DEF PersistView
<1>3. RecordedState(Head(results[r]).kind, late) \in ViewStates
  BY DEF RecordedState, ViewStates
<1>4. viewRow' \in [Requests -> [Seats -> ViewStates]]
  BY <1>1, <1>2, <1>3 DEF RowTypeOK, Results
<1>5. dangerFlag' \in [Requests -> BOOLEAN]
  BY <1>2 DEF RowTypeOK
<1>6. HistoryTypeOK'
  BY <1>2, AttemptBothType DEF HistoryTypeOK
<1>7. QED
  BY <1>4, <1>5, <1>6 DEF RowTypeOK

\* recordView's events are events, whatever the outcome.
LEMMA AnnounceViewTypes ==
  ASSUME TypeInv, NEW r \in Requests, NEW late \in BOOLEAN,
         results[r] # <<>>, AnnounceView(r, late), UNCHANGED <<faults, crashes>>
  PROVE  HistoryTypeOK'
<1> DEFINE res    == Head(results[r])
           warned == IF res.kind = "danger"
                     THEN Append(published[r], Event("danger", res.seat))
                     ELSE published[r]
           told   == Append(warned, Event(RecordedEvent(res.kind, late), res.seat))
<1> USE DEF TypeInv, TypeOK
<1>1. res \in Results
  BY HeadTailProperties DEF ExecTypeOK
<1>2. Event("danger", res.seat) \in Events
  BY <1>1, EventType DEF EventTypes, Results
<1>3. Event(RecordedEvent(res.kind, late), res.seat) \in Events
  <2>1. RecordedEvent(res.kind, late) \in EventTypes
    BY DEF RecordedEvent, EventTypes
  <2>2. QED
    BY <1>1, <2>1, EventType DEF Results
<1>4. warned \in Seq(Events)
  BY <1>2, AppendProperties DEF HistoryTypeOK
<1>5. told \in Seq(Events)
  BY <1>3, <1>4, AppendProperties
<1>6. published' = [published EXCEPT ![r] = told]
  BY DEF AnnounceView
<1> HIDE DEF told
<1>7. published' \in [Requests -> Seq(Events)]
  BY <1>5, <1>6 DEF HistoryTypeOK
<1>8. QED
  BY <1>7 DEF HistoryTypeOK

LEMMA CoordinatorTypes ==
  ASSUME TypeInv, NEW r \in Requests, CoordinatorStep(r)
  PROVE  TypeInv'
<1> USE DEF TypeInv, TypeOK
<1>1. CASE StartViews(r)
  <2>1. RowTypeOK'
    BY <1>1 DEF StartViews, SetUnlessSuperseded, RowTypeOK, ReqStates
  <2>2. ExecTypeOK' /\ HoldsResult'
    BY <1>1 DEF StartViews, ExecTypeOK, ExPcs, HoldsResult
  <2>3. HistoryTypeOK'
    BY <1>1, AttemptType DEF StartViews
  <2>4. QED
    BY <1>1, <2>1, <2>2, <2>3, TypesKept DEF StartViews
<1>2. CASE ReceiveView(r)
  <2>1. RowTypeOK' /\ HistoryTypeOK'
    BY <1>2, PersistViewTypes DEF ReceiveView
  <2>2. ExecTypeOK' /\ HoldsResult'
    BY <1>2 DEF ReceiveView, ExecTypeOK, ExPcs, HoldsResult
  <2>3. QED
    BY <1>2, <2>1, <2>2, TypesKept DEF ReceiveView
<1>3. CASE IncludeView(r)
  <2>1. results[r] # <<>>
    BY <1>3 DEF IncludeView, HoldsResult
  <2>2. HistoryTypeOK'
    BY <1>3, <2>1, AnnounceViewTypes DEF IncludeView
  <2>3. Head(results[r]) \in Results /\ Tail(results[r]) \in Seq(Results)
    BY <2>1, HeadTailProperties DEF ExecTypeOK
  <2>4. ExecTypeOK' /\ HoldsResult'
    BY <1>3, <2>3 DEF IncludeView, ExecTypeOK, ExPcs, HoldsResult, Results
  <2>5. JudgeTypeOK' /\ HoldsVerdict'
    BY <1>3 DEF IncludeView, JudgeTypeOK, HoldsVerdict, JudgePcs
  <2>6. QED
    BY <1>3, <2>2, <2>4, <2>5, TypesKept DEF IncludeView
<1>4. CASE TriggerJudge(r)
  <2>1. ExecTypeOK' /\ HoldsResult'
    BY <1>4 DEF TriggerJudge, ExecTypeOK, ExPcs, HoldsResult
  <2>2. JudgeTypeOK' /\ HoldsVerdict'
    BY <1>4 DEF TriggerJudge, JudgeTypeOK, HoldsVerdict, JudgePcs
  <2>3. QED
    BY <1>4, <2>1, <2>2, TypesKept DEF TriggerJudge
<1>5. CASE DrainView(r)
  <2>1. RowTypeOK' /\ HistoryTypeOK'
    BY <1>5, PersistViewTypes DEF DrainView
  <2>2. ExecTypeOK' /\ HoldsResult'
    BY <1>5 DEF DrainView, ExecTypeOK, ExPcs, HoldsResult
  <2>3. QED
    BY <1>5, <2>1, <2>2, TypesKept DEF DrainView
<1>6. CASE AnnounceStraggler(r)
  <2>1. results[r] # <<>>
    BY <1>6 DEF AnnounceStraggler, HoldsResult
  <2>2. HistoryTypeOK'
    BY <1>6, <2>1, AnnounceViewTypes DEF AnnounceStraggler
  <2>3. Tail(results[r]) \in Seq(Results)
    BY <2>1, HeadTailProperties DEF ExecTypeOK
  <2>4. ExecTypeOK' /\ HoldsResult'
    BY <1>6, <2>3 DEF AnnounceStraggler, ExecTypeOK, ExPcs, HoldsResult
  <2>5. QED
    BY <1>6, <2>2, <2>4, TypesKept DEF AnnounceStraggler
<1>7. CASE ViewsDrained(r)
  <2>1. ExecTypeOK' /\ HoldsResult'
    BY <1>7 DEF ViewsDrained, ExecTypeOK, ExPcs, HoldsResult
  <2>2. QED
    BY <1>7, <2>1, TypesKept DEF ViewsDrained
<1>8. QED
  BY <1>1, <1>2, <1>3, <1>4, <1>5, <1>6, <1>7 DEF CoordinatorStep

LEMMA JudgeTypes ==
  ASSUME TypeInv, NEW r \in Requests, JudgeStep(r)
  PROVE  TypeInv'
<1> USE DEF TypeInv, TypeOK
<1>1. CASE StartJudge(r)
  <2>1. RowTypeOK'
    BY <1>1 DEF StartJudge, RowTypeOK, ReqStates
  <2>2. JudgeTypeOK' /\ HoldsVerdict'
    BY <1>1 DEF StartJudge, JudgeTypeOK, HoldsVerdict, JudgePcs
  <2>3. HistoryTypeOK'
    BY <1>1, AttemptType DEF StartJudge
  <2>4. QED
    BY <1>1, <2>1, <2>2, <2>3, TypesKept DEF StartJudge
<1>2. CASE AnnounceJudge(r)
  <2>1. JudgeTypeOK' /\ HoldsVerdict'
    BY <1>2 DEF AnnounceJudge, JudgeTypeOK, HoldsVerdict, JudgePcs
  <2>2. HistoryTypeOK'
    <3>1. Event("judge_started", Judge) \in Events
      BY EventType DEF EventTypes
    <3>2. QED
      BY <1>2, <3>1, PublishType DEF AnnounceJudge
  <2>3. QED
    BY <1>2, <2>1, <2>2, TypesKept DEF AnnounceJudge
<1>3. CASE CallJudge(r)
  <2>1. JudgeTypeOK' /\ HoldsVerdict'
    BY <1>3, ConstantsAssumption DEF CallJudge, JudgeTypeOK, HoldsVerdict, JudgePcs
  <2>2. QED
    BY <1>3, <2>1, TypesKept DEF CallJudge
<1>4. CASE AwaitViews(r)
  <2>1. RowTypeOK'
    BY <1>4 DEF AwaitViews, RowTypeOK
  <2>2. JudgeTypeOK' /\ HoldsVerdict'
    BY <1>4 DEF AwaitViews, JudgeTypeOK, HoldsVerdict, JudgePcs
  <2>3. HistoryTypeOK'
    BY <1>4, AttemptType DEF AwaitViews
  <2>4. QED
    BY <1>4, <2>1, <2>2, <2>3, TypesKept DEF AwaitViews
<1>5. CASE StoreJudge(r)
  <2>1. JudgeTypeOK' /\ HoldsVerdict'
    BY <1>5 DEF StoreJudge, JudgeTypeOK, HoldsVerdict, JudgePcs, Verdicts
  <2>2. HistoryTypeOK'
    <3>1. faults' \in 0..MaxFaults /\ crashes' \in 0..MaxCrashes
      BY <1>5, ConstantsAssumption DEF StoreJudge, Attempt, HistoryTypeOK
    <3>2. Event("danger", Judge) \in Events
      BY EventType DEF EventTypes
    <3>3. Append(published[r], Event("danger", Judge)) \in Seq(Events)
      BY <3>2, AppendProperties DEF HistoryTypeOK
    <3>4. published' \in [Requests -> Seq(Events)]
      BY <1>5, <3>3 DEF StoreJudge, Publish, HistoryTypeOK
    <3>5. QED
      BY <3>1, <3>4 DEF HistoryTypeOK
  <2>3. QED
    BY <1>5, <2>1, <2>2, TypesKept DEF StoreJudge
<1>6. CASE PersistVerdict(r)
  <2>1. RowTypeOK'
    <3>1. PICK ok \in BOOLEAN : judgeRow' = [judgeRow EXCEPT ![r] =
            IF ok THEN [state |-> judgeOut[r], included |-> included[r]] ELSE @]
      BY <1>6 DEF PersistVerdict
    <3>2. judgeOut[r] \in Verdicts
        BY <1>6 DEF PersistVerdict, HoldsVerdict
    <3>3. [state |-> judgeOut[r], included |-> included[r]]
            \in [state : JudgeStates, included : SUBSET Seats]
      BY <3>2 DEF ExecTypeOK, JudgeStates, Verdicts
    <3>4. QED
      BY <1>6, <3>1, <3>3 DEF PersistVerdict, RowTypeOK
  <2>2. JudgeTypeOK' /\ HoldsVerdict'
    BY <1>6 DEF PersistVerdict, JudgeTypeOK, HoldsVerdict, JudgePcs
  <2>3. HistoryTypeOK'
    BY <1>6, AttemptType DEF PersistVerdict
  <2>4. QED
    BY <1>6, <2>1, <2>2, <2>3, TypesKept DEF PersistVerdict
<1>7. CASE AnnounceVerdict(r)
  <2>1. JudgeTypeOK' /\ HoldsVerdict'
    BY <1>7 DEF AnnounceVerdict, JudgeTypeOK, HoldsVerdict, JudgePcs
  <2>2. HistoryTypeOK'
    <3> DEFINE type == IF judgeOut[r] = "complete" THEN "judge_complete" ELSE "judge_failed"
    <3>1. Event(type, Judge) \in Events
      BY EventType DEF EventTypes
    <3>2. QED
      BY <1>7, <3>1, PublishType DEF AnnounceVerdict
  <2>3. QED
    BY <1>7, <2>1, <2>2, TypesKept DEF AnnounceVerdict
<1>8. CASE ReloadRequest(r)
  <2>1. JudgeTypeOK' /\ HoldsVerdict'
    BY <1>8 DEF ReloadRequest, JudgeTypeOK, HoldsVerdict, JudgePcs
  <2>2. HistoryTypeOK'
    BY <1>8, AttemptType DEF ReloadRequest
  <2>3. QED
    BY <1>8, <2>1, <2>2, TypesKept DEF ReloadRequest
<1>9. CASE FinishState(r)
  <2>1. RowTypeOK'
    BY <1>9 DEF FinishState, SetUnlessSuperseded, FinalState, RowTypeOK, ReqStates
  <2>2. JudgeTypeOK' /\ HoldsVerdict'
    BY <1>9 DEF FinishState, JudgeTypeOK, HoldsVerdict, JudgePcs
  <2>3. HistoryTypeOK'
    BY <1>9, AttemptType DEF FinishState
  <2>4. QED
    BY <1>9, <2>1, <2>2, <2>3, TypesKept DEF FinishState
<1>10. CASE FinishTimings(r)
  <2>1. RowTypeOK'
    BY <1>10 DEF FinishTimings, RowTypeOK
  <2>2. JudgeTypeOK' /\ HoldsVerdict'
    BY <1>10 DEF FinishTimings, JudgeTypeOK, HoldsVerdict, JudgePcs
  <2>3. HistoryTypeOK'
    BY <1>10, AttemptType DEF FinishTimings
  <2>4. QED
    BY <1>10, <2>1, <2>2, <2>3, TypesKept DEF FinishTimings
<1>11. CASE PublishDone(r)
  <2>1. JudgeTypeOK' /\ HoldsVerdict'
    BY <1>11 DEF PublishDone, JudgeTypeOK, HoldsVerdict, JudgePcs
  <2>2. HistoryTypeOK'
    <3>1. Event("done", None) \in Events
      BY EventType DEF EventTypes
    <3>2. QED
      BY <1>11, <3>1, PublishType DEF PublishDone
  <2>3. QED
    BY <1>11, <2>1, <2>2, TypesKept DEF PublishDone
<1>12. QED
  BY <1>1, <1>2, <1>3, <1>4, <1>5, <1>6, <1>7, <1>8, <1>9, <1>10, <1>11 DEF JudgeStep

\* The deadlines, the view calls and a crash.
LEMMA EnvironmentTypes ==
  ASSUME TypeInv,
         \/ Crash
         \/ \E r \in Requests : \/ ViewsDeadline(r) \/ JudgeDeadline(r)
                                \/ \E s \in Seats : CallView(r, s)
  PROVE  TypeInv'
<1> USE DEF TypeInv, TypeOK
<1>1. ASSUME NEW r \in Requests, ViewsDeadline(r)
      PROVE  TypeInv'
  <2>1. CtxTypeOK'
    BY <1>1 DEF ViewsDeadline, CtxTypeOK, CtxStates
  <2>2. QED
    BY <1>1, <2>1, TypesKept DEF ViewsDeadline
<1>2. ASSUME NEW r \in Requests, JudgeDeadline(r)
      PROVE  TypeInv'
  <2>1. CtxTypeOK'
    BY <1>2 DEF JudgeDeadline, CtxTypeOK, CtxStates
  <2>2. QED
    BY <1>2, <2>1, TypesKept DEF JudgeDeadline
<1>3. ASSUME NEW r \in Requests, NEW s \in Seats, CallView(r, s)
      PROVE  TypeInv'
  <2>1. PICK kind \in ViewOutcomes :
          results' = [results EXCEPT ![r] = Append(@, [seat |-> s, kind |-> kind])]
    BY <1>3 DEF CallView
  <2>2. [seat |-> s, kind |-> kind] \in Results
    BY ConstantsAssumption DEF Results
  <2>3. Append(results[r], [seat |-> s, kind |-> kind]) \in Seq(Results) \ {<<>>}
    BY <2>2, AppendProperties DEF ExecTypeOK
  <2>4. ExecTypeOK' /\ HoldsResult'
    BY <1>3, <2>1, <2>3 DEF CallView, ExecTypeOK, HoldsResult
  <2>5. QED
    BY <1>3, <2>4, TypesKept DEF CallView
<1>4. CASE Crash
  <2>1. RowTypeOK'
    BY <1>4, TypesKept DEF Crash
  <2>2. EntryTypeOK' /\ CtxTypeOK'
    BY <1>4 DEF Crash, EntryTypeOK, CtxTypeOK, RunPcs, CtxStates
  <2>3. ExecTypeOK' /\ HoldsResult'
    BY <1>4 DEF Crash, ExecTypeOK, HoldsResult, ExPcs
  <2>4. JudgeTypeOK' /\ HoldsVerdict'
    BY <1>4 DEF Crash, JudgeTypeOK, HoldsVerdict, JudgePcs
  <2>5. HistoryTypeOK'
    BY <1>4, ConstantsAssumption DEF Crash, HistoryTypeOK
  <2>6. QED
    BY <2>1, <2>2, <2>3, <2>4, <2>5
<1>5. QED
  BY <1>1, <1>2, <1>3, <1>4

LEMMA TypeStep == TypeInv /\ [Next]_vars => TypeInv'
<1> SUFFICES ASSUME TypeInv, [Next]_vars PROVE TypeInv'
  OBVIOUS
<1>1. CASE UNCHANGED vars
  BY <1>1, TypesKept DEF TypeInv, TypeOK, vars
<1>2. CASE Next
  BY <1>2, EntryTypes, CoordinatorTypes, JudgeTypes, EnvironmentTypes DEF Next
<1>3. QED
  BY <1>1, <1>2

\* Every variable keeps its type: the rows, goroutines, contexts, channel and
\* events of every set of requests stay well formed whatever fails.
THEOREM TypeCorrect == Spec => []TypeOK
<1>1. Spec => []TypeInv
  BY TypeInit, TypeStep, PTL DEF Spec
<1>2. TypeInv => TypeOK
  BY DEF TypeInv
<1>3. QED
  BY <1>1, <1>2, PTL

-----------------------------------------------------------------------------
(* The order of the goroutines of one run.                                 *)

\* The judge goroutine is past <-viewsDone.
PastViews == {"store", "persist", "verdict", "reload", "state", "timings",
              "done", "exit", "lost"}

\* Only a detached run has goroutines; the judge starts when the select loop
\* is left; it passes <-viewsDone when nothing is left to deliver or record.
Ordered(r) ==
  /\ runPc[r] # "returned" => exPc[r] = "none"
  /\ exPc[r] \in {"none", "start", "select", "received"} => judgePc[r] = "none"
  /\ exPc[r] \in {"none", "start", "drained"} => calling[r] = {} /\ results[r] = <<>>
  /\ judgePc[r] \in PastViews => exPc[r] = "drained"
  /\ exPc[r] = "none" => included[r] = {}

ControlInv == \A r \in Requests : Ordered(r)

LEMMA ControlInit == Init => ControlInv
<1> SUFFICES ASSUME Init, NEW r \in Requests PROVE Ordered(r)
  BY DEF ControlInv
<1>1. runPc[r] = "idle" /\ exPc[r] = "none" /\ judgePc[r] = "none"
  BY DEF Init
<1>2. calling[r] = {} /\ results[r] = <<>> /\ included[r] = {}
  BY DEF Init
<1>3. QED
  BY <1>1, <1>2 DEF Ordered, PastViews

\* What Ordered says depends on five variables only.
LEMMA ControlKept ==
  ControlInv /\ UNCHANGED <<runPc, exPc, calling, results, included, judgePc>>
    => ControlInv'
  BY DEF ControlInv, Ordered

LEMMA ControlStep == TypeInv /\ ControlInv /\ [Next]_vars => ControlInv'
<1> SUFFICES ASSUME TypeInv, ControlInv, [Next]_vars PROVE ControlInv'
  OBVIOUS
<1> USE DEF TypeInv, TypeOK, entryVars, ctxVars, execVars, judgeVars
<1>1. ASSUME NEW r \in Requests, EntryStep(r)
      PROVE  ControlInv'
  <2> USE DEF EntryTypeOK, ControlInv, Ordered
  <2>1. CASE InsertRequest(r)
    BY <2>1 DEF InsertRequest
  <2>2. CASE InsertRows(r)
    BY <2>2 DEF InsertRows
  <2>3. CASE SetSuperseded(r)
    BY <2>3 DEF SetSuperseded
  <2>4. CASE CancelSuperseded(r)
    BY <2>4 DEF CancelSuperseded
  <2>5. CASE AnnounceSuperseded(r)
    BY <2>5 DEF AnnounceSuperseded
  <2>6. CASE RegisterRun(r)
    BY <2>6 DEF RegisterRun, ExecTypeOK
  <2>7. QED
    BY <1>1, <2>1, <2>2, <2>3, <2>4, <2>5, <2>6 DEF EntryStep
<1>2. ASSUME NEW r \in Requests, CoordinatorStep(r)
      PROVE  ControlInv'
  <2> USE DEF ExecTypeOK, JudgeTypeOK, ControlInv, Ordered, PastViews
  <2>1. CASE StartViews(r)
    BY <2>1 DEF StartViews
  <2>2. CASE ReceiveView(r)
    BY <2>2 DEF ReceiveView
  <2>3. CASE IncludeView(r)
    BY <2>3 DEF IncludeView
  <2>4. CASE TriggerJudge(r)
    BY <2>4 DEF TriggerJudge
  <2>5. CASE DrainView(r)
    BY <2>5 DEF DrainView
  <2>6. CASE AnnounceStraggler(r)
    BY <2>6 DEF AnnounceStraggler
  <2>7. CASE ViewsDrained(r)
    BY <2>7 DEF ViewsDrained, AllDelivered
  <2>8. QED
    BY <1>2, <2>1, <2>2, <2>3, <2>4, <2>5, <2>6, <2>7 DEF CoordinatorStep
<1>3. ASSUME NEW r \in Requests, JudgeStep(r)
      PROVE  ControlInv'
  <2> USE DEF JudgeTypeOK, ControlInv, Ordered, PastViews
  <2>1. CASE StartJudge(r)
    BY <2>1 DEF StartJudge
  <2>2. CASE AnnounceJudge(r)
    BY <2>2 DEF AnnounceJudge
  <2>3. CASE CallJudge(r)
    BY <2>3 DEF CallJudge
  <2>4. CASE AwaitViews(r)
    BY <2>4 DEF AwaitViews, ViewsDone
  <2>5. CASE StoreJudge(r)
    BY <2>5 DEF StoreJudge
  <2>6. CASE PersistVerdict(r)
    BY <2>6 DEF PersistVerdict
  <2>7. CASE AnnounceVerdict(r)
    BY <2>7 DEF AnnounceVerdict
  <2>8. CASE ReloadRequest(r)
    BY <2>8 DEF ReloadRequest
  <2>9. CASE FinishState(r)
    BY <2>9 DEF FinishState
  <2>10. CASE FinishTimings(r)
    BY <2>10 DEF FinishTimings
  <2>11. CASE PublishDone(r)
    BY <2>11 DEF PublishDone
  <2>12. QED
    BY <1>3, <2>1, <2>2, <2>3, <2>4, <2>5, <2>6, <2>7, <2>8, <2>9, <2>10, <2>11 DEF JudgeStep
<1>4. ASSUME NEW r \in Requests, ViewsDeadline(r) \/ JudgeDeadline(r)
      PROVE  ControlInv'
  BY <1>4, ControlKept DEF ViewsDeadline, JudgeDeadline
<1>5. ASSUME NEW r \in Requests, NEW s \in Seats, CallView(r, s)
      PROVE  ControlInv'
  BY <1>5 DEF CallView, ExecTypeOK, ControlInv, Ordered
<1>6. CASE Crash
  BY <1>6 DEF Crash, ControlInv, Ordered, PastViews
<1>7. CASE UNCHANGED vars
  BY <1>7, ControlKept DEF vars
<1>8. QED
  BY <1>1, <1>2, <1>3, <1>4, <1>5, <1>6, <1>7 DEF Next

\* From the judge's start on, no write of any goroutine of any run takes a
\* superseded request back: running_views and running_judge are written
\* before, the final state through the guarded update, and rows are inserted
\* under a fresh id.
LEMMA SupersedeStep ==
  ASSUME TypeInv, ControlInv, [Next]_vars, NEW r \in Requests,
         reqState[r] = "superseded", judgePc[r] \notin {"none", "start"}
  PROVE  reqState'[r] = "superseded"
<1> USE DEF TypeInv, TypeOK, RowTypeOK, rowVars
<1>1. runPc[r] = "returned"
  BY DEF ControlInv, Ordered
<1>2. ASSUME NEW q \in Requests, EntryStep(q)
      PROVE  reqState'[r] = "superseded"
  BY <1>1, <1>2 DEF EntryStep, InsertRequest, InsertRows, SetSuperseded,
                    CancelSuperseded, AnnounceSuperseded, RegisterRun
<1>3. ASSUME NEW q \in Requests, CoordinatorStep(q)
      PROVE  reqState'[r] = "superseded"
  BY <1>3 DEF CoordinatorStep, StartViews, SetUnlessSuperseded, ReceiveView,
              IncludeView, TriggerJudge, DrainView, AnnounceStraggler, ViewsDrained
<1>4. ASSUME NEW q \in Requests, JudgeStep(q)
      PROVE  reqState'[r] = "superseded"
  BY <1>4 DEF JudgeStep, StartJudge, AnnounceJudge, CallJudge, AwaitViews,
              StoreJudge, PersistVerdict, AnnounceVerdict, ReloadRequest,
              FinishState, SetUnlessSuperseded, FinishTimings, PublishDone
<1>5. ASSUME NEW q \in Requests, NEW s \in Seats,
             ViewsDeadline(q) \/ JudgeDeadline(q) \/ CallView(q, s)
      PROVE  reqState'[r] = "superseded"
  BY <1>5 DEF ViewsDeadline, JudgeDeadline, CallView
<1>6. CASE Crash
  BY <1>6 DEF Crash
<1>7. CASE UNCHANGED vars
  BY <1>7 DEF vars
<1>8. QED
  BY <1>2, <1>3, <1>4, <1>5, <1>6, <1>7, ConstantsAssumption DEF Next

LEMMA Control == Spec => [](TypeInv /\ ControlInv)
  BY TypeInit, TypeStep, ControlInit, ControlStep, PTL DEF Spec

\* Once the judge has started, a supersede that reached the row stays.
THEOREM SupersedeStays == Spec => SupersedeOutlivesJudge
<1>1. TypeInv /\ ControlInv /\ [Next]_vars =>
        [\A r \in Requests :
           reqState[r] = "superseded" /\ judgePc[r] \notin {"none", "start"}
             => reqState'[r] = "superseded"]_vars
  BY SupersedeStep
<1>2. QED
  BY <1>1, Control, PTL DEF Spec, SupersedeOutlivesJudge

-----------------------------------------------------------------------------
(***************************************************************************)
(* What the events and the stored outcomes of a run say, for every set of  *)
(* requests and seats: each view is accounted for exactly once, done comes *)
(* last, and the verdict names the views that were announced as complete.  *)
(***************************************************************************)

\* Readings of one history of events p.
ToldIn(p, s)      == \E i \in 1..Len(p) : IsViewEvent(p[i], s)
CompletedIn(p, s) == \E i \in 1..Len(p) : p[i] = Event("view_complete", s)
DoneIn(p)         == \E i \in 1..Len(p) : p[i].type = "done"
OnceIn(p) == \A i, j \in 1..Len(p) : \A s \in Seats :
               IsViewEvent(p[i], s) /\ IsViewEvent(p[j], s) => i = j
DoneLastIn(p) ==
  \A i \in 1..Len(p) :
    p[i].type = "done" =>
      /\ \A s \in Seats : \E j \in 1..(i - 1) : IsViewEvent(p[j], s)
      /\ \A j \in (i + 1)..Len(p) : p[j].type = "superseded"

\* One more event changes each reading as expected.
LEMMA AppendTold ==
  ASSUME NEW p \in Seq(Events), NEW e \in Events, NEW s
  PROVE  ToldIn(Append(p, e), s) <=> ToldIn(p, s) \/ IsViewEvent(e, s)
<1> DEFINE q == Append(p, e)
<1>1. Len(q) = Len(p) + 1 /\ q[Len(p) + 1] = e /\ \A i \in 1..Len(p) : q[i] = p[i]
  BY AppendProperties
<1>2. Len(p) \in Nat
  BY LenProperties
<1> HIDE DEF q
<1>3. ToldIn(q, s) <=> ToldIn(p, s) \/ IsViewEvent(e, s)
  BY <1>1, <1>2 DEF ToldIn
<1>4. QED
  BY <1>3 DEF q

LEMMA AppendCompleted ==
  ASSUME NEW p \in Seq(Events), NEW e \in Events, NEW s
  PROVE  CompletedIn(Append(p, e), s) <=> CompletedIn(p, s) \/ e = Event("view_complete", s)
<1> DEFINE q == Append(p, e)
<1>1. Len(q) = Len(p) + 1 /\ q[Len(p) + 1] = e /\ \A i \in 1..Len(p) : q[i] = p[i]
  BY AppendProperties
<1>2. Len(p) \in Nat
  BY LenProperties
<1> HIDE DEF q
<1>3. CompletedIn(q, s) <=> CompletedIn(p, s) \/ e = Event("view_complete", s)
  BY <1>1, <1>2 DEF CompletedIn
<1>4. QED
  BY <1>3 DEF q

LEMMA AppendDone ==
  ASSUME NEW p \in Seq(Events), NEW e \in Events
  PROVE  DoneIn(Append(p, e)) <=> DoneIn(p) \/ e.type = "done"
<1> DEFINE q == Append(p, e)
<1>1. Len(q) = Len(p) + 1 /\ q[Len(p) + 1] = e /\ \A i \in 1..Len(p) : q[i] = p[i]
  BY AppendProperties
<1>2. Len(p) \in Nat
  BY LenProperties
<1> HIDE DEF q
<1>3. DoneIn(q) <=> DoneIn(p) \/ e.type = "done"
  BY <1>1, <1>2 DEF DoneIn
<1>4. QED
  BY <1>3 DEF q

\* A view not told yet may be told; done may follow all views; a supersede
\* notice may follow done.
LEMMA AppendOnce ==
  ASSUME NEW p \in Seq(Events), NEW e \in Events, OnceIn(p),
         \A s \in Seats : IsViewEvent(e, s) => ~ ToldIn(p, s)
  PROVE  OnceIn(Append(p, e))
<1> DEFINE q == Append(p, e)
<1>1. Len(q) = Len(p) + 1 /\ q[Len(p) + 1] = e /\ \A i \in 1..Len(p) : q[i] = p[i]
  BY AppendProperties
<1>2. Len(p) \in Nat
  BY LenProperties
<1> HIDE DEF q
<1>3. OnceIn(q)
  BY <1>1, <1>2 DEF OnceIn, ToldIn
<1>4. QED
  BY <1>3 DEF q

LEMMA AppendDoneLast ==
  ASSUME NEW p \in Seq(Events), NEW e \in Events, DoneLastIn(p),
         DoneIn(p) => e.type = "superseded",
         e.type = "done" => \A s \in Seats : ToldIn(p, s)
  PROVE  DoneLastIn(Append(p, e))
<1> DEFINE q == Append(p, e)
<1>1. Len(q) = Len(p) + 1 /\ q[Len(p) + 1] = e /\ \A i \in 1..Len(p) : q[i] = p[i]
  BY AppendProperties
<1>2. Len(p) \in Nat
  BY LenProperties
<1> HIDE DEF q
<1>3. ASSUME NEW i \in 1..Len(q), q[i].type = "done", NEW s \in Seats
      PROVE  \E j \in 1..(i - 1) : IsViewEvent(q[j], s)
  <2>1. CASE i \in 1..Len(p)
    <3>1. PICK j \in 1..(i - 1) : IsViewEvent(p[j], s)
      BY <1>1, <1>3, <2>1 DEF DoneLastIn
    <3>2. QED
      BY <1>1, <1>2, <2>1, <3>1
  <2>2. CASE i = Len(p) + 1
    <3>1. PICK j \in 1..Len(p) : IsViewEvent(p[j], s)
      BY <1>1, <1>3, <2>2 DEF ToldIn
    <3>2. QED
      BY <1>1, <1>2, <2>2, <3>1
  <2>3. QED
    BY <1>1, <1>2, <2>1, <2>2
<1>4. ASSUME NEW i \in 1..Len(q), q[i].type = "done", NEW j \in (i + 1)..Len(q)
      PROVE  q[j].type = "superseded"
  <2>1. i \in 1..Len(p) /\ p[i].type = "done"
    BY <1>1, <1>2, <1>4
  <2>2. CASE j \in 1..Len(p)
    BY <1>1, <1>2, <2>1, <2>2 DEF DoneLastIn
  <2>3. CASE j = Len(p) + 1
    BY <1>1, <2>1, <2>3 DEF DoneIn
  <2>4. QED
    BY <1>1, <1>2, <2>2, <2>3
<1>5. DoneLastIn(q)
  BY <1>3, <1>4 DEF DoneLastIn
<1>6. QED
  BY <1>5 DEF q

-----------------------------------------------------------------------------
\* Readings of one channel c of results.
HasSeat(c, s)    == \E i \in 1..Len(c) : c[i].seat = s
DistinctSeats(c) == \A i, j \in 1..Len(c) : c[i].seat = c[j].seat => i = j

LEMMA DeliverSeat ==
  ASSUME NEW c \in Seq(Results), NEW x \in Results,
         DistinctSeats(c), ~ HasSeat(c, x.seat)
  PROVE  /\ DistinctSeats(Append(c, x))
         /\ \A s : HasSeat(Append(c, x), s) <=> HasSeat(c, s) \/ s = x.seat
<1> DEFINE d == Append(c, x)
<1>1. Len(d) = Len(c) + 1 /\ d[Len(c) + 1] = x /\ \A i \in 1..Len(c) : d[i] = c[i]
  BY AppendProperties
<1>2. Len(c) \in Nat
  BY LenProperties
<1> HIDE DEF d
<1>3. DistinctSeats(d)
  BY <1>1, <1>2 DEF DistinctSeats, HasSeat
<1>4. ASSUME NEW s PROVE HasSeat(d, s) <=> HasSeat(c, s) \/ s = x.seat
  BY <1>1, <1>2 DEF HasSeat
<1>5. QED
  BY <1>3, <1>4 DEF d

LEMMA ReceiveSeat ==
  ASSUME NEW c \in Seq(Results), c # <<>>, DistinctSeats(c)
  PROVE  /\ HasSeat(c, Head(c).seat)
         /\ DistinctSeats(Tail(c))
         /\ \A s : HasSeat(Tail(c), s) <=> HasSeat(c, s) /\ s # Head(c).seat
<1> DEFINE d == Tail(c)
<1>1. /\ Len(c) \in Nat \ {0} /\ Head(c) = c[1]
      /\ Len(d) = Len(c) - 1 /\ \A i \in 1..Len(d) : d[i] = c[i + 1]
  BY HeadTailProperties, LenProperties, EmptySeq
<1> HIDE DEF d
<1>2. HasSeat(c, Head(c).seat)
  BY <1>1 DEF HasSeat
<1>3. DistinctSeats(d)
  BY <1>1 DEF DistinctSeats
<1>4. ASSUME NEW s, HasSeat(d, s) PROVE HasSeat(c, s) /\ s # Head(c).seat
  <2>1. PICK i \in 1..Len(d) : d[i].seat = s
    BY <1>4 DEF HasSeat
  <2>2. i + 1 \in 1..Len(c) /\ c[i + 1].seat = s /\ 1 \in 1..Len(c) /\ i + 1 # 1
    BY <1>1, <2>1
  <2>3. QED
    BY <1>1, <2>2 DEF HasSeat, DistinctSeats
<1>5. ASSUME NEW s, HasSeat(c, s), s # Head(c).seat PROVE HasSeat(d, s)
  <2>1. PICK i \in 1..Len(c) : c[i].seat = s
    BY <1>5 DEF HasSeat
  <2>2. i - 1 \in 1..Len(d) /\ d[i - 1] = c[i]
    BY <1>1, <1>5, <2>1
  <2>3. QED
    BY <2>1, <2>2 DEF HasSeat
<1>6. QED
  BY <1>2, <1>3, <1>4, <1>5 DEF d

-----------------------------------------------------------------------------
\* What the actions that publish add to the history of their request.
LEMMA PublishTells ==
  ASSUME TypeInv, NEW r \in Requests, NEW e \in Events, Publish(r, e),
         e.type \notin ViewEvents
  PROVE  /\ \A x \in Requests \ {r} : published'[x] = published[x]
         /\ \A s \in Seats : ToldIn(published'[r], s) <=> ToldIn(published[r], s)
         /\ \A s \in Seats : CompletedIn(published'[r], s) <=> CompletedIn(published[r], s)
         /\ DoneIn(published'[r]) <=> DoneIn(published[r]) \/ e.type = "done"
         /\ OnceIn(published[r]) => OnceIn(published'[r])
         /\ /\ DoneLastIn(published[r])
            /\ DoneIn(published[r]) => e.type = "superseded"
            /\ e.type = "done" => \A s \in Seats : ToldIn(published[r], s)
            => DoneLastIn(published'[r])
<1>1. published'[r] = Append(published[r], e) /\ published[r] \in Seq(Events)
  BY DEF TypeInv, TypeOK, HistoryTypeOK, Publish
<1>2. \A s : ~ IsViewEvent(e, s) /\ e # Event("view_complete", s)
  BY DEF IsViewEvent, Event, ViewEvents
<1>3. \A x \in Requests \ {r} : published'[x] = published[x]
  BY DEF TypeInv, TypeOK, HistoryTypeOK, Publish
<1>4. \A s \in Seats : ToldIn(published'[r], s) <=> ToldIn(published[r], s)
  BY <1>1, <1>2, AppendTold
<1>5. \A s \in Seats : CompletedIn(published'[r], s) <=> CompletedIn(published[r], s)
  BY <1>1, <1>2, AppendCompleted
<1>6. DoneIn(published'[r]) <=> DoneIn(published[r]) \/ e.type = "done"
  BY <1>1, AppendDone
<1>7. OnceIn(published[r]) => OnceIn(published'[r])
  BY <1>1, <1>2, AppendOnce
<1>8. /\ DoneLastIn(published[r])
      /\ DoneIn(published[r]) => e.type = "superseded"
      /\ e.type = "done" => \A s \in Seats : ToldIn(published[r], s)
      => DoneLastIn(published'[r])
  BY <1>1, AppendDoneLast
<1>9. QED
  BY <1>3, <1>4, <1>5, <1>6, <1>7, <1>8

LEMMA AnnounceViewTells ==
  ASSUME TypeInv, NEW r \in Requests, NEW late \in BOOLEAN,
         results[r] # <<>>, AnnounceView(r, late)
  PROVE  LET s == Head(results[r]).seat IN
         /\ \A x \in Requests \ {r} : published'[x] = published[x]
         /\ \A t \in Seats : ToldIn(published'[r], t) <=> ToldIn(published[r], t) \/ t = s
         /\ \A t \in Seats : CompletedIn(published'[r], t) <=>
              \/ CompletedIn(published[r], t)
              \/ t = s /\ ~late /\ Head(results[r]).kind \in Usable
         /\ DoneIn(published'[r]) <=> DoneIn(published[r])
         /\ OnceIn(published[r]) /\ ~ ToldIn(published[r], s) => OnceIn(published'[r])
         /\ DoneLastIn(published[r]) /\ ~ DoneIn(published[r]) => DoneLastIn(published'[r])
<1> DEFINE s    == Head(results[r]).seat
           kind == Head(results[r]).kind
           warning == Event("danger", s)
           outcome == Event(RecordedEvent(kind, late), s)
           warned == IF kind = "danger" THEN Append(published[r], warning) ELSE published[r]
<1>1. s \in Seats /\ kind \in ViewKinds
  <2>1. Head(results[r]) \in Results
    BY HeadTailProperties DEF TypeInv, TypeOK, ExecTypeOK
  <2>2. QED
    BY <2>1 DEF Results
<1>2. published[r] \in Seq(Events)
  BY DEF TypeInv, TypeOK, HistoryTypeOK
<1>3. warning \in Events /\ outcome \in Events
  <2>1. RecordedEvent(kind, late) \in EventTypes
    BY DEF RecordedEvent, EventTypes
  <2>2. QED
    BY <1>1, <2>1, EventType DEF EventTypes
<1>4. warned \in Seq(Events)
  BY <1>2, <1>3, AppendProperties
<1>5. published' = [published EXCEPT ![r] = Append(warned, outcome)]
  BY DEF AnnounceView
<1>6. /\ published'[r] = Append(warned, outcome)
      /\ \A x \in Requests \ {r} : published'[x] = published[x]
  BY <1>5 DEF TypeInv, TypeOK, HistoryTypeOK
<1>7. \A t : ~ IsViewEvent(warning, t) /\ warning # Event("view_complete", t)
  BY DEF IsViewEvent, Event, ViewEvents
<1>8. warning.type = "danger" /\ outcome.type \in ViewEvents
  BY DEF Event, RecordedEvent, ViewEvents
<1>9. \A t : IsViewEvent(outcome, t) <=> t = s
  BY DEF IsViewEvent, Event, RecordedEvent, ViewEvents
<1>10. \A t : outcome = Event("view_complete", t) <=> t = s /\ ~late /\ kind \in Usable
  BY DEF Event, RecordedEvent
<1> HIDE DEF warning, outcome, kind, s
<1>11. \A t \in Seats : ToldIn(warned, t) <=> ToldIn(published[r], t)
  BY <1>2, <1>3, <1>7, AppendTold
<1>12. \A t \in Seats : CompletedIn(warned, t) <=> CompletedIn(published[r], t)
  BY <1>2, <1>3, <1>7, AppendCompleted
<1>13. DoneIn(warned) <=> DoneIn(published[r])
  BY <1>2, <1>3, <1>8, AppendDone
<1>14. OnceIn(published[r]) => OnceIn(warned)
  BY <1>2, <1>3, <1>7, AppendOnce
<1>15. DoneLastIn(published[r]) /\ ~ DoneIn(published[r]) => DoneLastIn(warned)
  BY <1>2, <1>3, <1>8, AppendDoneLast
<1> HIDE DEF warned
<1>16. \A t \in Seats : ToldIn(published'[r], t) <=> ToldIn(published[r], t) \/ t = s
  BY <1>3, <1>4, <1>6, <1>9, <1>11, AppendTold
<1>17. \A t \in Seats : CompletedIn(published'[r], t) <=>
         CompletedIn(published[r], t) \/ (t = s /\ ~late /\ kind \in Usable)
  BY <1>3, <1>4, <1>6, <1>10, <1>12, AppendCompleted
<1>18. DoneIn(published'[r]) <=> DoneIn(published[r])
  BY <1>3, <1>4, <1>6, <1>8, <1>13, AppendDone DEF ViewEvents
<1>19. OnceIn(published[r]) /\ ~ ToldIn(published[r], s) => OnceIn(published'[r])
  BY <1>1, <1>3, <1>4, <1>6, <1>9, <1>11, <1>14, AppendOnce
<1>20. DoneLastIn(published[r]) /\ ~ DoneIn(published[r]) => DoneLastIn(published'[r])
  BY <1>3, <1>4, <1>6, <1>8, <1>13, <1>15, AppendDoneLast DEF ViewEvents
<1>21. QED
  BY <1>6, <1>16, <1>17, <1>18, <1>19, <1>20 DEF kind, s

-----------------------------------------------------------------------------
\* From the launch of the views on, every seat is either still calling, or
\* waiting in the channel, or told, and only one of these; nothing is told
\* before; done is published by the last step of the judge goroutine.
Accounted(r) ==
  /\ exPc[r] \notin {"none", "start"} =>
       \A s \in Seats : \/ s \in calling[r]
                        \/ HasSeat(results[r], s)
                        \/ ToldIn(published[r], s)
  /\ \A s \in Seats : ToldIn(published[r], s) =>
       \/ runPc[r] = "failed"
       \/ /\ exPc[r] \notin {"none", "start"}
          /\ s \notin calling[r]
          /\ ~ HasSeat(results[r], s)
  /\ \A s \in calling[r] : ~ HasSeat(results[r], s)
  /\ DistinctSeats(results[r])
  /\ DoneIn(published[r]) => judgePc[r] = "exit" \/ runPc[r] = "failed"
  /\ OnceIn(published[r])
  /\ DoneLastIn(published[r])

AccountInv == \A r \in Requests : Accounted(r)

\* While a run goes on, its included seats are those announced as complete;
\* the verdict row copies them once nothing can be announced any more.
Named(r) ==
  LET completed == {s \in Seats : CompletedIn(published[r], s)} IN
  /\ exPc[r] # "none" => included[r] = completed
  /\ judgeRow[r].state \in Verdicts =>
       /\ judgeRow[r].included = completed
       /\ judgePc[r] \in PastViews \ {"store", "persist"} \/ runPc[r] = "failed"
  /\ \A s \in Seats : CompletedIn(published[r], s) => ToldIn(published[r], s)

\* A view row has an outcome only if that outcome is told or about to be.
Recorded(r) ==
  \A s \in Seats : viewRow[r][s] \notin {"absent", "pending"} =>
     \/ runPc[r] = "failed"
     \/ ToldIn(published[r], s)
     \/ exPc[r] \in {"received", "straggler"} /\ s = Head(results[r]).seat

OutcomeInv == \A r \in Requests : Named(r) /\ Recorded(r)

LEMMA EmptyChannel == DistinctSeats(<<>>) /\ \A s : ~ HasSeat(<<>>, s)
  BY DEF DistinctSeats, HasSeat

LEMMA AccountInit == Init => AccountInv
<1> SUFFICES ASSUME Init, NEW r \in Requests PROVE Accounted(r)
  BY DEF AccountInv
<1>1. exPc[r] = "none" /\ calling[r] = {} /\ results[r] = <<>> /\ published[r] = <<>>
  BY DEF Init
<1>2. Len(published[r]) = 0
  BY <1>1
<1>3. QED
  BY <1>1, <1>2, EmptyChannel DEF Accounted, ToldIn, DoneIn, OnceIn, DoneLastIn

\* Accounted depends on six variables only.
LEMMA AccountKept ==
  ASSUME NEW r \in Requests, Accounted(r),
         UNCHANGED <<runPc[r], exPc[r], judgePc[r], calling[r], results[r], published[r]>>
  PROVE  Accounted(r)'
  BY DEF Accounted

\* A run with goroutines has not failed; before its last step it has not
\* published done.
LEMMA NotDoneYet ==
  ASSUME TypeInv, ControlInv, AccountInv, NEW r \in Requests,
         exPc[r] # "none", judgePc[r] # "exit"
  PROVE  runPc[r] = "returned" /\ ~ DoneIn(published[r])
  BY DEF ControlInv, Ordered, AccountInv, Accounted

LEMMA EntryAccounts ==
  ASSUME TypeInv, ControlInv, AccountInv, NEW r \in Requests, EntryStep(r),
         NEW q \in Requests
  PROVE  Accounted(q)'
<1> USE DEF TypeInv, TypeOK, EntryTypeOK, ExecTypeOK, execVars, judgeVars
<1>1. Ordered(q) /\ Accounted(q)
  BY DEF ControlInv, AccountInv
<1>2. CASE InsertRequest(r)
  BY <1>1, <1>2 DEF InsertRequest, Ordered, Accounted
<1>3. CASE InsertRows(r)
  BY <1>1, <1>3 DEF InsertRows, Ordered, Accounted
<1>4. CASE SetSuperseded(r)
  BY <1>1, <1>4 DEF SetSuperseded, Ordered, Accounted
<1>5. CASE CancelSuperseded(r)
  BY <1>1, <1>5 DEF CancelSuperseded, Ordered, Accounted
<1>6. CASE AnnounceSuperseded(r)
  <2>1. CASE target[r] \in Requests
    <3>1. Event("superseded", None) \in Events /\ Event("superseded", None).type = "superseded"
      BY EventType DEF EventTypes, Event
    <3>2. /\ \A x \in Requests \ {target[r]} : published'[x] = published[x]
          /\ LET p == published[target[r]]  p2 == published'[target[r]] IN
             /\ \A s \in Seats : ToldIn(p2, s) <=> ToldIn(p, s)
             /\ DoneIn(p2) <=> DoneIn(p)
             /\ OnceIn(p) => OnceIn(p2)
             /\ DoneLastIn(p) => DoneLastIn(p2)
      BY <1>6, <2>1, <3>1, PublishTells DEF AnnounceSuperseded, ViewEvents
    <3>3. QED
      BY <1>1, <1>6, <3>2 DEF AnnounceSuperseded, Ordered, Accounted
  <2>2. CASE target[r] \notin Requests
    <3>1. published'[q] = published[q]
      BY <1>6, <2>2 DEF AnnounceSuperseded, Publish, HistoryTypeOK
    <3>2. QED
      BY <1>1, <1>6, <3>1 DEF AnnounceSuperseded, Ordered, Accounted
  <2>3. QED
    BY <2>1, <2>2
<1>7. CASE RegisterRun(r)
  BY <1>1, <1>7 DEF RegisterRun, Ordered, Accounted
<1>8. QED
  BY <1>2, <1>3, <1>4, <1>5, <1>6, <1>7 DEF EntryStep

LEMMA CoordinatorAccounts ==
  ASSUME TypeInv, ControlInv, AccountInv, NEW r \in Requests, CoordinatorStep(r),
         NEW q \in Requests
  PROVE  Accounted(q)'
<1> USE DEF TypeInv, TypeOK, EntryTypeOK, ExecTypeOK, JudgeTypeOK, entryVars, judgeVars
<1>1. Ordered(q) /\ Accounted(q)
  BY DEF ControlInv, AccountInv
<1>2. CASE StartViews(r)
  BY <1>1, <1>2, EmptyChannel DEF StartViews, Ordered, Accounted
<1>3. CASE ReceiveView(r)
  BY <1>1, <1>3 DEF ReceiveView, Accounted
<1>4. CASE IncludeView(r)
  <2> DEFINE s == Head(results[r]).seat
  <2>1. results[r] # <<>> /\ results[r] \in Seq(Results)
    BY <1>4 DEF IncludeView, HoldsResult
  <2>2. /\ results' = [results EXCEPT ![r] = Tail(results[r])]
        /\ AnnounceView(r, FALSE) /\ exPc[r] = "received"
        /\ UNCHANGED <<runPc, calling>>
        /\ exPc' \in {[exPc EXCEPT ![r] = "drain"], [exPc EXCEPT ![r] = "select"]}
        /\ judgePc' \in {judgePc, [judgePc EXCEPT ![r] = "start"]}
    BY <1>4 DEF IncludeView
  <2>3. CASE q = r
    <3>1. ~ DoneIn(published[r]) /\ judgePc[r] = "none" /\ runPc[r] = "returned"
      BY <2>2, NotDoneYet DEF ControlInv, Ordered
    <3>2. DistinctSeats(results[r])
      BY <1>1, <2>3 DEF Accounted
    <3>3. /\ HasSeat(results[r], s) /\ DistinctSeats(Tail(results[r]))
          /\ \A t : HasSeat(Tail(results[r]), t) <=> HasSeat(results[r], t) /\ t # s
      BY <2>1, <3>2, ReceiveSeat
    <3>4. s \in Seats
      <4>1. Head(results[r]) \in Results
        BY <2>1, HeadTailProperties
      <4>2. QED
        BY <4>1 DEF Results
    <3>5. /\ \A t \in Seats : ToldIn(published'[r], t) <=> ToldIn(published[r], t) \/ t = s
          /\ DoneIn(published'[r]) <=> DoneIn(published[r])
          /\ OnceIn(published[r]) /\ ~ ToldIn(published[r], s) => OnceIn(published'[r])
          /\ DoneLastIn(published[r]) /\ ~ DoneIn(published[r]) => DoneLastIn(published'[r])
      BY <2>1, <2>2, AnnounceViewTells
    <3>6. ~ ToldIn(published[r], s)
      BY <1>1, <2>3, <3>1, <3>3, <3>4 DEF Accounted
    <3> HIDE DEF s
    <3>7. QED
      BY <1>1, <2>2, <2>3, <3>1, <3>3, <3>5, <3>6 DEF Accounted
  <2>4. CASE q # r
    <3>1. published'[q] = published[q]
      BY <2>1, <2>2, <2>4, AnnounceViewTells
    <3>2. QED
      BY <1>1, <2>2, <2>4, <3>1 DEF Accounted
  <2>5. QED
    BY <2>3, <2>4
<1>5. CASE TriggerJudge(r)
  BY <1>1, <1>5 DEF TriggerJudge, Ordered, Accounted
<1>6. CASE DrainView(r)
  BY <1>1, <1>6 DEF DrainView, Accounted
<1>7. CASE AnnounceStraggler(r)
  <2> DEFINE s == Head(results[r]).seat
  <2>1. results[r] # <<>> /\ results[r] \in Seq(Results)
    BY <1>7 DEF AnnounceStraggler, HoldsResult
  <2>2. /\ results' = [results EXCEPT ![r] = Tail(results[r])]
        /\ AnnounceView(r, TRUE) /\ exPc[r] = "straggler"
        /\ UNCHANGED <<runPc, calling, judgePc>>
        /\ exPc' = [exPc EXCEPT ![r] = "drain"]
    BY <1>7 DEF AnnounceStraggler
  <2>3. CASE q = r
    <3>1. ~ DoneIn(published[r]) /\ judgePc[r] # "exit" /\ runPc[r] = "returned"
      <4>1. judgePc[r] # "exit"
        BY <2>2 DEF ControlInv, Ordered, PastViews
      <4>2. QED
        BY <2>2, <4>1, NotDoneYet
    <3>2. DistinctSeats(results[r])
      BY <1>1, <2>3 DEF Accounted
    <3>3. /\ HasSeat(results[r], s) /\ DistinctSeats(Tail(results[r]))
          /\ \A t : HasSeat(Tail(results[r]), t) <=> HasSeat(results[r], t) /\ t # s
      BY <2>1, <3>2, ReceiveSeat
    <3>4. s \in Seats
      <4>1. Head(results[r]) \in Results
        BY <2>1, HeadTailProperties
      <4>2. QED
        BY <4>1 DEF Results
    <3>5. /\ \A t \in Seats : ToldIn(published'[r], t) <=> ToldIn(published[r], t) \/ t = s
          /\ DoneIn(published'[r]) <=> DoneIn(published[r])
          /\ OnceIn(published[r]) /\ ~ ToldIn(published[r], s) => OnceIn(published'[r])
          /\ DoneLastIn(published[r]) /\ ~ DoneIn(published[r]) => DoneLastIn(published'[r])
      BY <2>1, <2>2, AnnounceViewTells
    <3>6. ~ ToldIn(published[r], s)
      BY <1>1, <2>3, <3>1, <3>3, <3>4 DEF Accounted
    <3> HIDE DEF s
    <3>7. QED
      BY <1>1, <2>2, <2>3, <3>1, <3>3, <3>5, <3>6 DEF Accounted
  <2>4. CASE q # r
    <3>1. published'[q] = published[q]
      BY <2>1, <2>2, <2>4, AnnounceViewTells
    <3>2. QED
      BY <1>1, <2>2, <2>4, <3>1 DEF Accounted
  <2>5. QED
    BY <2>3, <2>4
<1>8. CASE ViewsDrained(r)
  BY <1>1, <1>8 DEF ViewsDrained, Accounted
<1>9. QED
  BY <1>2, <1>3, <1>4, <1>5, <1>6, <1>7, <1>8 DEF CoordinatorStep

\* A step of the judge goroutine that publishes e, or nothing.
LEMMA JudgePublishAccounts ==
  ASSUME TypeInv, ControlInv, AccountInv, NEW r \in Requests, NEW q \in Requests,
         NEW e \in Events, Publish(r, e), e.type \notin ViewEvents,
         UNCHANGED <<runPc, exPc, calling, results>>,
         judgePc[r] \notin {"none", "exit"},
         \A x \in Requests \ {r} : judgePc'[x] = judgePc[x],
         \/ e.type # "done"
         \/ judgePc[r] \in PastViews /\ judgePc'[r] = "exit"
  PROVE  Accounted(q)'
<1>1. Ordered(r) /\ Accounted(r) /\ Accounted(q)
  BY DEF ControlInv, AccountInv
<1>2. /\ exPc[r] \notin {"none", "start"} /\ runPc[r] = "returned"
      /\ ~ DoneIn(published[r])
  BY <1>1, NotDoneYet DEF Ordered
<1>3. e.type = "done" => \A s \in Seats : ToldIn(published[r], s)
  BY <1>1, <1>2, EmptyChannel DEF Ordered, Accounted
<1>4. /\ \A x \in Requests \ {r} : published'[x] = published[x]
      /\ \A s \in Seats : ToldIn(published'[r], s) <=> ToldIn(published[r], s)
      /\ DoneIn(published'[r]) <=> e.type = "done"
      /\ OnceIn(published'[r]) /\ DoneLastIn(published'[r])
  BY <1>1, <1>2, <1>3, PublishTells DEF Accounted
<1>5. CASE q = r
  BY <1>1, <1>2, <1>4, <1>5 DEF Accounted
<1>6. CASE q # r
  BY <1>1, <1>4, <1>6 DEF Accounted
<1>7. QED
  BY <1>5, <1>6

LEMMA JudgeQuietAccounts ==
  ASSUME TypeInv, ControlInv, AccountInv, NEW r \in Requests, NEW q \in Requests,
         UNCHANGED <<runPc, exPc, calling, results, published>>,
         judgePc[r] \notin {"none", "exit"},
         \A x \in Requests \ {r} : judgePc'[x] = judgePc[x]
  PROVE  Accounted(q)'
<1>1. Ordered(r) /\ Accounted(r) /\ Accounted(q)
  BY DEF ControlInv, AccountInv
<1>2. ~ DoneIn(published[r])
  BY <1>1, NotDoneYet DEF Ordered
<1>3. CASE q = r
  BY <1>1, <1>2, <1>3 DEF Accounted
<1>4. CASE q # r
  BY <1>1, <1>4 DEF Accounted
<1>5. QED
  BY <1>3, <1>4

LEMMA JudgeAccounts ==
  ASSUME TypeInv, ControlInv, AccountInv, NEW r \in Requests, JudgeStep(r),
         NEW q \in Requests
  PROVE  Accounted(q)'
<1> USE DEF TypeInv, TypeOK, JudgeTypeOK, entryVars, execVars
<1>1. CASE StartJudge(r)
  BY <1>1, JudgeQuietAccounts DEF StartJudge
<1>2. CASE CallJudge(r)
  BY <1>2, JudgeQuietAccounts DEF CallJudge
<1>3. CASE AwaitViews(r)
  BY <1>3, JudgeQuietAccounts DEF AwaitViews
<1>4. CASE PersistVerdict(r)
  BY <1>4, JudgeQuietAccounts DEF PersistVerdict
<1>5. CASE ReloadRequest(r)
  BY <1>5, JudgeQuietAccounts DEF ReloadRequest
<1>6. CASE FinishState(r)
  BY <1>6, JudgeQuietAccounts DEF FinishState
<1>7. CASE FinishTimings(r)
  BY <1>7, JudgeQuietAccounts DEF FinishTimings
<1>8. CASE AnnounceJudge(r)
  <2> DEFINE e == Event("judge_started", Judge)
  <2>1. e \in Events /\ e.type \notin ViewEvents /\ e.type # "done"
    BY EventType DEF EventTypes, Event, ViewEvents
  <2>2. Publish(r, e)
    BY <1>8 DEF AnnounceJudge
  <2> HIDE DEF e
  <2>3. QED
    BY <1>8, <2>1, <2>2, JudgePublishAccounts DEF AnnounceJudge
<1>9. CASE AnnounceVerdict(r)
  <2> DEFINE e == Event(IF judgeOut[r] = "complete" THEN "judge_complete" ELSE "judge_failed", Judge)
  <2>1. e \in Events /\ e.type \notin ViewEvents /\ e.type # "done"
    BY EventType DEF EventTypes, Event, ViewEvents
  <2>2. Publish(r, e)
    BY <1>9 DEF AnnounceVerdict
  <2> HIDE DEF e
  <2>3. QED
    BY <1>9, <2>1, <2>2, JudgePublishAccounts DEF AnnounceVerdict
<1>10. CASE PublishDone(r)
  <2> DEFINE e == Event("done", None)
  <2>1. e \in Events /\ e.type \notin ViewEvents
    BY EventType DEF EventTypes, Event, ViewEvents
  <2>2. Publish(r, e)
    BY <1>10 DEF PublishDone
  <2> HIDE DEF e
  <2>3. QED
    BY <1>10, <2>1, <2>2, JudgePublishAccounts DEF PublishDone, PastViews
<1>11. CASE StoreJudge(r)
  <2> DEFINE e == Event("danger", Judge)
  <2>1. e \in Events /\ e.type \notin ViewEvents /\ e.type # "done"
    BY EventType DEF EventTypes, Event, ViewEvents
  <2>2. Publish(r, e) \/ UNCHANGED published
    BY <1>11 DEF StoreJudge
  <2> HIDE DEF e
  <2>3. QED
    BY <1>11, <2>1, <2>2, JudgePublishAccounts, JudgeQuietAccounts DEF StoreJudge
<1>12. QED
  BY <1>1, <1>2, <1>3, <1>4, <1>5, <1>6, <1>7, <1>8, <1>9, <1>10, <1>11 DEF JudgeStep

LEMMA AccountStep == TypeInv /\ ControlInv /\ AccountInv /\ [Next]_vars => AccountInv'
<1> SUFFICES ASSUME TypeInv, ControlInv, AccountInv, [Next]_vars, NEW q \in Requests
             PROVE  Accounted(q)'
  BY DEF AccountInv
<1>1. Ordered(q) /\ Accounted(q)
  BY DEF ControlInv, AccountInv
<1>2. ASSUME NEW r \in Requests, ViewsDeadline(r) \/ JudgeDeadline(r)
      PROVE  Accounted(q)'
  BY <1>1, <1>2 DEF ViewsDeadline, JudgeDeadline, Accounted, entryVars, execVars, judgeVars
<1>3. ASSUME NEW r \in Requests, NEW s \in Seats, CallView(r, s)
      PROVE  Accounted(q)'
  <2>1. PICK kind \in ViewOutcomes :
          results' = [results EXCEPT ![r] = Append(@, [seat |-> s, kind |-> kind])]
    BY <1>3 DEF CallView
  <2> DEFINE x == [seat |-> s, kind |-> kind]
  <2>2. x \in Results /\ x.seat = s
    BY ConstantsAssumption DEF Results
  <2>3. /\ results' = [results EXCEPT ![r] = Append(results[r], x)]
        /\ results \in [Requests -> Seq(Results)]
        /\ calling' = [calling EXCEPT ![r] = calling[r] \ {s}]
        /\ calling \in [Requests -> SUBSET Seats] /\ s \in calling[r]
        /\ UNCHANGED <<runPc, exPc, judgePc, published>>
    BY <1>3, <2>1 DEF CallView, entryVars, judgeVars, TypeInv, TypeOK, ExecTypeOK
  <2> HIDE DEF x
  <2>4. CASE q = r
    <3>1. /\ DistinctSeats(Append(results[r], x))
          /\ \A t : HasSeat(Append(results[r], x), t) <=> HasSeat(results[r], t) \/ t = s
      BY <1>1, <2>2, <2>3, <2>4, DeliverSeat DEF Accounted
    <3>2. exPc[r] \notin {"none", "start"}
      BY <1>1, <2>3, <2>4 DEF Ordered
    <3>3. QED
      BY <1>1, <2>3, <2>4, <3>1, <3>2 DEF Accounted
  <2>5. CASE q # r
    BY <1>1, <2>3, <2>5 DEF Accounted
  <2>6. QED
    BY <2>4, <2>5
<1>4. CASE Crash
  BY <1>1, <1>4, EmptyChannel DEF Crash, Ordered, Accounted, TypeInv, TypeOK, EntryTypeOK
<1>5. CASE UNCHANGED vars
  BY <1>1, <1>5 DEF vars, entryVars, execVars, judgeVars, Accounted
<1>6. QED
  BY <1>2, <1>3, <1>4, <1>5, EntryAccounts, CoordinatorAccounts, JudgeAccounts DEF Next

LEMMA Accounts == Spec => [](TypeInv /\ ControlInv /\ AccountInv)
  BY Control, AccountInit, AccountStep, PTL DEF Spec

\* Whatever fails and whichever way the select at the deadline goes, a view is
\* announced at most once.
THEOREM ViewsToldOnce == Spec => []SeatAnnouncedOnce
<1>1. AccountInv => SeatAnnouncedOnce
  BY DEF AccountInv, Accounted, OnceIn, SeatAnnouncedOnce
<1>2. QED
  BY <1>1, Accounts, PTL

\* done comes after the outcome of every view and nothing but a supersede
\* notice comes after it, however late the stragglers deliver.
THEOREM DoneComesLast == Spec => []DoneFollowsEveryView
<1>1. AccountInv => DoneFollowsEveryView
  BY DEF AccountInv, Accounted, DoneLastIn, DoneFollowsEveryView
<1>2. QED
  BY <1>1, Accounts, PTL

-----------------------------------------------------------------------------
\* The inductive invariant of a run.
IInv == TypeInv /\ ControlInv /\ AccountInv /\ OutcomeInv

LEMMA OutcomeInit == Init => OutcomeInv
<1> SUFFICES ASSUME Init, NEW r \in Requests PROVE Named(r) /\ Recorded(r)
  BY DEF OutcomeInv
<1>1. /\ exPc[r] = "none" /\ published[r] = <<>> /\ judgeRow[r].state = "absent"
      /\ \A s \in Seats : viewRow[r][s] = "absent"
  BY DEF Init
<1>2. Len(published[r]) = 0
  BY <1>1
<1>3. QED
  BY <1>1, <1>2 DEF Named, Recorded, CompletedIn, Verdicts

LEMMA EntryOutcomes ==
  ASSUME IInv, NEW r \in Requests, EntryStep(r), NEW q \in Requests
  PROVE  Named(q)' /\ Recorded(q)'
<1> USE DEF IInv, TypeInv, TypeOK, RowTypeOK, EntryTypeOK, ExecTypeOK,
            rowVars, execVars, judgeVars
<1>1. Ordered(q) /\ Accounted(q) /\ Named(q) /\ Recorded(q)
  BY DEF ControlInv, AccountInv, OutcomeInv
<1>2. CASE InsertRequest(r)
  BY <1>1, <1>2 DEF InsertRequest, Ordered, Accounted, Named, Recorded
<1>3. CASE InsertRows(r)
  <2>1. /\ \A x \in Requests \ {r} :
              /\ viewRow'[x] = viewRow[x] /\ judgeRow'[x] = judgeRow[x]
              /\ runPc'[x] = runPc[x]
        /\ \A s \in Seats : viewRow'[r][s] \in {"pending", viewRow[r][s]}
        /\ judgeRow'[r] = judgeRow[r] \/ judgeRow'[r].state = "pending"
        /\ UNCHANGED <<exPc, included, judgePc, published, results>>
        /\ runPc[r] = "rows"
    BY <1>3 DEF InsertRows
  <2>2. CASE q = r
    BY <1>1, <2>1, <2>2 DEF Ordered, Accounted, Named, Recorded, Verdicts, PastViews
  <2>3. CASE q # r
    BY <1>1, <2>1, <2>3 DEF Named, Recorded
  <2>4. QED
    BY <2>2, <2>3
<1>4. CASE SetSuperseded(r)
  BY <1>1, <1>4 DEF SetSuperseded, Named, Recorded
<1>5. CASE CancelSuperseded(r)
  BY <1>1, <1>5 DEF CancelSuperseded, Named, Recorded
<1>6. CASE AnnounceSuperseded(r)
  <2>1. /\ UNCHANGED <<exPc, included, judgePc, results, viewRow, judgeRow>>
        /\ runPc[r] = "announce" /\ runPc' = [runPc EXCEPT ![r] = "register"]
    BY <1>6 DEF AnnounceSuperseded
  <2>2. \A s \in Seats : /\ ToldIn(published'[q], s) <=> ToldIn(published[q], s)
                         /\ CompletedIn(published'[q], s) <=> CompletedIn(published[q], s)
    <3>1. CASE target[r] \in Requests
      <4>1. /\ Event("superseded", None) \in Events
            /\ Event("superseded", None).type \notin ViewEvents
        BY EventType DEF EventTypes, Event, ViewEvents
      <4>2. QED
        BY <1>6, <3>1, <4>1, PublishTells DEF AnnounceSuperseded
    <3>2. CASE target[r] \notin Requests
      BY <1>6, <3>2 DEF AnnounceSuperseded, Publish, HistoryTypeOK
    <3>3. QED
      BY <3>1, <3>2
  <2>3. QED
    BY <1>1, <2>1, <2>2 DEF Named, Recorded
<1>7. CASE RegisterRun(r)
  BY <1>1, <1>7 DEF RegisterRun, Ordered, Accounted, Named, Recorded
<1>8. QED
  BY <1>2, <1>3, <1>4, <1>5, <1>6, <1>7 DEF EntryStep

\* recordView's statements record the head of the channel, and nothing else.
LEMMA PersistViewOutcomes ==
  ASSUME IInv, NEW r \in Requests, NEW late \in BOOLEAN, PersistView(r, late)
  PROVE  \A x \in Requests : \A s \in Seats :
           viewRow'[x][s] = viewRow[x][s] \/ (x = r /\ s = Head(results[r]).seat)
  BY DEF PersistView, IInv, TypeInv, TypeOK, RowTypeOK

LEMMA CoordinatorOutcomes ==
  ASSUME IInv, NEW r \in Requests, CoordinatorStep(r), NEW q \in Requests
  PROVE  Named(q)' /\ Recorded(q)'
<1> USE DEF IInv, TypeInv, TypeOK, RowTypeOK, EntryTypeOK, ExecTypeOK, JudgeTypeOK,
            rowVars, entryVars, execVars, judgeVars
<1>1. Ordered(q) /\ Accounted(q) /\ Named(q) /\ Recorded(q)
  BY DEF ControlInv, AccountInv, OutcomeInv
<1>2. CASE StartViews(r)
  BY <1>1, <1>2 DEF StartViews, Named, Recorded
<1>3. CASE ReceiveView(r)
  <2>1. /\ exPc[r] = "select" /\ exPc' = [exPc EXCEPT ![r] = "received"]
        /\ UNCHANGED <<runPc, included, judgePc, results, judgeRow, published>>
        /\ \A x \in Requests : \A s \in Seats :
             viewRow'[x][s] = viewRow[x][s] \/ (x = r /\ s = Head(results[r]).seat)
    BY <1>3, PersistViewOutcomes DEF ReceiveView
  <2>2. QED
    BY <1>1, <2>1 DEF Named, Recorded
<1>4. CASE IncludeView(r)
  <2> DEFINE s == Head(results[r]).seat
             kind == Head(results[r]).kind
  <2>1. results[r] # <<>> /\ AnnounceView(r, FALSE)
    BY <1>4 DEF IncludeView, HoldsResult
  <2>2. /\ exPc[r] = "received" /\ exPc'[r] \in {"drain", "select"}
        /\ included'[r] = IF kind \in Usable THEN included[r] \cup {s} ELSE included[r]
        /\ \A x \in Requests \ {r} : /\ exPc'[x] = exPc[x] /\ included'[x] = included[x]
                                     /\ judgePc'[x] = judgePc[x] /\ results'[x] = results[x]
        /\ UNCHANGED <<runPc, judgeRow, viewRow>>
    BY <1>4 DEF IncludeView, Counts
  <2>3. /\ \A x \in Requests \ {r} : published'[x] = published[x]
        /\ \A t \in Seats : ToldIn(published'[r], t) <=> ToldIn(published[r], t) \/ t = s
        /\ \A t \in Seats : CompletedIn(published'[r], t) <=>
             CompletedIn(published[r], t) \/ (t = s /\ kind \in Usable)
    BY <2>1, AnnounceViewTells
  <2>4. s \in Seats
    <3>1. Head(results[r]) \in Results
      BY <2>1, HeadTailProperties
    <3>2. QED
      BY <3>1 DEF Results
  <2> HIDE DEF s, kind
  <2>5. CASE q = r
    <3>1. judgePc[r] = "none" /\ runPc[r] = "returned"
      BY <1>1, <2>2, <2>5 DEF Ordered
    <3>2. judgeRow[r].state \notin Verdicts
      BY <1>1, <2>5, <3>1 DEF Named, PastViews
    <3>3. Named(r)'
      BY <1>1, <2>2, <2>3, <2>4, <2>5, <3>2 DEF Named
    <3>4. Recorded(r)'
      BY <1>1, <2>2, <2>3, <2>5 DEF Recorded, s
    <3>5. QED
      BY <2>5, <3>3, <3>4
  <2>6. CASE q # r
    BY <1>1, <2>2, <2>3, <2>6 DEF Named, Recorded
  <2>7. QED
    BY <2>5, <2>6
<1>5. CASE TriggerJudge(r)
  BY <1>1, <1>5 DEF TriggerJudge, Ordered, Named, Recorded, PastViews
<1>6. CASE DrainView(r)
  <2>1. /\ exPc[r] = "drain" /\ exPc' = [exPc EXCEPT ![r] = "straggler"]
        /\ UNCHANGED <<runPc, included, judgePc, results, judgeRow, published>>
        /\ \A x \in Requests : \A s \in Seats :
             viewRow'[x][s] = viewRow[x][s] \/ (x = r /\ s = Head(results[r]).seat)
    BY <1>6, PersistViewOutcomes DEF DrainView
  <2>2. QED
    BY <1>1, <2>1 DEF Named, Recorded
<1>7. CASE AnnounceStraggler(r)
  <2> DEFINE s == Head(results[r]).seat
  <2>1. results[r] # <<>> /\ AnnounceView(r, TRUE)
    BY <1>7 DEF AnnounceStraggler, HoldsResult
  <2>2. /\ exPc[r] = "straggler" /\ exPc'[r] = "drain"
        /\ \A x \in Requests \ {r} : exPc'[x] = exPc[x] /\ results'[x] = results[x]
        /\ UNCHANGED <<runPc, included, judgePc, judgeRow, viewRow>>
    BY <1>7 DEF AnnounceStraggler
  <2>3. /\ \A x \in Requests \ {r} : published'[x] = published[x]
        /\ \A t \in Seats : ToldIn(published'[r], t) <=> ToldIn(published[r], t) \/ t = s
        /\ \A t \in Seats : CompletedIn(published'[r], t) <=> CompletedIn(published[r], t)
    BY <2>1, AnnounceViewTells
  <2> HIDE DEF s
  <2>4. CASE q = r
    BY <1>1, <2>2, <2>3, <2>4 DEF Named, Recorded, s
  <2>5. CASE q # r
    BY <1>1, <2>2, <2>3, <2>5 DEF Named, Recorded
  <2>6. QED
    BY <2>4, <2>5
<1>8. CASE ViewsDrained(r)
  BY <1>1, <1>8 DEF ViewsDrained, Named, Recorded
<1>9. QED
  BY <1>2, <1>3, <1>4, <1>5, <1>6, <1>7, <1>8 DEF CoordinatorStep

\* A step of the judge goroutine that leaves the verdict row alone.
LEMMA JudgeKeepsOutcomes ==
  ASSUME IInv, NEW r \in Requests, NEW q \in Requests,
         UNCHANGED <<runPc, exPc, included, results, viewRow, judgeRow>>,
         \A s \in Seats : /\ ToldIn(published'[q], s) <=> ToldIn(published[q], s)
                          /\ CompletedIn(published'[q], s) <=> CompletedIn(published[q], s),
         \A x \in Requests \ {r} : judgePc'[x] = judgePc[x],
         \/ judgePc[r] \notin PastViews \ {"store", "persist"}
         \/ judgePc'[r] \in PastViews \ {"store", "persist"}
  PROVE  Named(q)' /\ Recorded(q)'
  BY DEF IInv, OutcomeInv, Named, Recorded

LEMMA QuietlyTold ==
  ASSUME UNCHANGED published, NEW q \in Requests
  PROVE  \A s \in Seats : /\ ToldIn(published'[q], s) <=> ToldIn(published[q], s)
                          /\ CompletedIn(published'[q], s) <=> CompletedIn(published[q], s)
  OBVIOUS

LEMMA JudgeOutcomesKept ==
  ASSUME IInv, NEW r \in Requests, JudgeStep(r), NEW q \in Requests
  PROVE  Named(q)' /\ Recorded(q)'
<1> USE DEF IInv, TypeInv, TypeOK, RowTypeOK, ExecTypeOK, JudgeTypeOK,
            rowVars, entryVars, execVars
<1>1. CASE StartJudge(r)
  BY <1>1, JudgeKeepsOutcomes, QuietlyTold DEF StartJudge, PastViews
<1>2. CASE CallJudge(r)
  BY <1>2, JudgeKeepsOutcomes, QuietlyTold DEF CallJudge, PastViews
<1>3. CASE AwaitViews(r)
  BY <1>3, JudgeKeepsOutcomes, QuietlyTold DEF AwaitViews, PastViews
<1>4. CASE ReloadRequest(r)
  BY <1>4, JudgeKeepsOutcomes, QuietlyTold DEF ReloadRequest, PastViews
<1>5. CASE FinishState(r)
  BY <1>5, JudgeKeepsOutcomes, QuietlyTold DEF FinishState, PastViews
<1>6. CASE FinishTimings(r)
  BY <1>6, JudgeKeepsOutcomes, QuietlyTold DEF FinishTimings, PastViews
<1>7. CASE AnnounceJudge(r)
  <2> DEFINE e == Event("judge_started", Judge)
  <2>1. e \in Events /\ e.type \notin ViewEvents
    BY EventType DEF EventTypes, Event, ViewEvents
  <2>2. Publish(r, e)
    BY <1>7 DEF AnnounceJudge
  <2> HIDE DEF e
  <2>3. \A s \in Seats : /\ ToldIn(published'[q], s) <=> ToldIn(published[q], s)
                         /\ CompletedIn(published'[q], s) <=> CompletedIn(published[q], s)
    BY <2>1, <2>2, PublishTells
  <2>4. QED
    BY <1>7, <2>3, JudgeKeepsOutcomes DEF AnnounceJudge, PastViews
<1>8. CASE AnnounceVerdict(r)
  <2> DEFINE e == Event(IF judgeOut[r] = "complete" THEN "judge_complete" ELSE "judge_failed", Judge)
  <2>1. e \in Events /\ e.type \notin ViewEvents
    BY EventType DEF EventTypes, Event, ViewEvents
  <2>2. Publish(r, e)
    BY <1>8 DEF AnnounceVerdict
  <2> HIDE DEF e
  <2>3. \A s \in Seats : /\ ToldIn(published'[q], s) <=> ToldIn(published[q], s)
                         /\ CompletedIn(published'[q], s) <=> CompletedIn(published[q], s)
    BY <2>1, <2>2, PublishTells
  <2>4. QED
    BY <1>8, <2>3, JudgeKeepsOutcomes DEF AnnounceVerdict, PastViews
<1>9. CASE PublishDone(r)
  <2> DEFINE e == Event("done", None)
  <2>1. e \in Events /\ e.type \notin ViewEvents
    BY EventType DEF EventTypes, Event, ViewEvents
  <2>2. Publish(r, e)
    BY <1>9 DEF PublishDone
  <2> HIDE DEF e
  <2>3. \A s \in Seats : /\ ToldIn(published'[q], s) <=> ToldIn(published[q], s)
                         /\ CompletedIn(published'[q], s) <=> CompletedIn(published[q], s)
    BY <2>1, <2>2, PublishTells
  <2>4. QED
    BY <1>9, <2>3, JudgeKeepsOutcomes DEF PublishDone, PastViews
<1>10. CASE StoreJudge(r)
  <2> DEFINE e == Event("danger", Judge)
  <2>1. e \in Events /\ e.type \notin ViewEvents
    BY EventType DEF EventTypes, Event, ViewEvents
  <2>2. Publish(r, e) \/ UNCHANGED published
    BY <1>10 DEF StoreJudge
  <2> HIDE DEF e
  <2>3. \A s \in Seats : /\ ToldIn(published'[q], s) <=> ToldIn(published[q], s)
                         /\ CompletedIn(published'[q], s) <=> CompletedIn(published[q], s)
    BY <2>1, <2>2, PublishTells
  <2>4. QED
    BY <1>10, <2>3, JudgeKeepsOutcomes DEF StoreJudge, PastViews
<1>11. CASE PersistVerdict(r)
  <2>1. /\ UNCHANGED <<runPc, exPc, included, results, viewRow, published>>
        /\ judgePc[r] = "persist" /\ judgePc' = [judgePc EXCEPT ![r] = "verdict"]
        /\ \A x \in Requests \ {r} : judgeRow'[x] = judgeRow[x]
        /\ \/ judgeRow'[r] = judgeRow[r]
           \/ judgeRow'[r] = [state |-> judgeOut[r], included |-> included[r]]
    BY <1>11 DEF PersistVerdict
  <2>2. Ordered(q) /\ Named(q) /\ Recorded(q)
    BY DEF ControlInv, OutcomeInv
  <2>3. Recorded(q)'
    BY <2>1, <2>2 DEF Recorded
  <2>4. CASE q = r
    <3>1. exPc[r] = "drained"
      BY <2>1, <2>2, <2>4 DEF Ordered, PastViews
    <3>2. QED
      BY <2>1, <2>2, <2>3, <2>4, <3>1 DEF Named, PastViews
  <2>5. CASE q # r
    BY <2>1, <2>2, <2>3, <2>5 DEF Named
  <2>6. QED
    BY <2>4, <2>5
<1>12. QED
  BY <1>1, <1>2, <1>3, <1>4, <1>5, <1>6, <1>7, <1>8, <1>9, <1>10, <1>11 DEF JudgeStep

LEMMA OutcomeStep == IInv /\ [Next]_vars => OutcomeInv'
<1> SUFFICES ASSUME IInv, [Next]_vars, NEW q \in Requests
             PROVE  Named(q)' /\ Recorded(q)'
  BY DEF OutcomeInv
<1> USE DEF IInv, rowVars, entryVars, execVars, judgeVars
<1>1. Ordered(q) /\ Accounted(q) /\ Named(q) /\ Recorded(q)
  BY DEF ControlInv, AccountInv, OutcomeInv
<1>2. ASSUME NEW r \in Requests, ViewsDeadline(r) \/ JudgeDeadline(r)
      PROVE  Named(q)' /\ Recorded(q)'
  BY <1>1, <1>2 DEF ViewsDeadline, JudgeDeadline, Named, Recorded
<1>3. ASSUME NEW r \in Requests, NEW s \in Seats, CallView(r, s)
      PROVE  Named(q)' /\ Recorded(q)'
  <2>1. /\ UNCHANGED <<runPc, exPc, included, judgePc, viewRow, judgeRow, published>>
        /\ \A x \in Requests \ {r} : results'[x] = results[x]
    BY <1>3 DEF CallView, TypeInv, TypeOK, ExecTypeOK
  <2>2. exPc[q] \in {"received", "straggler"} => Head(results'[q]) = Head(results[q])
    <3>1. SUFFICES ASSUME results[r] # <<>> PROVE Head(results'[r]) = Head(results[r])
      BY <2>1 DEF TypeInv, HoldsResult
    <3>2. PICK kind \in ViewOutcomes :
            results' = [results EXCEPT ![r] = Append(@, [seat |-> s, kind |-> kind])]
      BY <1>3 DEF CallView
    <3>3. [seat |-> s, kind |-> kind] \in Results
      BY ConstantsAssumption DEF Results
    <3>4. results[r] \in Seq(Results) /\ Len(results[r]) \in Nat \ {0}
      BY <3>1, EmptySeq DEF TypeInv, TypeOK, ExecTypeOK
    <3>5. /\ results'[r] = Append(results[r], [seat |-> s, kind |-> kind])
          /\ results'[r][1] = results[r][1]
      BY <3>2, <3>3, <3>4, AppendProperties DEF TypeInv, TypeOK, ExecTypeOK
    <3>6. QED
      BY <3>3, <3>4, <3>5, AppendProperties
  <2>3. QED
    BY <1>1, <2>1, <2>2 DEF Named, Recorded
<1>4. CASE Crash
  BY <1>1, <1>4 DEF Crash, Ordered, Accounted, Named, Recorded, PastViews,
                    TypeInv, TypeOK, EntryTypeOK
<1>5. CASE UNCHANGED vars
  BY <1>1, <1>5 DEF vars, Named, Recorded
<1>6. QED
  BY <1>2, <1>3, <1>4, <1>5, EntryOutcomes, CoordinatorOutcomes, JudgeOutcomesKept DEF Next

LEMMA Invariant == Spec => []IInv
<1>1. Init => IInv
  BY TypeInit, ControlInit, AccountInit, OutcomeInit DEF IInv
<1>2. IInv /\ [Next]_vars => IInv'
  BY TypeStep, ControlStep, AccountStep, OutcomeStep DEF IInv
<1>3. QED
  BY <1>1, <1>2, PTL DEF Spec

\* The included seats stored with the verdict are those whose view was
\* announced as complete, also when the answer races the stragglers.
THEOREM VerdictNamesViews == Spec => []AnswerNamesItsViews
<1>1. IInv => AnswerNamesItsViews
  BY DEF IInv, OutcomeInv, Named, CompletedIn, AnswerNamesItsViews, Announced
<1>2. QED
  BY <1>1, Invariant, PTL

\* One step never overwrites a recorded outcome.
LEMMA FinalStep ==
  ASSUME IInv, [Next]_vars, NEW r \in Requests
  PROVE  /\ \A s \in Seats :
              viewRow[r][s] \notin {"absent", "pending"} => viewRow'[r][s] = viewRow[r][s]
         /\ judgeRow[r].state \in Verdicts => judgeRow'[r] = judgeRow[r]
<1> USE DEF IInv, TypeInv, TypeOK, RowTypeOK, rowVars
<1>1. Ordered(r) /\ Accounted(r) /\ Named(r) /\ Recorded(r)
  BY DEF ControlInv, AccountInv, OutcomeInv
<1>2. ASSUME NEW q \in Requests, EntryStep(q)
      PROVE  /\ \A s \in Seats :
                  viewRow[r][s] \notin {"absent", "pending"} => viewRow'[r][s] = viewRow[r][s]
             /\ judgeRow[r].state \in Verdicts => judgeRow'[r] = judgeRow[r]
  <2>1. CASE InsertRows(q)
    <3>1. CASE q = r
      <4>1. /\ runPc[r] = "rows" /\ exPc[r] = "none"
            /\ \A s \in Seats : viewRow[r][s] \in {"absent", "pending"}
        BY <1>1, <2>1, <3>1 DEF InsertRows, Ordered, Accounted, Recorded
      <4>2. judgeRow[r].state \notin Verdicts
        BY <1>1, <4>1 DEF Ordered, Named, PastViews
      <4>3. QED
        BY <4>1, <4>2
    <3>2. CASE q # r
      BY <2>1, <3>2 DEF InsertRows
    <3>3. QED
      BY <3>1, <3>2
  <2>2. CASE UNCHANGED <<viewRow, judgeRow>>
    BY <2>2
  <2>3. QED
    BY <1>2, <2>1, <2>2 DEF EntryStep, InsertRequest, SetSuperseded, CancelSuperseded,
                            AnnounceSuperseded, RegisterRun
<1>3. ASSUME NEW q \in Requests, CoordinatorStep(q)
      PROVE  /\ \A s \in Seats :
                  viewRow[r][s] \notin {"absent", "pending"} => viewRow'[r][s] = viewRow[r][s]
             /\ judgeRow'[r] = judgeRow[r]
  <2>1. ASSUME NEW late \in BOOLEAN, PersistView(q, late), exPc[q] \in {"select", "drain"},
               results[q] # <<>>, UNCHANGED judgeRow
        PROVE  /\ \A s \in Seats :
                    viewRow[r][s] \notin {"absent", "pending"} => viewRow'[r][s] = viewRow[r][s]
               /\ judgeRow'[r] = judgeRow[r]
    <3> DEFINE h == Head(results[q]).seat
    <3>1. results[q] \in Seq(Results) /\ DistinctSeats(results[q])
      BY DEF ExecTypeOK, AccountInv, Accounted
    <3>2. HasSeat(results[q], h)
      BY <2>1, <3>1, ReceiveSeat
    <3>3. \A x \in Requests : \A s \in Seats :
            viewRow'[x][s] = viewRow[x][s] \/ (x = q /\ s = h)
      BY <2>1, PersistViewOutcomes
    <3> HIDE DEF h
    <3>4. CASE q = r
      <4>1. runPc[r] = "returned"
        BY <1>1, <2>1, <3>4 DEF Ordered
      <4>2. h \in Seats => ~ ToldIn(published[r], h)
        BY <1>1, <3>2, <3>4, <4>1 DEF Accounted
      <4>3. h \in Seats => viewRow[r][h] \in {"absent", "pending"}
        BY <1>1, <2>1, <3>4, <4>1, <4>2 DEF Recorded
      <4>4. QED
        BY <2>1, <3>3, <3>4, <4>3
    <3>5. CASE q # r
      BY <2>1, <3>3, <3>5
    <3>6. QED
      BY <3>4, <3>5
  <2>2. CASE ReceiveView(q)
    BY <2>1, <2>2 DEF ReceiveView
  <2>3. CASE DrainView(q)
    BY <2>1, <2>3 DEF DrainView
  <2>4. CASE UNCHANGED <<viewRow, judgeRow>>
    BY <2>4
  <2>5. QED
    BY <1>3, <2>2, <2>3, <2>4 DEF CoordinatorStep, StartViews, IncludeView,
                                  TriggerJudge, AnnounceStraggler, ViewsDrained
<1>4. ASSUME NEW q \in Requests, JudgeStep(q)
      PROVE  /\ viewRow'[r] = viewRow[r]
             /\ judgeRow[r].state \in Verdicts => judgeRow'[r] = judgeRow[r]
  <2>1. CASE PersistVerdict(q)
    <3>1. CASE q = r
      <4>1. exPc[r] = "drained" /\ judgePc[r] = "persist"
        BY <1>1, <2>1, <3>1 DEF PersistVerdict, Ordered, PastViews
      <4>2. judgeRow[r].state \notin Verdicts
        BY <1>1, <4>1 DEF Named, Ordered
      <4>3. QED
        BY <2>1, <4>2 DEF PersistVerdict
    <3>2. CASE q # r
      BY <2>1, <3>2 DEF PersistVerdict
    <3>3. QED
      BY <3>1, <3>2
  <2>2. CASE UNCHANGED <<viewRow, judgeRow>>
    BY <2>2
  <2>3. QED
    BY <1>4, <2>1, <2>2 DEF JudgeStep, StartJudge, AnnounceJudge, CallJudge, AwaitViews,
         StoreJudge, AnnounceVerdict, ReloadRequest, FinishState, FinishTimings, PublishDone
<1>5. ASSUME NEW q \in Requests, NEW s \in Seats,
             ViewsDeadline(q) \/ JudgeDeadline(q) \/ CallView(q, s)
      PROVE  UNCHANGED <<viewRow, judgeRow>>
  BY <1>5 DEF ViewsDeadline, JudgeDeadline, CallView
<1>6. CASE Crash \/ UNCHANGED vars
  BY <1>6 DEF Crash, vars
<1>7. QED
  BY <1>2, <1>3, <1>4, <1>5, <1>6, ConstantsAssumption DEF Next

\* A recorded view outcome and a stored verdict are never overwritten.
THEOREM OutcomesStay == Spec => OutcomesAreFinal
<1>1. IInv /\ [Next]_vars =>
        [\A r \in Requests :
           /\ \A s \in Seats :
                viewRow[r][s] \notin {"absent", "pending"} => viewRow'[r][s] = viewRow[r][s]
           /\ judgeRow[r].state \in Verdicts => judgeRow'[r] = judgeRow[r]]_vars
  BY FinalStep
<1>2. QED
  BY <1>1, Invariant, PTL DEF Spec, OutcomesAreFinal
=============================================================================
