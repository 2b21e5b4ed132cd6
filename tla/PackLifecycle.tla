---------------------------- MODULE PackLifecycle ----------------------------
(***************************************************************************)
(* Production packs under the commands that write them: pack init, publish *)
(* (internal/harness/publish.go with store.PublishAtomic), publish         *)
(* --baselines-only and rollback (internal/pack/pack.go), beside a further *)
(* downstream run of a candidate, whose row holds the promotion checklist  *)
(* that a publish goes by and the mark of an override.                     *)
(*                                                                         *)
(* A command is a process of its own, so commands overlap and see each     *)
(* other only through the store.  A step is one statement, or the          *)
(* transaction of PublishAtomic, with the reads and model calls before it. *)
(* Nothing makes a command go on, so each may also die between two steps.  *)
(*                                                                         *)
(* A command inserts at most one pack and one bundle per case, and both    *)
(* bear its name here.  The rows of different cases are written alike and  *)
(* never meet, so one case stands for all of them, and "view" for the      *)
(* three view seats.                                                       *)
(***************************************************************************)
EXTENDS Naturals

CONSTANTS
  Commands,    \* invocations of the program that write packs or candidates
  Candidates,  \* candidates whose promotion checklist has been evaluated
  None,
  MaxFaults    \* bound on statements that fail

ASSUME PackConstants ==
  /\ None \notin Commands \cup Candidates
  /\ MaxFaults \in Nat

VARIABLES
  \* packs
  status,    \* packs.status; "absent": no row
  born,      \* place of the row in the order (created_at, id)
  activated, \* packs with activated_at
  \* other rows
  bundleId,  \* row id of the natural bundle
  viewBase,  \* packs with a baseline of a view seat
  judgeBase, \* per pack: the bundle id in its judge baseline
  promotion, \* per candidate: what promotion_json says
  \* per command: next step, packs, candidate and checklist at hand, gradeable seats
  job,
  \* history and bounds
  created,   \* number of packs so far
  from,      \* candidate a pack was published from
  overrides, \* packs published by --force
  replaced,  \* active pack at the time a pack was published
  revived,   \* a rollback has changed a pack that was retired
  faults

packVars == <<status, born, activated, created, from, overrides, replaced, revived>>
rowVars  == <<bundleId, viewBase, judgeBase, promotion>>
vars == <<packVars, rowVars, job, faults>>

Attempt(ok) == /\ ok \/ faults < MaxFaults
               /\ faults' = IF ok THEN faults ELSE faults + 1

WithStatus(st) == {p \in Commands : status[p] = st}

\* ORDER BY created_at DESC, id DESC LIMIT 1; None when there is no row.
Newest(st) ==
  IF WithStatus(st) = {} THEN None
  ELSE CHOOSE p \in WithStatus(st) : \A q \in WithStatus(st) : born[q] <= born[p]

\* Checklist: PromoteRecommended and Forced.
Checklists == [pass : BOOLEAN, forced : BOOLEAN]

\* What EvaluateChecklist returns carries no mark.
Evaluated(pass) == [pass |-> pass, forced |-> FALSE]

Idle == [at |-> "idle", cur |-> None, prev |-> None, cand |-> None, graded |-> {},
         list |-> Evaluated(FALSE)]

Init ==
  /\ status = [p \in Commands |-> "absent"]
  /\ born   = [p \in Commands |-> 0]
  /\ activated = {}
  /\ bundleId = None
  /\ viewBase = {}
  /\ judgeBase = [p \in Commands |-> None]
  /\ promotion \in [Candidates -> {Evaluated(pass) : pass \in BOOLEAN}]
  /\ job = [c \in Commands |-> Idle]
  /\ created = 0 /\ faults = 0
  /\ from     = [p \in Commands |-> None]
  /\ overrides = {}
  /\ replaced = [p \in Commands |-> None]
  /\ revived = FALSE

At(c, step)   == job[c].at = step
Goto(c, step) == job' = [job EXCEPT ![c].at = step]

\* The process exits and what it knew is gone.
Exit(c, how) == job' = [job EXCEPT ![c] = [Idle EXCEPT !.at = how]]

\* The new row comes last in the order of creation.
AddPack(c, others) ==
  /\ status' = [others EXCEPT ![c] = "active"]
  /\ born' = [born EXCEPT ![c] = created + 1]
  /\ created' = created + 1

-----------------------------------------------------------------------------
(* pack init.                                                              *)

\* InsertPack leaves the packs that are active as they are.
InsertPack(c) ==
  /\ At(c, "idle")
  /\ \E ok \in BOOLEAN :
       /\ Attempt(ok)
       /\ IF ok THEN AddPack(c, status) /\ Goto(c, "meta")
                ELSE UNCHANGED <<status, born, created>> /\ Exit(c, "done")
  /\ UNCHANGED <<activated, from, overrides, replaced, revived, rowVars>>

\* UpdatePackMeta; when it fails the command fails, but the pack is active.
UpdatePackMeta(c) ==
  /\ At(c, "meta")
  /\ \E ok \in BOOLEAN :
       /\ Attempt(ok)
       /\ activated' = IF ok THEN activated \cup {c} ELSE activated
  /\ Exit(c, "done")
  /\ UNCHANGED <<status, born, created, from, overrides, replaced, revived, rowVars>>

-----------------------------------------------------------------------------
(* pack publish.                                                           *)

\* NoGradeableEvidenceError
EnoughEvidence(graded) == graded # {}

\* The active pack is read, then responses are generated for every seat; the
\* seats with a gradeable one get baselines.
Prepare(c, step, k, list) ==
  /\ At(c, "idle")
  /\ Newest("active") # None
  /\ \E graded \in SUBSET {"view", "judge"} :
       /\ EnoughEvidence(graded)
       /\ job' = [job EXCEPT ![c] = [Idle EXCEPT !.at = step, !.cur = Newest("active"),
                                                 !.cand = k, !.graded = graded,
                                                 !.list = list]]
  /\ UNCHANGED <<packVars, rowVars, faults>>

\* A failing checklist refuses the publish unless it is forced, a choice of
\* the operator; an unevaluated or unknown candidate is refused.
BeginPublish(c) == \E k \in Candidates : Prepare(c, "publish", k, promotion[k])

\* --baselines-only, under the seats of the active pack itself.
BeginFill(c) == Prepare(c, "fill", None, Evaluated(FALSE))

\* upsertBundleTx: a row that is there keeps its id.
UpsertBundle(c) == bundleId' = IF bundleId = None THEN c ELSE bundleId

\* upsertBaselineTx for the gradeable responses under pack p, the judge's with
\* the id the command made up for the bundle.
UpsertBaselines(c, p) ==
  /\ viewBase' = IF "view" \in job[c].graded THEN viewBase \cup {p} ELSE viewBase
  /\ judgeBase' = IF "judge" \in job[c].graded THEN [judgeBase EXCEPT ![p] = c]
                                               ELSE judgeBase

\* Mutant: the packs on hold are not retired.
DemotedKeepsPrevious ==
  [p \in Commands |-> IF status[p] = "active" THEN "previous" ELSE status[p]]

\* Previous packs are retired, then every active one becomes previous.
Demoted ==
  [p \in Commands |-> CASE status[p] = "previous" -> "retired"
                        [] status[p] = "active"   -> "previous"
                        [] OTHER                  -> status[p]]

\* --force on a checklist that fails, as it read before the responses were
\* generated.
Forced(c) == At(c, "publish") /\ ~job[c].list.pass

\* The statement that writes the checklist back with the mark.
MarkForced(c) ==
  promotion' = IF Forced(c)
               THEN [promotion EXCEPT ![job[c].cand] = [job[c].list EXCEPT !.forced = TRUE]]
               ELSE promotion

\* PublishAtomic: packs, bundle, baselines and mark in one transaction.
CommitPublish(c) ==
  /\ At(c, "publish")
  /\ AddPack(c, Demoted)
  /\ activated' = activated \cup {c}
  /\ from' = [from EXCEPT ![c] = job[c].cand]
  /\ overrides' = IF Forced(c) THEN overrides \cup {c} ELSE overrides
  /\ replaced' = [replaced EXCEPT ![c] = Newest("active")]
  /\ UpsertBundle(c)
  /\ UpsertBaselines(c, c)
  /\ MarkForced(c)
  /\ Exit(c, "done")
  /\ UNCHANGED <<revived, faults>>

CommitFill(c) ==
  /\ At(c, "fill")
  /\ UpsertBundle(c)
  /\ UpsertBaselines(c, job[c].cur)
  /\ Exit(c, "done")
  /\ UNCHANGED <<packVars, promotion, faults>>

\* Mutant: the mark is written before the transaction, not in it.
MarkSurvives(c) == UNCHANGED <<packVars, bundleId, viewBase, judgeBase>> /\ MarkForced(c)

RolledBack(c) == UNCHANGED <<packVars, rowVars>>

\* A statement of the transaction fails: all of it is undone.
AbortTransaction(c) ==
  /\ At(c, "publish") \/ At(c, "fill")
  /\ Attempt(FALSE)
  /\ Exit(c, "done")
  /\ RolledBack(c)

-----------------------------------------------------------------------------
(* downstream once more for a candidate, at the end of it.                 *)

\* UpdateCandidateResults reads the whole row to store the downstream result.
ReadRow(c) ==
  /\ At(c, "idle")
  /\ \E k \in Candidates :
       job' = [job EXCEPT ![c].at = "store", ![c].cand = k, ![c].list = promotion[k]]
  /\ UNCHANGED <<packVars, rowVars, faults>>

\* It writes the whole row, promotion_json as it was read.
StoreResult(c) ==
  /\ At(c, "store")
  /\ \/ /\ Attempt(TRUE)
        /\ promotion' = [promotion EXCEPT ![job[c].cand] = job[c].list]
        /\ Goto(c, "evaluate")
     \/ Attempt(FALSE) /\ UNCHANGED promotion /\ Exit(c, "done")
  /\ UNCHANGED <<packVars, bundleId, viewBase, judgeBase>>

\* Promotion decides by the results in the row, and stores what it decides.
StorePromotion(c) ==
  /\ At(c, "evaluate")
  /\ \/ /\ Attempt(TRUE)
        /\ \E pass \in BOOLEAN :
             promotion' = [promotion EXCEPT ![job[c].cand] = Evaluated(pass)]
     \/ Attempt(FALSE) /\ UNCHANGED promotion
  /\ Exit(c, "done")
  /\ UNCHANGED <<packVars, bundleId, viewBase, judgeBase>>

-----------------------------------------------------------------------------
(* pack rollback: two reads and two statements.                            *)

ReadActive(c) ==
  /\ At(c, "idle")
  /\ Newest("active") # None
  /\ job' = [job EXCEPT ![c].at = "previous", ![c].cur = Newest("active")]
  /\ UNCHANGED <<packVars, rowVars, faults>>

HasPrevious == Newest("previous") # None

ReadPrevious(c) ==
  /\ At(c, "previous")
  /\ IF HasPrevious
     THEN job' = [job EXCEPT ![c].at = "demote", ![c].prev = Newest("previous")]
     ELSE Exit(c, "done")
  /\ UNCHANGED <<packVars, rowVars, faults>>

SetStatus(p, st) == /\ status' = [status EXCEPT ![p] = st]
                    /\ revived' = (revived \/ status[p] = "retired")

Demote(c) ==
  /\ At(c, "demote")
  /\ \/ Attempt(TRUE) /\ SetStatus(job[c].cur, "previous") /\ Goto(c, "promote")
     \/ Attempt(FALSE) /\ UNCHANGED <<status, revived>> /\ Exit(c, "done")
  /\ UNCHANGED <<born, activated, created, from, overrides, replaced, rowVars>>

\* Mutant: a failed promotion is not made good.
AfterFailureExit(c) == Exit(c, "done")

AfterFailure(c) == Goto(c, "undo")

Promote(c) ==
  /\ At(c, "promote")
  /\ \/ Attempt(TRUE) /\ SetStatus(job[c].prev, "active") /\ Exit(c, "done")
     \/ Attempt(FALSE) /\ UNCHANGED <<status, revived>> /\ AfterFailure(c)
  /\ UNCHANGED <<born, activated, created, from, overrides, replaced, rowVars>>

\* The old pack is made active again; whether that works is not looked at.
Undo(c) ==
  /\ At(c, "undo")
  /\ \/ Attempt(TRUE) /\ SetStatus(job[c].cur, "active") /\ Exit(c, "done")
     \/ Attempt(FALSE) /\ UNCHANGED <<status, revived>> /\ Exit(c, "torn")
  /\ UNCHANGED <<born, activated, created, from, overrides, replaced, rowVars>>

-----------------------------------------------------------------------------
Step(c) ==
  \/ InsertPack(c) \/ UpdatePackMeta(c)
  \/ BeginPublish(c) \/ CommitPublish(c)
  \/ BeginFill(c) \/ CommitFill(c) \/ AbortTransaction(c)
  \/ ReadRow(c) \/ StoreResult(c) \/ StorePromotion(c)
  \/ ReadActive(c) \/ ReadPrevious(c) \/ Demote(c) \/ Promote(c) \/ Undo(c)

Next == \E c \in Commands : Step(c)

Spec == Init /\ [][Next]_vars

-----------------------------------------------------------------------------
Statuses == {"absent", "active", "previous", "retired"}
Steps == {"idle", "meta", "publish", "fill", "store", "evaluate", "previous",
          "demote", "promote", "undo", "done", "torn"}
Packs == {p \in Commands : status[p] # "absent"}

Jobs == [at : Steps, cur : Commands \cup {None}, prev : Commands \cup {None},
         cand : Candidates \cup {None}, graded : SUBSET {"view", "judge"},
         list : Checklists]

\* A command that is going to write to a pack holds one that has a row.
HoldsItsPacks(c) ==
  /\ job[c].at \in {"publish", "fill", "previous", "demote", "promote", "undo"}
       => job[c].cur \in Packs
  /\ job[c].at \in {"demote", "promote", "undo"} => job[c].prev \in Packs
  /\ job[c].at \in {"publish", "store", "evaluate"} => job[c].cand \in Candidates

PackTypeOK ==
  /\ status \in [Commands -> Statuses]
  /\ born \in [Commands -> Nat] /\ created \in Nat
  /\ activated \subseteq Packs
  /\ from \in [Commands -> Candidates \cup {None}]
  /\ overrides \subseteq Packs
  /\ replaced \in [Commands -> Commands \cup {None}]
  /\ revived \in BOOLEAN

RowTypeOK ==
  /\ bundleId \in Commands \cup {None}
  /\ viewBase \subseteq Packs
  /\ judgeBase \in [Commands -> Commands \cup {None}]
  /\ promotion \in [Candidates -> Checklists]
  /\ faults \in 0..MaxFaults

JobTypeOK == job \in [Commands -> Jobs] /\ \A c \in Commands : HoldsItsPacks(c)

\* Every variable has its type, baselines belong to packs that exist, and no
\* command is about to write to a pack that does not.
TypeOK == PackTypeOK /\ RowTypeOK /\ JobTypeOK

\* A rollback has demoted a pack and not promoted the other: it is about to,
\* has died there, or could not.
Torn == \E c \in Commands : job[c].at \in {"promote", "undo", "torn"}

\* Once there is a pack there is an active one, which every request and every
\* harness command needs, whatever commands overlap: only a rollback stopped
\* between its two statements leaves none.
ActiveUnlessTorn == Packs # {} => WithStatus("active") # {} \/ Torn

\* A rollback would take back the last publish: while the newest pack is the
\* one active pack, the pack a rollback picks is the one it replaced.  Inits,
\* rollbacks and publishes may overlap, unless one that read its packs before
\* a publish writes to them after it has retired them.
RollbackUndoesPublish ==
  \A p \in Packs :
    /\ born[p] = created /\ replaced[p] # None
    /\ WithStatus("active") = {p}
    /\ ~revived
    => Newest("previous") = replaced[p]

\* "refuses a publish whose generated baseline responses contain no gradeable
\* evidence": no published pack is ever without a baseline.
PublishedHasEvidence ==
  \A p \in Packs : from[p] # None => p \in viewBase \/ judgeBase[p] # None

\* The mark and the pack swap "commit atomically": a candidate bears the mark
\* of an override only beside a checklist that fails and only if a pack was
\* published from it by force, also when the publish failed or died, and when
\* a downstream run writes back the row it read before or after one.
OverridesAreFounded ==
  \A k \in Candidates :
    promotion[k].forced => /\ ~promotion[k].pass
                           /\ \E p \in overrides : from[p] = k

\* "recorded in promotion_json so a forced publish is never silent": the
\* candidate of a pack published by force bears the mark.
ForcedIsNeverSilent == \A p \in overrides : promotion[from[p]].forced

\* "ID pins the row id so callers can reference the bundle in baseline seeds":
\* the bundle a judge baseline names is there.
JudgeBaselinesResolve == \A p \in Packs : judgeBase[p] \in {None, bundleId}
=============================================================================
