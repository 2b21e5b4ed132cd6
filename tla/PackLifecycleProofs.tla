------------------------- MODULE PackLifecycleProofs -------------------------
(***************************************************************************)
(* Proofs about PackLifecycle for every set of commands and candidates,    *)
(* and every bound on failing statements.                                  *)
(***************************************************************************)
EXTENDS PackLifecycle, TLAPS

\* Packs are numbered in the order of creation.
BornInOrder ==
  /\ \A p \in Commands : born[p] <= created
  /\ \A p, q \in Packs : born[p] = born[q] => p = q

\* Every set of packs has a newest one, though nothing bounds the commands.
SetsHaveNewest ==
  \A S \in SUBSET Packs : S # {} => \E m \in S : \A q \in S : born[q] <= born[m]

\* A command inserts one pack; before that the pack has no history.
OwnPack(c) ==
  /\ job[c].at \in {"idle", "publish"} => c \notin Packs
  /\ job[c].at = "meta" => c \in Packs
  /\ c \notin Packs => from[c] = None /\ replaced[c] = None
  /\ job[c].at = "publish" => job[c].graded # {}

\* Unless a retired pack came back, the pack that the newest one replaced is
\* active or on hold, and the most recent of those beside it.
ReplacedIsNext ==
  ~revived =>
    \A p \in Packs :
      born[p] = created /\ replaced[p] # None =>
        /\ replaced[p] \in Packs \ {p}
        /\ status[replaced[p]] \in {"active", "previous"}
        /\ \A q \in Packs \ {p} :
             status[q] \in {"active", "previous"} => born[q] <= born[replaced[p]]

OrderInv == BornInOrder /\ SetsHaveNewest /\ \A c \in Commands : OwnPack(c)

IInv == TypeOK /\ OrderInv /\ ReplacedIsNext

-----------------------------------------------------------------------------
\* What a query for the newest pack of a status returns.
LEMMA NewestIs ==
  ASSUME TypeOK, OrderInv, NEW st \in Statuses \ {"absent"}, WithStatus(st) # {}
  PROVE  /\ Newest(st) \in WithStatus(st)
         /\ Newest(st) # None
         /\ \A q \in WithStatus(st) : born[q] <= born[Newest(st)]
<1>1. WithStatus(st) \subseteq Packs
  BY DEF WithStatus, Packs
<1>2. \E m \in WithStatus(st) : \A q \in WithStatus(st) : born[q] <= born[m]
  BY <1>1 DEF OrderInv, SetsHaveNewest
<1>3. Newest(st) \in WithStatus(st) /\ \A q \in WithStatus(st) : born[q] <= born[Newest(st)]
  BY <1>2 DEF Newest
<1>4. QED
  BY <1>3, PackConstants DEF WithStatus

\* A query that finds no row gives None.
LEMMA NewestType ==
  ASSUME TypeOK, OrderInv, NEW st \in Statuses \ {"absent"}
  PROVE  Newest(st) # None => Newest(st) \in Packs
  BY NewestIs DEF Newest, WithStatus, Packs

\* What an evaluation stores is a checklist.
LEMMA EvaluatedType ==
  /\ \A pass \in BOOLEAN : Evaluated(pass) \in Checklists
  /\ {Evaluated(pass) : pass \in BOOLEAN} \subseteq Checklists
<1>1. Evaluated(TRUE) \in Checklists /\ Evaluated(FALSE) \in Checklists
  BY DEF Evaluated, Checklists
<1>2. QED
  BY <1>1

LEMMA InitInv == Init => IInv
<1> SUFFICES ASSUME Init PROVE IInv
  OBVIOUS
<1>1. Packs = {}
  BY DEF Init, Packs
<1>2. \A c \in Commands : job[c] = Idle
  BY DEF Init
<1>3. PackTypeOK
  BY <1>1, PackConstants DEF Init, PackTypeOK, Statuses
<1>4. RowTypeOK
  <2>1. promotion \in [Candidates -> Checklists]
    BY EvaluatedType DEF Init
  <2>2. QED
    BY <1>1, <2>1, PackConstants DEF Init, RowTypeOK
<1>5. JobTypeOK
  BY <1>2 DEF Init, JobTypeOK, HoldsItsPacks, Idle, Jobs, Steps, Checklists, Evaluated
<1>6. OrderInv
  BY <1>1, <1>2 DEF Init, OrderInv, BornInOrder, SetsHaveNewest, OwnPack, Idle
<1>7. QED
  BY <1>1, <1>3, <1>4, <1>5, <1>6 DEF IInv, TypeOK, ReplacedIsNext

-----------------------------------------------------------------------------
(* What the parts of a step do to the types.                               *)

LEMMA AttemptType ==
  ASSUME faults \in 0..MaxFaults, NEW ok \in BOOLEAN, Attempt(ok)
  PROVE  faults' \in 0..MaxFaults
  BY PackConstants DEF Attempt

\* A process that has exited holds nothing.
LEMMA ExitType ==
  ASSUME TypeOK, NEW c \in Commands, NEW how \in {"done", "torn"}, Exit(c, how),
         Packs \subseteq Packs'
  PROVE  JobTypeOK'
<1>1. job'[c] = [Idle EXCEPT !.at = how] /\ \A d \in Commands \ {c} : job'[d] = job[d]
  BY DEF TypeOK, JobTypeOK, Exit
<1>2. job' \in [Commands -> Jobs]
  BY DEF TypeOK, JobTypeOK, Exit, Idle, Jobs, Steps, Checklists, Evaluated
<1>3. HoldsItsPacks(c)'
  BY <1>1 DEF HoldsItsPacks, Idle
<1>4. \A d \in Commands \ {c} : HoldsItsPacks(d)'
  BY <1>1 DEF TypeOK, JobTypeOK, HoldsItsPacks
<1>5. QED
  BY <1>2, <1>3, <1>4 DEF JobTypeOK

\* A command that goes on keeps what it has read.
LEMMA GotoType ==
  ASSUME TypeOK, NEW c \in Commands,
         NEW step \in {"meta", "promote", "undo", "evaluate"}, Goto(c, step),
         Packs \subseteq Packs',
         step \in {"promote", "undo"} => job[c].at \in {"demote", "promote"},
         step = "evaluate" => job[c].at = "store"
  PROVE  JobTypeOK'
<1>1. job'[c] = [job[c] EXCEPT !.at = step] /\ \A d \in Commands \ {c} : job'[d] = job[d]
  BY DEF TypeOK, JobTypeOK, Goto
<1>2. job[c] \in Jobs /\ job' \in [Commands -> Jobs]
  BY DEF TypeOK, JobTypeOK, Goto, Jobs, Steps
<1>3. HoldsItsPacks(c)'
  BY <1>1, <1>2 DEF TypeOK, JobTypeOK, HoldsItsPacks, Jobs
<1>4. \A d \in Commands \ {c} : HoldsItsPacks(d)'
  BY <1>1 DEF TypeOK, JobTypeOK, HoldsItsPacks
<1>5. QED
  BY <1>2, <1>3, <1>4 DEF JobTypeOK

\* The store after a new row.
LEMMA AddPackType ==
  ASSUME TypeOK, NEW c \in Commands, NEW others \in [Commands -> Statuses],
         \A p \in Packs : others[p] # "absent",
         AddPack(c, others)
  PROVE  /\ status' \in [Commands -> Statuses]
         /\ born' \in [Commands -> Nat] /\ created' \in Nat
         /\ Packs' = Packs \cup {c} \cup {p \in Commands : others[p] # "absent"}
  BY DEF TypeOK, PackTypeOK, AddPack, Statuses, Packs

\* The candidates and seats of a prepared command.
LEMMA PrepareType ==
  ASSUME TypeOK, OrderInv, NEW c \in Commands, NEW step \in {"publish", "fill"},
         NEW k \in Candidates \cup {None}, step = "publish" => k \in Candidates,
         NEW list \in Checklists, Prepare(c, step, k, list)
  PROVE  TypeOK'
<1>1. PICK graded \in SUBSET {"view", "judge"} :
        job' = [job EXCEPT ![c] = [Idle EXCEPT !.at = step, !.cur = Newest("active"),
                                               !.cand = k, !.graded = graded,
                                               !.list = list]]
  BY DEF Prepare
<1>2. PackTypeOK' /\ RowTypeOK' /\ Packs' = Packs
  BY DEF Prepare, packVars, rowVars, TypeOK, PackTypeOK, RowTypeOK, Packs
<1>3. Newest("active") \in Packs
  BY NewestType DEF Prepare, Statuses
<1>4. job'[c] = [at |-> step, cur |-> Newest("active"), prev |-> None, cand |-> k,
                 graded |-> graded, list |-> list]
  BY <1>1 DEF TypeOK, JobTypeOK, Idle
<1>5. \A d \in Commands \ {c} : job'[d] = job[d]
  BY <1>1 DEF TypeOK, JobTypeOK
<1>6. job'[c] \in Jobs
  BY <1>3, <1>4 DEF Jobs, Steps, Packs
<1>7. job' \in [Commands -> Jobs]
  BY <1>1, <1>5, <1>6 DEF TypeOK, JobTypeOK
<1>8. HoldsItsPacks(c)'
  BY <1>2, <1>3, <1>4 DEF HoldsItsPacks
<1>9. \A d \in Commands \ {c} : HoldsItsPacks(d)'
  BY <1>2, <1>5 DEF TypeOK, JobTypeOK, HoldsItsPacks
<1>10. QED
  BY <1>2, <1>7, <1>8, <1>9 DEF TypeOK, JobTypeOK

\* A rollback writes to packs that exist, so the set of packs stays.
LEMMA SetStatusType ==
  ASSUME TypeOK, NEW p \in Packs, NEW st \in {"active", "previous"}, SetStatus(p, st)
  PROVE  /\ status' \in [Commands -> Statuses]
         /\ revived' \in BOOLEAN
         /\ Packs' = Packs
<1>1. \A q \in Commands : status'[q] = IF q = p THEN st ELSE status[q]
  BY DEF SetStatus, TypeOK, PackTypeOK
<1>2. status' \in [Commands -> Statuses] /\ revived' \in BOOLEAN
  BY DEF SetStatus, TypeOK, PackTypeOK, Statuses, Packs
<1>3. Packs' = Packs
  BY <1>1 DEF Packs
<1>4. QED
  BY <1>2, <1>3

\* Publishing keeps every pack.
LEMMA DemotedType ==
  ASSUME TypeOK
  PROVE  /\ Demoted \in [Commands -> Statuses]
         /\ {p \in Commands : Demoted[p] # "absent"} = Packs
  BY DEF TypeOK, PackTypeOK, Demoted, Statuses, Packs

\* The statement of a rollback that makes or undoes a change of status.
RollbackStatement(c) == Demote(c) \/ Promote(c) \/ Undo(c)

LEMMA RollbackType ==
  ASSUME TypeOK, NEW c \in Commands, RollbackStatement(c)
  PROVE  TypeOK' /\ Packs' = Packs
<1>1. job[c].cur \in Packs /\ job[c].prev \in Packs
  BY DEF RollbackStatement, Demote, Promote, Undo, At, TypeOK, JobTypeOK, HoldsItsPacks
<1>2. /\ status' \in [Commands -> Statuses]
      /\ revived' \in BOOLEAN
      /\ Packs' = Packs
  <2>1. CASE UNCHANGED <<status, revived>>
    BY <2>1 DEF TypeOK, PackTypeOK, Packs
  <2>2. CASE \E p \in Packs, st \in {"active", "previous"} : SetStatus(p, st)
    BY <2>2, SetStatusType
  <2>3. QED
    BY <1>1, <2>1, <2>2 DEF RollbackStatement, Demote, Promote, Undo
<1>3. PackTypeOK'
  BY <1>2 DEF RollbackStatement, Demote, Promote, Undo, TypeOK, PackTypeOK
<1>4. faults' \in 0..MaxFaults
  BY AttemptType DEF RollbackStatement, Demote, Promote, Undo, TypeOK, RowTypeOK
<1>5. RowTypeOK'
  BY <1>2, <1>4 DEF RollbackStatement, Demote, Promote, Undo, rowVars, TypeOK, RowTypeOK
<1>6. JobTypeOK'
  <2>1. CASE \E how \in {"done", "torn"} : Exit(c, how)
    BY <1>2, <2>1, ExitType
  <2>2. CASE \E step \in {"promote", "undo"} : job[c].at \in {"demote", "promote"} /\ Goto(c, step)
    BY <1>2, <2>2, GotoType
  <2>3. QED
    BY <2>1, <2>2 DEF RollbackStatement, Demote, Promote, Undo, At, AfterFailure
<1>7. QED
  BY <1>2, <1>3, <1>5, <1>6 DEF TypeOK

\* A step of a further downstream run.
RerunStep(c) == ReadRow(c) \/ StoreResult(c) \/ StorePromotion(c)

LEMMA RerunType ==
  ASSUME TypeOK, NEW c \in Commands, RerunStep(c)
  PROVE  /\ TypeOK' /\ Packs' = Packs /\ UNCHANGED <<packVars, bundleId, viewBase, judgeBase>>
         /\ \A d \in Commands \ {c} : job'[d] = job[d]
         /\ job'[c].at \in {"store", "evaluate", "done"}
<1>1. UNCHANGED <<packVars, bundleId, viewBase, judgeBase>> /\ Packs' = Packs
  BY DEF RerunStep, ReadRow, StoreResult, StorePromotion, packVars, rowVars, Packs
<1>2. PackTypeOK'
  BY <1>1 DEF packVars, TypeOK, PackTypeOK
<1>3. CASE ReadRow(c)
  <2>1. PICK k \in Candidates :
          job' = [job EXCEPT ![c].at = "store", ![c].cand = k, ![c].list = promotion[k]]
    BY <1>3 DEF ReadRow
  <2>2. job[c] \in Jobs /\ promotion[k] \in Checklists
    BY DEF TypeOK, JobTypeOK, RowTypeOK
  <2>3. job'[c] = [job[c] EXCEPT !.at = "store", !.cand = k, !.list = promotion[k]]
    BY <2>1 DEF TypeOK, JobTypeOK
  <2>4. job'[c] \in Jobs /\ job'[c].at = "store" /\ job'[c].cand = k
    BY <2>2, <2>3 DEF Jobs, Steps
  <2>5. job' \in [Commands -> Jobs] /\ \A d \in Commands \ {c} : job'[d] = job[d]
    BY <2>1, <2>4 DEF TypeOK, JobTypeOK
  <2>6. \A d \in Commands : HoldsItsPacks(d)'
    BY <1>1, <2>4, <2>5 DEF TypeOK, JobTypeOK, HoldsItsPacks
  <2>7. RowTypeOK'
    BY <1>1, <1>3 DEF ReadRow, rowVars, TypeOK, RowTypeOK
  <2>8. QED
    BY <1>1, <1>2, <2>4, <2>5, <2>6, <2>7 DEF TypeOK, JobTypeOK
<1>4. CASE StoreResult(c) \/ StorePromotion(c)
  <2>1. job[c] \in Jobs /\ job[c].cand \in Candidates
    BY <1>4 DEF StoreResult, StorePromotion, At, TypeOK, JobTypeOK, HoldsItsPacks
  <2>2. promotion' \in [Candidates -> Checklists]
    <3>1. job[c].list \in Checklists /\ promotion \in [Candidates -> Checklists]
      BY <2>1 DEF Jobs, TypeOK, RowTypeOK
    <3>2. PICK list \in Checklists :
            promotion' \in {promotion, [promotion EXCEPT ![job[c].cand] = list]}
      BY <1>4, <3>1, EvaluatedType DEF StoreResult, StorePromotion
    <3>3. QED
      BY <2>1, <3>1, <3>2
  <2>3. RowTypeOK'
    BY <1>1, <1>4, <2>2, AttemptType DEF StoreResult, StorePromotion, TypeOK, RowTypeOK
  <2>4. CASE Exit(c, "done")
    BY <1>1, <1>2, <2>3, <2>4, ExitType DEF Exit, Idle, TypeOK, JobTypeOK
  <2>5. CASE Goto(c, "evaluate") /\ job[c].at = "store"
    <3>1. JobTypeOK'
      BY <1>1, <2>5, GotoType
    <3>2. QED
      BY <1>1, <1>2, <2>1, <2>3, <2>5, <3>1 DEF Goto, TypeOK, JobTypeOK, Jobs
  <2>6. QED
    BY <1>4, <2>4, <2>5 DEF StoreResult, StorePromotion, At
<1>5. QED
  BY <1>3, <1>4 DEF RerunStep

-----------------------------------------------------------------------------
(* Types are kept.                                                         *)

LEMMA TypeStep ==
  ASSUME IInv, [Next]_vars
  PROVE  TypeOK' /\ Packs \subseteq Packs'
<1> USE DEF IInv
<1>1. ASSUME NEW c \in Commands, InsertPack(c)
      PROVE  TypeOK' /\ Packs \subseteq Packs'
  <2>1. PICK ok \in BOOLEAN :
          /\ Attempt(ok)
          /\ IF ok THEN AddPack(c, status) /\ Goto(c, "meta")
                   ELSE UNCHANGED <<status, born, created>> /\ Exit(c, "done")
    BY <1>1 DEF InsertPack
  <2>2. PackTypeOK' /\ Packs \subseteq Packs'
    <3>1. CASE ok
      BY <1>1, <2>1, <3>1, AddPackType DEF InsertPack, TypeOK, PackTypeOK, Packs
    <3>2. CASE ~ok
      BY <1>1, <2>1, <3>2 DEF InsertPack, TypeOK, PackTypeOK, Packs
    <3>3. QED
      BY <3>1, <3>2
  <2>3. RowTypeOK'
    BY <1>1, <2>1, <2>2, AttemptType DEF InsertPack, rowVars, TypeOK, RowTypeOK
  <2>4. JobTypeOK'
    <3>1. CASE ok
      <4>1. TypeOK /\ Goto(c, "meta") /\ Packs \subseteq Packs'
        BY <2>1, <2>2, <3>1
      <4>2. QED
        BY <4>1, GotoType
    <3>2. CASE ~ok
      BY <2>1, <2>2, <3>2, ExitType
    <3>3. QED
      BY <3>1, <3>2
  <2>5. QED
    BY <2>2, <2>3, <2>4 DEF TypeOK
<1>2. ASSUME NEW c \in Commands, UpdatePackMeta(c)
      PROVE  TypeOK' /\ Packs \subseteq Packs'
  <2>1. Packs' = Packs
    BY <1>2 DEF UpdatePackMeta, Packs
  <2>2. c \in Packs
    BY <1>2 DEF UpdatePackMeta, At, OrderInv, OwnPack
  <2>3. PackTypeOK'
    BY <1>2, <2>1, <2>2 DEF UpdatePackMeta, TypeOK, PackTypeOK
  <2>4. RowTypeOK'
    BY <1>2, <2>1, AttemptType DEF UpdatePackMeta, rowVars, TypeOK, RowTypeOK
  <2>5. JobTypeOK'
    BY <1>2, <2>1, ExitType DEF UpdatePackMeta
  <2>6. QED
    BY <2>1, <2>3, <2>4, <2>5 DEF TypeOK
<1>3. ASSUME NEW c \in Commands, BeginPublish(c) \/ BeginFill(c)
      PROVE  TypeOK' /\ Packs \subseteq Packs'
  <2>1. PICK step \in {"publish", "fill"}, k \in Candidates \cup {None}, list \in Checklists :
          (step = "publish" => k \in Candidates) /\ Prepare(c, step, k, list)
    BY <1>3, EvaluatedType DEF BeginPublish, BeginFill, TypeOK, RowTypeOK
  <2>2. TypeOK'
    BY <2>1, PrepareType
  <2>3. QED
    BY <2>1, <2>2 DEF Prepare, packVars, Packs
<1>4. ASSUME NEW c \in Commands, CommitPublish(c)
      PROVE  TypeOK' /\ Packs \subseteq Packs'
  <2>1. job[c].cur \in Packs /\ job[c].cand \in Candidates
    BY <1>4 DEF CommitPublish, At, TypeOK, JobTypeOK, HoldsItsPacks
  <2>2. /\ status' \in [Commands -> Statuses]
        /\ born' \in [Commands -> Nat] /\ created' \in Nat
        /\ Packs' = Packs \cup {c}
    BY <1>4, DemotedType, AddPackType DEF CommitPublish, Packs
  <2>3. Newest("active") \in Commands \cup {None}
    BY NewestType DEF Statuses, Packs
  <2>4. PackTypeOK'
    BY <1>4, <2>1, <2>2, <2>3 DEF CommitPublish, TypeOK, PackTypeOK
  <2>5. RowTypeOK'
    <3>1. job[c].list \in Checklists
      BY DEF TypeOK, JobTypeOK, Jobs
    <3>2. promotion' \in [Candidates -> Checklists]
      BY <1>4, <2>1, <3>1 DEF CommitPublish, MarkForced, Checklists, TypeOK, RowTypeOK
    <3>3. QED
      BY <1>4, <2>1, <2>2, <3>2
      DEF CommitPublish, UpsertBundle, UpsertBaselines, TypeOK, RowTypeOK
  <2>6. JobTypeOK'
    BY <1>4, <2>2, ExitType DEF CommitPublish
  <2>7. QED
    BY <2>2, <2>4, <2>5, <2>6 DEF TypeOK
<1>5. ASSUME NEW c \in Commands, CommitFill(c) \/ AbortTransaction(c)
      PROVE  TypeOK' /\ Packs \subseteq Packs'
  <2>1. job[c].cur \in Packs
    BY <1>5 DEF CommitFill, AbortTransaction, At, TypeOK, JobTypeOK, HoldsItsPacks
  <2>2. PackTypeOK' /\ Packs' = Packs
    BY <1>5 DEF CommitFill, AbortTransaction, RolledBack, packVars, TypeOK, PackTypeOK, Packs
  <2>3. CASE CommitFill(c)
    <3>1. RowTypeOK'
      BY <2>1, <2>2, <2>3
      DEF CommitFill, UpsertBundle, UpsertBaselines, TypeOK, RowTypeOK, Packs
    <3>2. JobTypeOK'
      BY <2>2, <2>3, ExitType DEF CommitFill
    <3>3. QED
      BY <2>2, <3>1, <3>2 DEF TypeOK
  <2>4. CASE AbortTransaction(c)
    <3>1. RowTypeOK'
      BY <2>2, <2>4, AttemptType DEF AbortTransaction, RolledBack, rowVars, TypeOK, RowTypeOK
    <3>2. JobTypeOK'
      BY <2>2, <2>4, ExitType DEF AbortTransaction
    <3>3. QED
      BY <2>2, <3>1, <3>2 DEF TypeOK
  <2>5. QED
    BY <1>5, <2>3, <2>4
<1>6. ASSUME NEW c \in Commands, ReadActive(c) \/ ReadPrevious(c)
      PROVE  TypeOK' /\ Packs \subseteq Packs'
  <2>1. PackTypeOK' /\ RowTypeOK' /\ Packs' = Packs
    BY <1>6 DEF ReadActive, ReadPrevious, packVars, rowVars,
                TypeOK, PackTypeOK, RowTypeOK, Packs
  <2>2. CASE ReadActive(c)
    <3>1. Newest("active") \in Packs
      BY <2>2, NewestType DEF ReadActive, Statuses
    <3>2. job[c] \in Jobs
      BY DEF TypeOK, JobTypeOK
    <3>3. job'[c] = [job[c] EXCEPT !.at = "previous", !.cur = Newest("active")]
      BY <2>2 DEF ReadActive, TypeOK, JobTypeOK
    <3>4. job'[c].at = "previous" /\ job'[c].cur = Newest("active") /\ job'[c] \in Jobs
      BY <3>1, <3>2, <3>3 DEF Jobs, Steps, Packs
    <3>5. job' \in [Commands -> Jobs] /\ \A d \in Commands \ {c} : job'[d] = job[d]
      BY <2>2, <3>4 DEF ReadActive, TypeOK, JobTypeOK
    <3>6. \A d \in Commands : HoldsItsPacks(d)'
      BY <2>1, <3>1, <3>4, <3>5 DEF TypeOK, JobTypeOK, HoldsItsPacks
    <3>7. QED
      BY <2>1, <3>5, <3>6 DEF TypeOK, JobTypeOK
  <2>3. CASE ReadPrevious(c) /\ ~HasPrevious
    BY <2>1, <2>3, ExitType DEF ReadPrevious, TypeOK
  <2>4. CASE ReadPrevious(c) /\ HasPrevious
    <3>1. Newest("previous") \in Packs /\ job[c].cur \in Packs
      BY <2>4, NewestType
      DEF ReadPrevious, HasPrevious, Statuses, At, TypeOK, JobTypeOK, HoldsItsPacks
    <3>2. job[c] \in Jobs
      BY DEF TypeOK, JobTypeOK
    <3>3. job'[c] = [job[c] EXCEPT !.at = "demote", !.prev = Newest("previous")]
      BY <2>4 DEF ReadPrevious, TypeOK, JobTypeOK
    <3>4. /\ job'[c].at = "demote" /\ job'[c].prev = Newest("previous")
          /\ job'[c].cur = job[c].cur /\ job'[c] \in Jobs
      BY <3>1, <3>2, <3>3 DEF Jobs, Steps, Packs
    <3>5. job' \in [Commands -> Jobs] /\ \A d \in Commands \ {c} : job'[d] = job[d]
      BY <2>4, <3>4 DEF ReadPrevious, TypeOK, JobTypeOK
    <3>6. \A d \in Commands : HoldsItsPacks(d)'
      BY <2>1, <3>1, <3>4, <3>5 DEF TypeOK, JobTypeOK, HoldsItsPacks
    <3>7. QED
      BY <2>1, <3>5, <3>6 DEF TypeOK, JobTypeOK
  <2>5. QED
    BY <1>6, <2>2, <2>3, <2>4
<1>7. ASSUME NEW c \in Commands, RollbackStatement(c)
      PROVE  TypeOK' /\ Packs \subseteq Packs'
  BY <1>7, RollbackType
<1>8. ASSUME NEW c \in Commands, RerunStep(c)
      PROVE  TypeOK' /\ Packs \subseteq Packs'
  BY <1>8, RerunType
<1>9. CASE UNCHANGED vars
  <2>1. PackTypeOK' /\ RowTypeOK' /\ Packs' = Packs
    BY <1>9 DEF vars, packVars, rowVars, TypeOK, PackTypeOK, RowTypeOK, Packs
  <2>2. JobTypeOK'
    BY <1>9, <2>1 DEF vars, TypeOK, JobTypeOK, HoldsItsPacks
  <2>3. QED
    BY <2>1, <2>2 DEF TypeOK
<1>10. QED
  BY <1>1, <1>2, <1>3, <1>4, <1>5, <1>6, <1>7, <1>8, <1>9
  DEF Next, Step, RollbackStatement, RerunStep

-----------------------------------------------------------------------------
(* The order of the packs and what commands have to do with theirs.        *)

\* A step inserts the pack of its command, as the newest one, or none.
InsertsOwn(c) ==
  /\ c \notin Packs
  /\ Packs' = Packs \cup {c}
  /\ born' = [born EXCEPT ![c] = created + 1]
  /\ created' = created + 1
InsertsNone == Packs' = Packs /\ UNCHANGED <<born, created>>

LEMMA OrderKept ==
  ASSUME TypeOK, OrderInv, NEW c \in Commands, InsertsOwn(c) \/ InsertsNone
  PROVE  BornInOrder' /\ SetsHaveNewest'
<1>1. CASE InsertsNone
  BY <1>1 DEF InsertsNone, OrderInv, BornInOrder, SetsHaveNewest
<1>2. CASE InsertsOwn(c)
  <2>1. /\ born'[c] = created + 1
        /\ \A p \in Commands \ {c} : born'[p] = born[p]
        /\ \A p \in Commands : born[p] \in Nat /\ born[p] <= created
        /\ created \in Nat /\ created' = created + 1
        /\ Packs' = Packs \cup {c} /\ c \notin Packs /\ Packs \subseteq Commands
    BY <1>2 DEF InsertsOwn, TypeOK, PackTypeOK, OrderInv, BornInOrder, Packs
  <2>2. BornInOrder'
    BY <2>1 DEF OrderInv, BornInOrder
  <2>3. SetsHaveNewest'
    <3> SUFFICES ASSUME NEW S \in SUBSET (Packs \cup {c}), S # {}
                 PROVE  \E m \in S : \A q \in S : born'[q] <= born'[m]
      BY <2>1 DEF SetsHaveNewest
    <3>1. CASE c \in S
      <4>1. \A q \in S : born'[q] <= born'[c]
        BY <2>1
      <4>2. QED
        BY <3>1, <4>1
    <3>2. CASE c \notin S
      <4>1. S \subseteq Packs
        BY <3>2
      <4>2. PICK m \in S : \A q \in S : born[q] <= born[m]
        BY <4>1 DEF OrderInv, SetsHaveNewest
      <4>3. \A q \in S : born'[q] = born[q]
        BY <2>1, <4>1
      <4>4. QED
        BY <4>2, <4>3
    <3>3. QED
      BY <3>1, <3>2
  <2>4. QED
    BY <2>2, <2>3
<1>3. QED
  BY <1>1, <1>2

\* Each action inserts its own pack or none, and moves no other command.
LEMMA StepInserts ==
  ASSUME IInv, NEW c \in Commands, Step(c)
  PROVE  /\ InsertsOwn(c) \/ InsertsNone
         /\ \A d \in Commands \ {c} : job'[d] = job[d]
         /\ \A d \in Commands \ {c} : from'[d] = from[d] /\ replaced'[d] = replaced[d]
<1> USE DEF IInv
<1>1. CASE InsertPack(c)
  <2>1. c \notin Packs
    BY <1>1 DEF InsertPack, At, OrderInv, OwnPack
  <2>2. InsertsOwn(c) \/ InsertsNone
    <3>1. CASE AddPack(c, status)
      BY <2>1, <3>1, AddPackType DEF AddPack, InsertsOwn, TypeOK, PackTypeOK, Packs
    <3>2. CASE UNCHANGED <<status, born, created>>
      BY <3>2 DEF InsertsNone, Packs
    <3>3. QED
      BY <1>1, <3>1, <3>2 DEF InsertPack
  <2>3. QED
    BY <1>1, <2>2 DEF InsertPack, Goto, Exit, TypeOK, JobTypeOK
<1>2. CASE CommitPublish(c)
  <2>1. c \notin Packs
    BY <1>2 DEF CommitPublish, At, OrderInv, OwnPack
  <2>2. InsertsOwn(c)
    BY <1>2, <2>1, DemotedType, AddPackType DEF CommitPublish, AddPack, InsertsOwn
  <2>3. QED
    BY <1>2, <2>2 DEF CommitPublish, Exit, TypeOK, JobTypeOK, PackTypeOK
<1>3. CASE RollbackStatement(c)
  <2>1. InsertsNone
    BY <1>3, RollbackType DEF RollbackStatement, Demote, Promote, Undo, InsertsNone
  <2>2. QED
    BY <1>3, <2>1 DEF RollbackStatement, Demote, Promote, Undo, AfterFailure, Goto, Exit,
                      TypeOK, JobTypeOK
<1>4. CASE UpdatePackMeta(c) \/ CommitFill(c) \/ AbortTransaction(c)
  <2>1. InsertsNone /\ UNCHANGED <<from, replaced>> /\ Exit(c, "done")
    BY <1>4 DEF UpdatePackMeta, CommitFill, AbortTransaction, RolledBack, packVars,
                InsertsNone, Packs
  <2>2. QED
    BY <2>1 DEF Exit, TypeOK, JobTypeOK
<1>5. CASE BeginPublish(c) \/ BeginFill(c)
  <2>1. PICK step \in {"publish", "fill"}, k \in Candidates \cup {None},
             list \in Checklists : Prepare(c, step, k, list)
    BY <1>5, EvaluatedType DEF BeginPublish, BeginFill, TypeOK, RowTypeOK
  <2>2. QED
    BY <2>1 DEF Prepare, packVars, InsertsNone, Packs, TypeOK, JobTypeOK
<1>6. CASE ReadActive(c) \/ ReadPrevious(c)
  BY <1>6 DEF ReadActive, ReadPrevious, Exit, packVars, InsertsNone, Packs, TypeOK, JobTypeOK
<1>7. CASE RerunStep(c)
  BY <1>7, RerunType DEF packVars, InsertsNone
<1>8. QED
  BY <1>1, <1>2, <1>3, <1>4, <1>5, <1>6, <1>7 DEF Step, RollbackStatement, RerunStep

LEMMA OwnPackStep ==
  ASSUME IInv, NEW c \in Commands, Step(c)
  PROVE  \A d \in Commands : OwnPack(d)'
<1> USE DEF IInv
<1>1. /\ InsertsOwn(c) \/ InsertsNone
      /\ \A d \in Commands \ {c} : /\ job'[d] = job[d]
                                   /\ from'[d] = from[d] /\ replaced'[d] = replaced[d]
  BY StepInserts
<1>2. \A d \in Commands \ {c} : d \in Packs' <=> d \in Packs
  BY <1>1 DEF InsertsOwn, InsertsNone
<1>3. \A d \in Commands \ {c} : OwnPack(d)'
  BY <1>1, <1>2 DEF OrderInv, OwnPack
<1>4. OwnPack(c) /\ job[c] \in Jobs
  BY DEF OrderInv, TypeOK, JobTypeOK
<1>5. CASE InsertPack(c) \/ CommitPublish(c)
  <2>1. CASE c \in Packs'
    <3>1. job'[c].at \in {"meta", "done"}
      BY <1>5 DEF InsertPack, CommitPublish, Goto, Exit, Idle, TypeOK, JobTypeOK, Jobs
    <3>2. QED
      BY <1>3, <2>1, <3>1 DEF OwnPack
  <2>2. CASE c \notin Packs'
    <3>1. Exit(c, "done") /\ UNCHANGED <<from, replaced>> /\ c \notin Packs
      BY <1>5, <2>2, DemotedType, AddPackType DEF InsertPack, CommitPublish, TypeOK, PackTypeOK, Packs
    <3>2. job'[c].at = "done"
      BY <3>1 DEF Exit, Idle, TypeOK, JobTypeOK
    <3>3. QED
      BY <1>3, <1>4, <2>2, <3>1, <3>2 DEF OwnPack
  <2>3. QED
    BY <2>1, <2>2
<1>6. CASE BeginPublish(c) \/ BeginFill(c)
  <2>1. PICK step \in {"publish", "fill"}, k \in Candidates \cup {None},
             list \in Checklists : Prepare(c, step, k, list)
    BY <1>6, EvaluatedType DEF BeginPublish, BeginFill, TypeOK, RowTypeOK
  <2>2. PICK graded : /\ EnoughEvidence(graded)
                      /\ job'[c].at = step /\ job'[c].graded = graded
    BY <2>1 DEF Prepare, Idle, TypeOK, JobTypeOK
  <2>3. Packs' = Packs /\ UNCHANGED <<from, replaced>> /\ job[c].at = "idle"
    BY <2>1 DEF Prepare, At, packVars, Packs
  <2>4. OwnPack(c)'
    BY <1>4, <2>2, <2>3 DEF OwnPack, EnoughEvidence
  <2>5. QED
    BY <1>3, <2>4
<1>7. CASE \/ UpdatePackMeta(c) \/ CommitFill(c) \/ AbortTransaction(c)
           \/ ReadActive(c) \/ ReadPrevious(c) \/ RollbackStatement(c)
  <2>1. Packs' = Packs /\ UNCHANGED <<from, replaced>>
    BY <1>7, RollbackType
    DEF UpdatePackMeta, CommitFill, AbortTransaction, RolledBack, ReadActive, ReadPrevious,
        RollbackStatement, Demote, Promote, Undo, packVars, Packs
  <2>2. job'[c].at \in {"previous", "demote", "promote", "undo", "done", "torn"}
    <3>1. CASE \E how \in {"done", "torn"} : Exit(c, how)
      BY <3>1 DEF Exit, Idle, TypeOK, JobTypeOK
    <3>2. CASE \E step \in {"promote", "undo"} : Goto(c, step)
      BY <1>4, <3>2 DEF Goto, TypeOK, JobTypeOK, Jobs
    <3>3. CASE ReadActive(c) \/ ReadPrevious(c)
      BY <1>4, <3>1, <3>3 DEF ReadActive, ReadPrevious, TypeOK, JobTypeOK, Jobs
    <3>4. QED
      BY <1>7, <3>1, <3>2, <3>3 DEF UpdatePackMeta, CommitFill, AbortTransaction,
         RollbackStatement, Demote, Promote, Undo, AfterFailure
  <2>3. QED
    BY <1>3, <1>4, <2>1, <2>2 DEF OwnPack
<1>8. CASE RerunStep(c)
  BY <1>3, <1>4, <1>8, RerunType DEF OwnPack, packVars
<1>9. QED
  BY <1>5, <1>6, <1>7, <1>8 DEF Step, RollbackStatement, RerunStep

LEMMA OrderStep ==
  ASSUME IInv, [Next]_vars
  PROVE  OrderInv'
<1>1. CASE UNCHANGED vars
  BY <1>1 DEF vars, packVars, IInv, OrderInv, BornInOrder, SetsHaveNewest, OwnPack, Packs
<1>2. ASSUME NEW c \in Commands, Step(c)
      PROVE  OrderInv'
  BY <1>2, StepInserts, OrderKept, OwnPackStep DEF IInv, OrderInv
<1>3. QED
  BY <1>1, <1>2 DEF Next

-----------------------------------------------------------------------------
(* What a rollback would take back.                                        *)

\* Statuses that say a pack is in use or on hold.
Live(s) == s \in {"active", "previous"}

LEMMA ReplacedStep ==
  ASSUME IInv, [Next]_vars
  PROVE  ReplacedIsNext'
<1> USE DEF IInv
<1>1. CASE UNCHANGED packVars
  BY <1>1 DEF packVars, ReplacedIsNext, Packs
<1>2. ASSUME NEW c \in Commands, InsertPack(c) \/ CommitPublish(c), Packs' # Packs
      PROVE  ReplacedIsNext'
  <2>1. /\ c \notin Packs /\ Packs' = Packs \cup {c} /\ Packs \subseteq Commands
        /\ born' = [born EXCEPT ![c] = created + 1] /\ created' = created + 1
        /\ created \in Nat
        /\ \A p \in Commands : born[p] \in Nat /\ born[p] <= created
    BY <1>2, StepInserts
    DEF Step, InsertsOwn, InsertsNone, TypeOK, PackTypeOK, OrderInv, BornInOrder, Packs
  <2>2. \A p \in Packs : born'[p] = born[p] /\ born'[p] # created'
    BY <2>1 DEF TypeOK, PackTypeOK
  <2>3. CASE InsertPack(c)
    <3>1. replaced'[c] = None
      BY <2>1, <2>3 DEF InsertPack, OrderInv, OwnPack
    <3>2. QED
      BY <2>1, <2>2, <3>1 DEF ReplacedIsNext
  <2>4. CASE CommitPublish(c) /\ Newest("active") = None
    <3>1. replaced'[c] = None
      BY <2>4 DEF CommitPublish, TypeOK, PackTypeOK
    <3>2. QED
      BY <2>1, <2>2, <3>1 DEF ReplacedIsNext
  <2>5. CASE CommitPublish(c) /\ Newest("active") # None
    <3> DEFINE r == Newest("active")
    <3>1. replaced'[c] = r
      BY <2>5 DEF CommitPublish, TypeOK, PackTypeOK
    <3>2. \A p \in Packs : status'[p] = Demoted[p]
      BY <2>1, <2>5 DEF CommitPublish, AddPack, DemotedType, Demoted, Packs
    <3>3. \A p \in Packs : Live(status'[p]) <=> p \in WithStatus("active")
      BY <3>2 DEF Demoted, Live, WithStatus, Packs
    <3>4. WithStatus("active") # {}
      BY <2>5 DEF Newest
    <3>5. r \in WithStatus("active") /\ \A q \in WithStatus("active") : born[q] <= born[r]
      BY <3>4, NewestIs DEF Statuses
    <3>6. r \in Packs
      BY <3>5 DEF WithStatus, Packs
    <3> HIDE DEF r
    <3>7. Live(status'[r]) /\ \A q \in Packs : Live(status'[q]) => born'[q] <= born'[r]
      BY <2>2, <3>3, <3>5, <3>6
    <3>8. QED
      BY <2>1, <2>2, <3>1, <3>6, <3>7 DEF ReplacedIsNext, Live
  <2>6. QED
    BY <1>2, <2>3, <2>4, <2>5
<1>3. ASSUME NEW c \in Commands, (InsertPack(c) /\ Packs' = Packs) \/ UpdatePackMeta(c)
      PROVE  ReplacedIsNext'
  <2>1. Packs' = Packs /\ UNCHANGED <<status, born, created, replaced, revived>>
    BY <1>3, StepInserts, AddPackType
    DEF Step, InsertPack, UpdatePackMeta, OrderInv, OwnPack, At, TypeOK, PackTypeOK, Packs
  <2>2. QED
    BY <2>1 DEF ReplacedIsNext
<1>4. ASSUME NEW c \in Commands, RollbackStatement(c)
      PROVE  ReplacedIsNext'
  <2>1. Packs' = Packs /\ UNCHANGED <<born, created, replaced>>
    BY <1>4, RollbackType DEF RollbackStatement, Demote, Promote, Undo
  <2>2. CASE UNCHANGED <<status, revived>>
    BY <2>1, <2>2 DEF ReplacedIsNext
  <2>3. CASE \E p \in Packs, st \in {"active", "previous"} : SetStatus(p, st)
    <3>1. PICK p \in Packs, st \in {"active", "previous"} : SetStatus(p, st)
      BY <2>3
    <3>2. \A q \in Packs : status'[q] = IF q = p THEN st ELSE status[q]
      BY <3>1 DEF SetStatus, TypeOK, PackTypeOK, Packs
    <3>3. ~revived' => ~revived /\ Live(status[p])
      BY <3>1 DEF SetStatus, TypeOK, PackTypeOK, Statuses, Packs, Live
    <3>4. ~revived' => ~revived /\ \A q \in Packs : Live(status'[q]) <=> Live(status[q])
      BY <3>1, <3>2, <3>3 DEF Live
    <3>5. QED
      BY <2>1, <3>4 DEF ReplacedIsNext, Live
  <2>4. QED
    <3>1. job[c].cur \in Packs /\ job[c].prev \in Packs
      BY <1>4 DEF RollbackStatement, Demote, Promote, Undo, At, TypeOK, JobTypeOK, HoldsItsPacks
    <3>2. QED
      BY <1>4, <2>2, <2>3, <3>1 DEF RollbackStatement, Demote, Promote, Undo
<1>5. ASSUME NEW c \in Commands, CommitPublish(c)
      PROVE  Packs' # Packs
  BY <1>5, DemotedType, AddPackType DEF CommitPublish, At, OrderInv, OwnPack
<1>6. ASSUME NEW c \in Commands,
             \/ BeginPublish(c) \/ BeginFill(c) \/ CommitFill(c) \/ AbortTransaction(c)
             \/ ReadActive(c) \/ ReadPrevious(c) \/ RerunStep(c)
      PROVE  UNCHANGED packVars
  BY <1>6, RerunType DEF BeginPublish, BeginFill, Prepare, CommitFill, AbortTransaction,
                         RolledBack, ReadActive, ReadPrevious
<1>7. QED
  BY <1>1, <1>2, <1>3, <1>4, <1>5, <1>6 DEF Next, Step, vars, RollbackStatement, RerunStep

\* While the newest pack is the one in use, the pack on hold a rollback picks
\* is the one it replaced.
LEMMA ReplacedIsPicked == IInv => RollbackUndoesPublish
<1> SUFFICES ASSUME IInv, NEW p \in Packs, born[p] = created, replaced[p] # None,
                    WithStatus("active") = {p}, ~revived
             PROVE  Newest("previous") = replaced[p]
  BY DEF RollbackUndoesPublish
<1> DEFINE r == replaced[p]
           n == Newest("previous")
<1>1. /\ r \in Packs \ {p} /\ status[r] \in {"active", "previous"}
      /\ \A q \in Packs \ {p} : status[q] \in {"active", "previous"} => born[q] <= born[r]
  BY DEF IInv, ReplacedIsNext
<1>2. r \in WithStatus("previous")
  BY <1>1 DEF WithStatus, Packs
<1>3. n \in WithStatus("previous") /\ born[r] <= born[n]
  BY <1>2, NewestIs DEF IInv, Statuses
<1>4. n \in Packs \ {p} /\ status[n] = "previous"
  BY <1>3 DEF WithStatus, Packs
<1>5. born[n] <= born[r] /\ born[n] \in Nat /\ born[r] \in Nat
  BY <1>1, <1>4 DEF IInv, TypeOK, PackTypeOK, Packs
<1>6. QED
  BY <1>1, <1>3, <1>4, <1>5 DEF IInv, OrderInv, BornInOrder

-----------------------------------------------------------------------------
THEOREM Invariance == Spec => []IInv
<1>1. Init => IInv
  BY InitInv
<1>2. IInv /\ [Next]_vars => IInv'
  BY TypeStep, OrderStep, ReplacedStep DEF IInv
<1>3. QED
  BY <1>1, <1>2, PTL DEF Spec

\* Rows have their types, baselines belong to packs, and no command, however
\* late, writes to a pack that is not there.
THEOREM TypeCorrect == Spec => []TypeOK
<1>1. IInv => TypeOK
  BY DEF IInv
<1>2. QED
  BY <1>1, Invariance, PTL

\* A rollback takes back the last publish, whatever inits and publishes overlap.
THEOREM RollbackTakesBack == Spec => []RollbackUndoesPublish
  BY ReplacedIsPicked, Invariance, PTL

\* There is an active pack once there is any, except where a rollback stopped
\* between its statements.
THEOREM ActivePackStays == Spec => []ActiveUnlessTorn
<1>1. Init => ActiveUnlessTorn
  BY DEF Init, ActiveUnlessTorn, Packs
<1>2. IInv /\ ActiveUnlessTorn /\ [Next]_vars => ActiveUnlessTorn'
  <2> SUFFICES ASSUME IInv, ActiveUnlessTorn, [Next]_vars PROVE ActiveUnlessTorn'
    OBVIOUS
  <2> DEFINE Tearing == {"promote", "undo", "torn"}
  <2>1. CASE UNCHANGED vars
    BY <2>1 DEF vars, packVars, ActiveUnlessTorn, Packs, WithStatus, Torn
  <2>2. ASSUME NEW c \in Commands, Step(c), job[c].at \notin Tearing, UNCHANGED status
        PROVE  ActiveUnlessTorn'
    <3>1. \A d \in Commands \ {c} : job'[d] = job[d]
      BY <2>2, StepInserts
    <3>2. Torn => Torn'
      BY <2>2, <3>1 DEF Torn
    <3>3. QED
      BY <2>2, <3>2 DEF ActiveUnlessTorn, Packs, WithStatus
  <2>3. ASSUME NEW p \in Commands, status'[p] = "active"
        PROVE  ActiveUnlessTorn'
    BY <2>3 DEF ActiveUnlessTorn, WithStatus
  <2>4. ASSUME NEW c \in Commands, job'[c].at \in Tearing
        PROVE  ActiveUnlessTorn'
    BY <2>4 DEF ActiveUnlessTorn, Torn
  <2>5. ASSUME NEW c \in Commands, InsertPack(c) \/ CommitPublish(c)
        PROVE  ActiveUnlessTorn'
    <3>1. job[c].at \notin Tearing
      BY <2>5 DEF InsertPack, CommitPublish, At
    <3>2. status'[c] = "active" \/ UNCHANGED status
      BY <2>5, DemotedType DEF InsertPack, CommitPublish, AddPack, IInv, TypeOK, PackTypeOK
    <3>3. QED
      BY <2>2, <2>3, <2>5, <3>1, <3>2 DEF Step
  <2>6. ASSUME NEW c \in Commands, RollbackStatement(c)
        PROVE  ActiveUnlessTorn'
    <3>1. /\ job[c].cur \in Commands /\ job[c].prev \in Commands
          /\ status \in [Commands -> Statuses] /\ job \in [Commands -> Jobs]
      BY <2>6 DEF RollbackStatement, Demote, Promote, Undo, At, IInv, TypeOK, PackTypeOK,
                  JobTypeOK, HoldsItsPacks, Packs
    <3>2. \/ job'[c].at \in Tearing
          \/ status'[job[c].cur] = "active"
          \/ status'[job[c].prev] = "active"
          \/ job[c].at \notin Tearing /\ UNCHANGED status
      BY <2>6, <3>1 DEF RollbackStatement, Demote, Promote, Undo, At, SetStatus,
                        AfterFailure, Goto, Exit, Idle, Jobs
    <3>3. QED
      BY <2>2, <2>3, <2>4, <2>6, <3>1, <3>2 DEF Step, RollbackStatement
  <2>7. ASSUME NEW c \in Commands,
               \/ BeginPublish(c) \/ BeginFill(c) \/ CommitFill(c) \/ AbortTransaction(c)
               \/ ReadActive(c) \/ ReadPrevious(c) \/ UpdatePackMeta(c) \/ RerunStep(c)
        PROVE  UNCHANGED status /\ job[c].at \notin Tearing
    BY <2>7 DEF BeginPublish, BeginFill, Prepare, CommitFill, AbortTransaction, RolledBack,
                ReadActive, ReadPrevious, UpdatePackMeta, RerunStep, ReadRow, StoreResult,
                StorePromotion, packVars, At
  <2>8. QED
    BY <2>1, <2>2, <2>5, <2>6, <2>7 DEF Next, Step, RollbackStatement, RerunStep
<1>3. QED
  BY <1>1, <1>2, Invariance, PTL DEF Spec

-----------------------------------------------------------------------------
(* Published packs.                                                        *)

Published == {p \in Packs : from[p] # None}

\* Only the transaction of a publish adds to what is published, and no step
\* takes a baseline away.
LEMMA OnlyCommitPublishes ==
  ASSUME IInv, NEW c \in Commands, Step(c), ~CommitPublish(c)
  PROVE  /\ Published' = Published /\ UNCHANGED <<from, overrides>>
         /\ viewBase \subseteq viewBase'
         /\ \A p \in Commands : judgeBase[p] # None => judgeBase'[p] # None
<1>1. Packs' = Packs \/ (c \notin Packs /\ Packs' = Packs \cup {c})
  BY StepInserts DEF InsertsOwn, InsertsNone
<1>2. UNCHANGED <<from, overrides>>
  BY DEF Step, InsertPack, UpdatePackMeta, BeginPublish, BeginFill, Prepare, CommitFill,
         AbortTransaction, RolledBack, ReadRow, StoreResult, StorePromotion, ReadActive,
         ReadPrevious, Demote, Promote, Undo, packVars
<1>3. c \notin Packs => from[c] = None
  BY DEF IInv, OrderInv, OwnPack
<1>4. Published' = Published
  BY <1>1, <1>2, <1>3 DEF Published
<1>5. CASE CommitFill(c)
  <2>1. job[c].cur \in Commands /\ judgeBase \in [Commands -> Commands \cup {None}]
    BY <1>5 DEF CommitFill, At, IInv, TypeOK, RowTypeOK, JobTypeOK, HoldsItsPacks, Packs
  <2>2. QED
    BY <1>2, <1>4, <1>5, <2>1, PackConstants DEF CommitFill, UpsertBaselines
<1>6. CASE ~CommitFill(c)
  <2>1. UNCHANGED <<viewBase, judgeBase>>
    BY <1>6 DEF Step, InsertPack, UpdatePackMeta, BeginPublish, BeginFill, Prepare,
                AbortTransaction, RolledBack, ReadRow, StoreResult, StorePromotion,
                ReadActive, ReadPrevious, Demote, Promote, Undo, rowVars
  <2>2. QED
    BY <1>2, <1>4, <2>1
<1>7. QED
  BY <1>5, <1>6

\* What the transaction of a publish adds.
LEMMA CommitAdds ==
  ASSUME IInv, NEW c \in Commands, CommitPublish(c)
  PROVE  /\ job[c].cand \in Candidates
         /\ c \notin Packs /\ Packs' = Packs \cup {c}
         /\ from' = [from EXCEPT ![c] = job[c].cand]
         /\ overrides' = IF Forced(c) THEN overrides \cup {c} ELSE overrides
         /\ viewBase \subseteq viewBase'
         /\ \A p \in Commands \ {c} : judgeBase'[p] = judgeBase[p]
         /\ c \in viewBase' \/ judgeBase'[c] # None
<1>1. /\ job[c].cand \in Candidates /\ job[c].graded \in SUBSET {"view", "judge"}
      /\ c \notin Packs /\ job[c].graded # {}
  BY DEF CommitPublish, At, IInv, OrderInv, OwnPack, TypeOK, JobTypeOK, HoldsItsPacks, Jobs
<1>2. Packs' = Packs \cup {c}
  BY DemotedType, AddPackType DEF CommitPublish, IInv
<1>3. /\ viewBase \subseteq viewBase'
      /\ \A p \in Commands \ {c} : judgeBase'[p] = judgeBase[p]
      /\ "view" \in job[c].graded => c \in viewBase'
      /\ "judge" \in job[c].graded => judgeBase'[c] = c
  BY DEF CommitPublish, UpsertBaselines, IInv, TypeOK, RowTypeOK
<1>4. QED
  BY <1>1, <1>2, <1>3, PackConstants DEF CommitPublish

\* No pack is published without a baseline to hold later models against.
THEOREM PublishNeedsEvidence == Spec => []PublishedHasEvidence
<1>1. Init => PublishedHasEvidence
  BY DEF Init, PublishedHasEvidence, Packs
<1>2. IInv /\ PublishedHasEvidence /\ [Next]_vars => PublishedHasEvidence'
  <2> SUFFICES ASSUME IInv, PublishedHasEvidence, [Next]_vars PROVE PublishedHasEvidence'
    OBVIOUS
  <2>1. CASE UNCHANGED vars
    BY <2>1 DEF vars, packVars, rowVars, PublishedHasEvidence, Packs
  <2>2. ASSUME NEW c \in Commands, CommitPublish(c)
        PROVE  PublishedHasEvidence'
    BY <2>2, CommitAdds DEF PublishedHasEvidence, IInv, TypeOK, PackTypeOK, Packs
  <2>3. ASSUME NEW c \in Commands, Step(c), ~CommitPublish(c)
        PROVE  PublishedHasEvidence'
    BY <2>3, OnlyCommitPublishes DEF PublishedHasEvidence, Published, Packs
  <2>4. QED
    BY <2>1, <2>2, <2>3 DEF Next
<1>3. QED
  BY <1>1, <1>2, Invariance, PTL DEF Spec

-----------------------------------------------------------------------------
(* The mark of an override.                                                *)

\* A checklist of candidate k is marked only beside a failure and for a pack.
Founded(k, list) == list.forced => ~list.pass /\ \E p \in overrides : from[p] = k

\* Beside the rows, the ones that downstream runs are about to write back.
MarksInv == /\ \A k \in Candidates : Founded(k, promotion[k])
            /\ \A c \in Commands : At(c, "store") => Founded(job[c].cand, job[c].list)

\* What is founded stays so: packs published by force keep their candidate.
LEMMA FoundedStays ==
  ASSUME IInv, NEW c \in Commands, Step(c), NEW k \in Candidates, NEW list, Founded(k, list)
  PROVE  list.forced => ~list.pass /\ \E p \in overrides' : from'[p] = k
<1>1. CASE CommitPublish(c)
  <2>1. overrides \subseteq overrides' /\ \A p \in overrides : from'[p] = from[p]
    BY <1>1, CommitAdds DEF IInv, TypeOK, PackTypeOK, Packs
  <2>2. QED
    BY <2>1 DEF Founded
<1>2. CASE ~CommitPublish(c)
  BY <1>2, OnlyCommitPublishes DEF Founded
<1>3. QED
  BY <1>1, <1>2

\* What a step writes to a promotion: a founded mark, one it held, or none.
LEMMA PromotionWritten ==
  ASSUME IInv, MarksInv, NEW c \in Commands, Step(c), NEW k \in Candidates
  PROVE  Founded(k, promotion[k])'
<1>1. job[c] \in Jobs /\ promotion \in [Candidates -> Checklists]
  BY DEF IInv, TypeOK, JobTypeOK, RowTypeOK
<1>2. CASE promotion'[k] = promotion[k]
  BY <1>2, FoundedStays DEF MarksInv, Founded
<1>3. CASE CommitPublish(c) /\ Forced(c) /\ k = job[c].cand
  <2>1. promotion'[k].forced /\ ~promotion'[k].pass
    BY <1>1, <1>3 DEF CommitPublish, MarkForced, Forced, Jobs, Checklists
  <2>2. c \in overrides' /\ from'[c] = k
    BY <1>3, CommitAdds DEF IInv, TypeOK, PackTypeOK
  <2>3. QED
    BY <2>1, <2>2 DEF Founded
<1>4. CASE StoreResult(c) /\ promotion'[k] = job[c].list /\ k = job[c].cand
  <2>1. Founded(k, job[c].list)
    BY <1>4 DEF StoreResult, MarksInv
  <2>2. QED
    BY <1>4, <2>1, FoundedStays DEF Founded
<1>5. CASE \E pass \in BOOLEAN : promotion'[k] = Evaluated(pass)
  BY <1>5 DEF Founded, Evaluated
<1>6. CASE CommitPublish(c)
  BY <1>1, <1>2, <1>3, <1>6 DEF CommitPublish, MarkForced
<1>7. CASE StoreResult(c) \/ StorePromotion(c)
  BY <1>1, <1>2, <1>4, <1>5, <1>7 DEF StoreResult, StorePromotion
<1>8. CASE ~CommitPublish(c) /\ ~StoreResult(c) /\ ~StorePromotion(c)
  BY <1>2, <1>8 DEF Step, InsertPack, UpdatePackMeta, BeginPublish, BeginFill, Prepare,
     CommitFill, AbortTransaction, RolledBack, ReadRow, ReadActive, ReadPrevious, Demote,
     Promote, Undo, rowVars
<1>9. QED
  BY <1>6, <1>7, <1>8

\* What a downstream run is about to write back is what it read, however many
\* publishes were committed since.
LEMMA HeldStaysFounded ==
  ASSUME IInv, MarksInv, NEW c \in Commands, Step(c), NEW d \in Commands
  PROVE  (At(d, "store") => Founded(job[d].cand, job[d].list))'
<1>1. CASE d # c /\ At(d, "store")'
  <2>1. job'[d] = job[d] /\ job[d].cand \in Candidates /\ Founded(job[d].cand, job[d].list)
    BY <1>1, StepInserts DEF At, MarksInv, IInv, TypeOK, JobTypeOK, HoldsItsPacks
  <2>2. QED
    BY <2>1, FoundedStays DEF Founded
<1>2. CASE ReadRow(c) /\ d = c
  <2>1. PICK k \in Candidates :
          job' = [job EXCEPT ![c].at = "store", ![c].cand = k, ![c].list = promotion[k]]
    BY <1>2 DEF ReadRow
  <2>2. job'[c].cand = k /\ job'[c].list = promotion[k]
    BY <2>1 DEF IInv, TypeOK, JobTypeOK, Jobs
  <2>3. UNCHANGED <<from, overrides>> /\ Founded(k, promotion[k])
    BY <1>2 DEF ReadRow, packVars, MarksInv
  <2>4. QED
    BY <1>2, <2>2, <2>3 DEF Founded
<1>3. CASE d = c /\ ~ReadRow(c)
  <2>1. job[c] \in Jobs /\ job \in [Commands -> Jobs]
    BY DEF IInv, TypeOK, JobTypeOK
  <2>2. CASE BeginPublish(c) \/ BeginFill(c)
    <3>1. PICK step \in {"publish", "fill"}, k \in Candidates \cup {None},
               list \in Checklists : Prepare(c, step, k, list)
      BY <2>2, EvaluatedType DEF BeginPublish, BeginFill, IInv, TypeOK, RowTypeOK
    <3>2. job'[c].at = step
      BY <2>1, <3>1 DEF Prepare, Idle
    <3>3. QED
      BY <1>3, <3>2 DEF At
  <2>3. CASE \E how \in {"done", "torn"} : Exit(c, how)
    BY <1>3, <2>1, <2>3 DEF Exit, Idle, At
  <2>4. CASE \E step \in {"meta", "evaluate", "promote", "undo"} : Goto(c, step)
    BY <1>3, <2>1, <2>4 DEF Goto, Jobs, At
  <2>5. CASE ReadActive(c) \/ ReadPrevious(c)
    BY <1>3, <2>1, <2>3, <2>5 DEF ReadActive, ReadPrevious, Jobs, At
  <2>6. QED
    BY <1>3, <2>2, <2>3, <2>4, <2>5
    DEF Step, InsertPack, UpdatePackMeta, CommitPublish, CommitFill, AbortTransaction,
        StoreResult, StorePromotion, Demote, Promote, AfterFailure, Undo
<1>4. QED
  BY <1>1, <1>2, <1>3

\* No candidate bears the mark of an override that let no pack through, however
\* many downstream runs write rows back that they read at another time.
THEOREM MarksAreFounded == Spec => []OverridesAreFounded
<1>1. Init => MarksInv
  BY DEF Init, MarksInv, Founded, Evaluated, Idle, At
<1>2. IInv /\ MarksInv /\ [Next]_vars => MarksInv'
  <2> SUFFICES ASSUME IInv, MarksInv, [Next]_vars PROVE MarksInv'
    OBVIOUS
  <2>1. CASE UNCHANGED vars
    BY <2>1 DEF vars, packVars, rowVars, MarksInv, Founded, At
  <2>2. ASSUME NEW c \in Commands, Step(c)
        PROVE  MarksInv'
    BY <2>2, PromotionWritten, HeldStaysFounded DEF MarksInv
  <2>3. QED
    BY <2>1, <2>2 DEF Next
<1>3. MarksInv => OverridesAreFounded
  BY DEF MarksInv, OverridesAreFounded, Founded
<1>4. QED
  BY <1>1, <1>2, <1>3, Invariance, PTL DEF Spec
=============================================================================
