------------------------- MODULE IssuePollerProofs -------------------------
(***************************************************************************)
(* What the poller guarantees for any issues, modes, requeue targets and   *)
(* amount of interference: its types, the attempt budget, the safety       *)
(* invariants, each strengthened with what the steps of a tick carry from  *)
(* one to the next, and that it implements IssueLifecycle.                 *)
(***************************************************************************)
EXTENDS IssuePoller, TLAPS

-----------------------------------------------------------------------------
(* The writes of the store                                                  *)

LEMMA UpsertType ==
  ASSUME NEW r \in Row, NEW s \in Stages, NEW o \in BOOLEAN
  PROVE  /\ Upsert(r, s, o) \in Row
         /\ Upsert(r, s, o).stage = s
         /\ Upsert(r, s, o).attempts = r.attempts
         /\ Upsert(r, s, o).implPr = r.implPr
BY DEF Upsert, Row

LEMMA SetStageType ==
  ASSUME NEW r \in Row, NEW s \in Stages
  PROVE  /\ SetStage(r, s) \in Row
         /\ SetStage(r, s).stage = s
         /\ SetStage(r, s).attempts = r.attempts
         /\ SetStage(r, s).implPr = r.implPr
BY DEF SetStage, Row

\* A failure of a row with attempts left is counted and stays within bounds,
\* and the row is failed exactly when it was the last attempt.
LEMMA BumpAttemptType ==
  ASSUME NEW r \in Row, r.attempts # MaxAttempts, r.stage # Absent, r.stage # "failed"
  PROVE  /\ BumpAttempt(r) \in Row
         /\ BumpAttempt(r).stage \in {r.stage, "failed"}
         /\ BumpAttempt(r).attempts = MaxAttempts <=> BumpAttempt(r).stage = "failed"
         /\ BumpAttempt(r).implPr = r.implPr
<1> DEFINE n == r.attempts + 1
           s == IF n >= MaxAttempts THEN "failed" ELSE r.stage
<1>1. n \in 0..MaxAttempts /\ (n >= MaxAttempts <=> n = MaxAttempts)
  BY DEF Row, MaxAttempts
<1>2. s \in Stages \cup {Absent} /\ s \in {r.stage, "failed"} /\ (n >= MaxAttempts <=> s = "failed")
  BY DEF Row, Stages
<1>3. BumpAttempt(r) = [r EXCEPT !.attempts = n, !.stage = s]
  BY DEF BumpAttempt
<1> HIDE DEF n, s
<1>4. BumpAttempt(r).attempts = n /\ BumpAttempt(r).stage = s /\ BumpAttempt(r).implPr = r.implPr
  BY <1>3 DEF Row
<1>5. BumpAttempt(r) \in Row
  BY <1>1, <1>2, <1>3 DEF Row
<1> QED
  BY <1>1, <1>2, <1>4, <1>5

LEMMA RequeueFailedType ==
  ASSUME NEW r \in Row, NEW s \in ActionableStages
  PROVE  /\ RequeueFailed(r, s) \in Row
         /\ RequeueFailed(r, s).stage = s
         /\ RequeueFailed(r, s).attempts = 0
         /\ RequeueFailed(r, s).implPr = r.implPr
<1>1. s \in Stages /\ 0 \in 0..MaxAttempts
  BY DEF MaxAttempts, Stages, ActionableStages
<1> QED
  BY <1>1 DEF RequeueFailed, Row

LEMMA NoRowType == NoRow \in Row /\ NoRow.stage = Absent /\ NoRow.attempts = 0
BY MaxPrsAssumption DEF NoRow, Row, MaxAttempts, Absent

-----------------------------------------------------------------------------
(* Type correctness and the attempt budget                                  *)

\* A tick works on a row at the stage it claimed: only a reset of the queue
\* takes the row from under it, since the poller is the one writer of stages
\* that are neither terminal nor absent.
JobOnRow ==
  job.phase # "idle" =>
    /\ job.stage \in ActionableStages \cup {"spec_opened"}
    /\ row[job.issue].stage \in {job.stage, Absent}

IInv == TypeOK /\ BudgetIffFailed /\ JobOnRow

\* What each write of a row must leave behind.
GoodRow(r) == r \in Row /\ (r.attempts = MaxAttempts <=> r.stage = "failed")

LEMMA InitIInv == Init => IInv
<1> SUFFICES ASSUME Init PROVE IInv
  OBVIOUS
<1>1. TypeOK
  <2>1. row \in [Issues -> Row]
    BY NoRowType DEF Init
  <2>2. job \in Job /\ job.phase = "idle"
    BY MaxPrsAssumption DEF Init, Idle, Job, Phases
  <2>3. scratch \in [Issues -> Memory]
    BY MaxPrsAssumption DEF Init, NoMemory, Memory
  <2>4. labels \in [Issues -> SUBSET Labels]
    BY DEF Init, Labels, TriageLabels
  <2>5. implPrs \in [Issues -> [PrIds -> {"unused", "open", "merged", "closed"}]]
    BY DEF Init
  <2>6. budget \in 0..MaxInterference
    BY PollerAssumption DEF Init
  <2> QED
    BY <2>1, <2>2, <2>3, <2>4, <2>5, <2>6 DEF Init, TypeOK
<1>2. BudgetIffFailed
  BY NoRowType DEF Init, BudgetIffFailed, MaxAttempts, Absent
<1>3. JobOnRow
  BY DEF Init, JobOnRow, Idle
<1> QED
  BY <1>1, <1>2, <1>3 DEF IInv

LEMMA GoodUpsert ==
  ASSUME NEW r, GoodRow(r), NEW s \in Stages \ {"failed"}, NEW o \in BOOLEAN, r.stage # "failed"
  PROVE  GoodRow(Upsert(r, s, o)) /\ Upsert(r, s, o).stage = s
BY UpsertType DEF GoodRow

LEMMA GoodReconcile ==
  ASSUME NEW i \in Issues, NEW found \in BOOLEAN, GoodRow(row[i])
  PROVE  GoodRow(Listed(i, found)) /\ GoodRow(Unlisted(i, found))
<1> DEFINE r == row[i]
<1>1. r.stage \in Stages \cup {Absent}
  BY DEF GoodRow, Row
<1>2. ASSUME r.stage # "failed"
      PROVE  /\ GoodRow(Upsert(r, "queued", TRUE))
             /\ GoodRow(Upsert(r, "merged", TRUE))
             /\ GoodRow(Upsert(r, "merged", FALSE))
             /\ GoodRow(Upsert(r, "escalated", TRUE))
             /\ r.stage # Absent => GoodRow(Upsert(r, r.stage, TRUE))
  BY <1>1, <1>2, GoodUpsert DEF Stages, Absent
<1>3. ASSUME r.stage # "failed" PROVE GoodRow(FirstSight(i))
  BY <1>2, <1>3 DEF FirstSight
<1>4. GoodRow(Listed(i, found))
  BY <1>2, <1>3 DEF Listed, Retriaged, TerminalStages
<1>5. ASSUME r.stage = "escalated"
      PROVE  GoodRow([SetStage(r, "merged") EXCEPT !.open = FALSE])
  <2> DEFINE m == SetStage(r, "merged")
  <2>1. m \in Row /\ m.stage = "merged" /\ m.attempts # MaxAttempts
    BY <1>5, SetStageType DEF GoodRow, Stages
  <2>2. GoodRow(m)
    BY <2>1 DEF GoodRow
  <2> HIDE DEF m
  <2>3. GoodRow([m EXCEPT !.open = FALSE])
    BY <2>2 DEF GoodRow, Row
  <2> QED
    BY <2>3 DEF m
<1> QED
  BY <1>4, <1>5 DEF Unlisted

\* What has to be shown of a step: the row it writes, if any, is good and, unless
\* the poller goes idle, still stands where the tick left it.
LEMMA WriteRow ==
  ASSUME IInv, NEW i \in Issues, NEW r, GoodRow(r), row' = [row EXCEPT ![i] = r]
  PROVE  /\ row' \in [Issues -> Row]
         /\ BudgetIffFailed'
BY DEF IInv, TypeOK, BudgetIffFailed, GoodRow

LEMMA RowsAreGood == IInv => \A i \in Issues : GoodRow(row[i])
BY DEF IInv, TypeOK, BudgetIffFailed, GoodRow

LEMMA TickIInv ==
  ASSUME IInv, NEW reached \in SUBSET Issues, NEW found \in SUBSET Issues,
         NEW cleared \in SUBSET Issues, ReconcileIssues(reached, found, cleared)
  PROVE  /\ \A i \in Issues : GoodRow(row'[i])
         /\ row' \in [Issues -> Row]
         /\ BudgetIffFailed'
         /\ labels' \in [Issues -> SUBSET Labels]
<1>1. \A i \in Issues : GoodRow(row[i])
  BY RowsAreGood
<1>2. ASSUME NEW i \in Issues PROVE GoodRow(row'[i])
  <2>1. (i \in found) \in BOOLEAN
    OBVIOUS
  <2>2. GoodRow(Listed(i, i \in found)) /\ GoodRow(Unlisted(i, i \in found))
    BY <1>1, <2>1, GoodReconcile
  <2> QED
    BY <1>1, <2>2 DEF ReconcileIssues
<1>3. row' \in [Issues -> Row]
  BY <1>2 DEF ReconcileIssues, GoodRow
<1>4. BudgetIffFailed'
  BY <1>2 DEF BudgetIffFailed, GoodRow
<1>5. labels' \in [Issues -> SUBSET Labels]
  BY DEF ReconcileIssues, IInv, TypeOK
<1> QED
  BY <1>2, <1>3, <1>4, <1>5

LEMMA TheJob ==
  ASSUME IInv, job.phase # "idle"
  PROVE  /\ TheIssue \in Issues
         /\ GoodRow(row[TheIssue])
         /\ job.stage \in Stages \ TerminalStages
         /\ row[TheIssue].stage \in {job.stage, Absent}
         /\ scratch[TheIssue] \in Memory
         /\ Remembered \in Memory
         /\ KnownImplPr \in 0..MaxPrs
<1>1. TheIssue \in Issues /\ scratch[TheIssue] \in Memory /\ job \in Job
  BY DEF IInv, TypeOK, TheIssue
<1>2. KnownImplPr \in 0..MaxPrs /\ KnownSpecPr \in BOOLEAN
  BY <1>1 DEF KnownImplPr, KnownSpecPr, Job, Memory
<1>3. Remembered \in Memory
  BY <1>1, <1>2 DEF Remembered, Memory
<1>4. GoodRow(row[TheIssue])
  BY <1>1, RowsAreGood
<1>5. job.stage \in Stages \ TerminalStages /\ row[TheIssue].stage \in {job.stage, Absent}
  BY DEF IInv, JobOnRow, TheIssue, ActionableStages, Stages, TerminalStages
<1> QED
  BY <1>1, <1>2, <1>3, <1>4, <1>5

\* The two ways a stage ends well: its row is good and the poller is idle.
LEMMA CommitStep ==
  ASSUME IInv, job.phase # "idle", NEW to \in Stages \ {"failed"}, Commit(to)
  PROVE  row' \in [Issues -> Row] /\ BudgetIffFailed' /\ JobOnRow' /\ job' \in Job /\ job'.phase = "idle"
<1>1. GoodRow(SetStage(row[TheIssue], to))
  BY TheJob, SetStageType DEF GoodRow, Commit, CanTransition, Stages, TerminalStages, Absent
<1>2. job' = Idle
  BY DEF Commit
<1>3. job' \in Job /\ job'.phase = "idle"
  BY <1>2, MaxPrsAssumption DEF Idle, Job, Phases
<1> QED
  BY <1>1, <1>3, TheJob, WriteRow DEF Commit, JobOnRow

LEMMA CommitUpsertStep ==
  ASSUME IInv, job.phase # "idle", NEW to \in Stages \ {"failed"},
         NEW r, GoodRow(r), r.stage # "failed", CommitUpsert(r, to)
  PROVE  row' \in [Issues -> Row] /\ BudgetIffFailed' /\ JobOnRow' /\ job' \in Job /\ job'.phase = "idle"
<1>1. GoodRow(Upsert(r, to, TRUE))
  BY GoodUpsert
<1>2. job' = Idle
  BY DEF CommitUpsert
<1>3. job' \in Job /\ job'.phase = "idle"
  BY <1>2, MaxPrsAssumption DEF Idle, Job, Phases
<1> QED
  BY <1>1, <1>3, TheJob, WriteRow DEF CommitUpsert, JobOnRow

\* A step inside a tick: the job moves on, the rows stay.
LEMMA EnterStep ==
  ASSUME IInv, job.phase # "idle", NEW p \in Phases, Enter(p), UNCHANGED row
  PROVE  /\ row' \in [Issues -> Row] /\ BudgetIffFailed' /\ JobOnRow' /\ job' \in Job
         /\ job'.issue \in Issues /\ job'.stage \in Stages
<1>1. job' \in Job /\ job'.issue = job.issue /\ job'.stage = job.stage
  BY TheJob DEF Enter, IInv, TypeOK, Job
<1> QED
  BY <1>1, TheJob DEF IInv, TypeOK, BudgetIffFailed, JobOnRow, TheIssue

LEMMA BumpStep ==
  ASSUME IInv, job.phase # "idle", row[TheIssue].stage # Absent,
         row' = [row EXCEPT ![TheIssue] = BumpAttempt(@)], job' = Idle
  PROVE  row' \in [Issues -> Row] /\ BudgetIffFailed' /\ JobOnRow' /\ job' \in Job /\ job'.phase = "idle"
<1>1. GoodRow(BumpAttempt(row[TheIssue]))
  BY TheJob, BumpAttemptType DEF GoodRow, TerminalStages
<1>3. job' \in Job /\ job'.phase = "idle"
  BY MaxPrsAssumption DEF Idle, Job, Phases
<1> QED
  BY <1>1, <1>3, TheJob, WriteRow DEF JobOnRow

LEMMA ParkStep ==
  ASSUME IInv, job.phase # "idle", Park, UNCHANGED scratch \/ Remember(Remembered)
  PROVE  IInv'
<1>1. labels' \in [Issues -> SUBSET Labels]
  BY TheJob DEF Park, AskHuman, IInv, TypeOK, Labels
<1>2. row' \in [Issues -> Row] /\ BudgetIffFailed' /\ JobOnRow' /\ job' \in Job
      /\ job'.issue \in Issues /\ job'.stage \in Stages
  BY EnterStep DEF Park, Phases
<1>3. scratch' \in [Issues -> Memory]
  BY TheJob DEF Remember, IInv, TypeOK
<1> QED
  BY <1>1, <1>2, <1>3 DEF Park, IInv, TypeOK, forge, history

LEMMA RestartIInv ==
  ASSUME IInv, ProcessRestarts, budget' \in 0..MaxInterference
  PROVE  IInv'
<1>1. job' \in Job /\ job'.phase = "idle"
  BY MaxPrsAssumption DEF ProcessRestarts, Idle, Job, Phases
<1>2. scratch' \in [Issues -> Memory]
  BY MaxPrsAssumption DEF ProcessRestarts, NoMemory, Memory
<1> QED
  BY <1>1, <1>2 DEF ProcessRestarts, IInv, TypeOK, BudgetIffFailed, JobOnRow, forge

LEMMA AdvanceIInv == IInv /\ Advance => IInv'
<1> SUFFICES ASSUME IInv, Advance PROVE IInv'
  OBVIOUS
<1> USE DEF forge, history
<1>1. CASE CommitPark
  BY <1>1, CommitStep DEF CommitPark, IInv, TypeOK, Stages
<1>2. CASE TriageBuild
  BY <1>2, CommitUpsertStep, TheJob
     DEF TriageBuild, At, Remember, IInv, TypeOK, Stages, TerminalStages, Absent
<1>3. CASE TriagePark \/ AcceptGateDeny \/ GateEscalate \/ AwaitWithoutPr \/ AwaitClosed
  BY <1>3, ParkStep DEF TriagePark, AcceptGateDeny, GateEscalate, AwaitWithoutPr, AwaitClosed, Awaits, At
<1>4. CASE AcceptGateAllow
  BY <1>4, EnterStep, TheJob DEF AcceptGateAllow, At, IInv, TypeOK, Phases
<1>5. CASE AuthorSpec
  BY <1>5, CommitStep, TheJob DEF AuthorSpec, At, Remember, IInv, TypeOK, Stages, Memory
<1>6. CASE ShadowHold
  BY <1>6, MaxPrsAssumption DEF ShadowHold, IInv, TypeOK, BudgetIffFailed, JobOnRow, Idle, Job, Phases
<1>7. CASE CommitSpec
  BY <1>7, EnterStep, TheJob DEF CommitSpec, At, AfterCheckout, IInv, TypeOK, Phases
<1>8. CASE PushSpec
  BY <1>8, EnterStep, TheJob DEF PushSpec, At, IInv, TypeOK, Phases
<1>9. CASE OpenSpecPr
  BY <1>9, EnterStep, TheJob DEF OpenSpecPr, At, IInv, TypeOK, Phases
<1>10. CASE UntagSpec
  BY <1>10, EnterStep, TheJob DEF UntagSpec, At, IInv, TypeOK, Phases
<1>11. CASE TagSpec
  <2>1. GoodRow([row[TheIssue] EXCEPT !.specPr = TRUE])
    BY <1>11, TheJob DEF TagSpec, At, GoodRow, Row
  <2>2. [row[TheIssue] EXCEPT !.specPr = TRUE].stage # "failed"
    BY <1>11, TheJob DEF TagSpec, At, GoodRow, Row, TerminalStages, Absent
  <2> QED
    BY <1>11, <2>1, <2>2, CommitUpsertStep, TheJob
       DEF TagSpec, AfterSpecPr, At, Remember, IInv, TypeOK, Stages, Memory, Labels, TriageLabels
<1>12. CASE SkipSpecPr
  <2>1. GoodRow([row[TheIssue] EXCEPT !.specPr = TRUE])
    BY <1>12, TheJob DEF SkipSpecPr, At, GoodRow, Row
  <2>2. [row[TheIssue] EXCEPT !.specPr = TRUE].stage # "failed"
    BY <1>12, TheJob DEF SkipSpecPr, At, GoodRow, Row, TerminalStages, Absent
  <2> QED
    BY <1>12, <2>1, <2>2, CommitUpsertStep, TheJob
       DEF SkipSpecPr, AfterSpecPr, At, Remember, IInv, TypeOK, Stages, Memory
<1>13. CASE ResumeSpecOpened
  BY <1>13, CommitStep DEF ResumeSpecOpened, At, IInv, TypeOK, Stages
<1>14. CASE ReuseDiff
  BY <1>14, EnterStep, TheJob DEF ReuseDiff, At, IInv, TypeOK, Phases
<1>15. CASE PrepareImpl
  BY <1>15, EnterStep, TheJob DEF PrepareImpl, At, IInv, TypeOK, Phases
<1>16. CASE PushImpl
  BY <1>16, EnterStep, TheJob DEF PushImpl, At, IInv, TypeOK, Phases
<1>17. CASE CreateImplPr
  BY <1>17, TheJob DEF CreateImplPr, At, IInv, TypeOK, BudgetIffFailed, JobOnRow
<1>18. CASE EnsureImplPr
  <2>1. PICK k \in PrIds :
          Remember([Remembered EXCEPT !.spec = TRUE, !.impl = k,
                       !.diff = IF HasDiff THEN @ ELSE branch[TheIssue]])
    BY <1>18 DEF EnsureImplPr
  <2>2. k \in 0..MaxPrs /\ branch[TheIssue] \in {"none"} \cup Contents
    BY <1>18, TheJob, MaxPrsAssumption DEF EnsureImplPr, At, PrIds, IInv, TypeOK
  <2>3. [Remembered EXCEPT !.spec = TRUE, !.impl = k,
                       !.diff = IF HasDiff THEN @ ELSE branch[TheIssue]] \in Memory
    BY <1>18, <2>2, TheJob DEF EnsureImplPr, At, Memory
  <2> QED
    BY <1>18, <2>1, <2>3, EnterStep, TheJob DEF EnsureImplPr, At, Remember, IInv, TypeOK, Phases
<1>19. CASE CommitImplemented
  <2> DEFINE r == [row[TheIssue] EXCEPT !.implPr = scratch[TheIssue].impl]
  <2>1. GoodRow(r) /\ r.stage # "failed"
    BY <1>19, TheJob DEF CommitImplemented, At, GoodRow, Row, Memory, TerminalStages, Absent
  <2>2. CommitUpsert(r, "implemented")
    BY <1>19 DEF CommitImplemented
  <2> QED
    BY <1>19, <2>1, <2>2, CommitUpsertStep DEF CommitImplemented, At, IInv, TypeOK, Stages
<1>20. CASE Review
  <2>1. PICK ok \in BOOLEAN : Remember([Remembered EXCEPT !.tested = ok])
    BY <1>20 DEF Review
  <2>2. scratch' \in [Issues -> Memory]
    BY <1>20, <2>1, TheJob DEF Review, At, Remember, Memory, IInv, TypeOK
  <2>3. worktree' \in [Issues -> {"none", "draft", "tracked"}]
    BY <1>20 DEF Review, AfterCheckout, IInv, TypeOK
  <2>4. row' \in [Issues -> Row] /\ BudgetIffFailed' /\ JobOnRow' /\ job' \in Job /\ job'.phase = "idle"
    BY <1>20, CommitStep DEF Review, At, Stages
  <2> QED
    BY <1>20, <2>2, <2>3, <2>4 DEF Review, IInv, TypeOK
<1>21. CASE GateMerge
  <2>1. KnownImplPr \in PrIds
    BY <1>21, TheJob, MaxPrsAssumption DEF GateMerge, At, PrIds
  <2>2. TheIssue \in Issues /\ job.phase # "idle"
    BY <1>21, TheJob DEF GateMerge, At
  <2>3. armed' \in [Issues -> SUBSET PrIds]
    BY <1>21, <2>1, <2>2 DEF GateMerge, IInv, TypeOK
  <2>4. implPrs' \in [Issues -> [PrIds -> {"unused", "open", "merged", "closed"}]]
    BY <1>21, <2>1, <2>2 DEF GateMerge, IInv, TypeOK
  <2>5. row' \in [Issues -> Row] /\ BudgetIffFailed' /\ JobOnRow' /\ job' \in Job
        /\ job'.issue \in Issues /\ job'.stage \in Stages
    BY <1>21, <2>2, EnterStep DEF GateMerge, Phases
  <2> QED
    BY <1>21, <2>3, <2>4, <2>5 DEF GateMerge, IInv, TypeOK
<1>22. CASE CommitAwaiting
  BY <1>22, CommitStep, TheJob DEF CommitAwaiting, At, Remember, IInv, TypeOK, Stages
<1>23. CASE AwaitMerged
  BY <1>23, CommitStep DEF AwaitMerged, Awaits, At, IInv, TypeOK, Stages
<1>24. CASE AwaitOpen
  <2> DEFINE r == [row[TheIssue] EXCEPT !.specPr = @ \/ job.specPr, !.implPr = job.impl]
  <2>1. job.specPr \in BOOLEAN /\ job.impl \in 0..MaxPrs
    BY DEF IInv, TypeOK, Job
  <2>2. GoodRow(r) /\ r.stage # "failed"
    BY <1>24, <2>1, TheJob DEF AwaitOpen, Awaits, At, GoodRow, Row, TerminalStages, Absent
  <2>3. CommitUpsert(r, "awaiting_merge")
    BY <1>24 DEF AwaitOpen
  <2> QED
    BY <1>24, <2>2, <2>3, CommitUpsertStep DEF AwaitOpen, Awaits, At, IInv, TypeOK, Stages
<1>25. CASE SpecFileMissing
  BY <1>25, BumpStep, TheJob DEF SpecFileMissing, At, AfterCheckout, IInv, TypeOK
<1>26. CASE Fail
  BY <1>26, BumpStep DEF Fail, IInv, TypeOK
<1>27. CASE Crash
  BY <1>27, RestartIInv DEF Crash, IInv, TypeOK
<1> QED
  BY <1>1, <1>2, <1>3, <1>4, <1>5, <1>6, <1>7, <1>8, <1>9, <1>10, <1>11, <1>12, <1>13, <1>14,
     <1>15, <1>16, <1>17, <1>18, <1>19, <1>20, <1>21, <1>22, <1>23, <1>24, <1>25, <1>26, <1>27
     DEF Advance

LEMMA TickStepIInv == IInv /\ (Tick \/ TickAborted) => IInv'
<1> USE DEF history
<1>1. ASSUME IInv, Tick PROVE IInv'
  <2>1. PICK found \in SUBSET Issues, cleared \in SUBSET Issues :
          /\ ReconcileIssues(Issues, found, cleared)
          /\ \/ \E i \in Issues : Claimable(row'[i]) /\ job' = Started(i, row'[i])
             \/ job' = Idle
    BY <1>1 DEF Tick
  <2>2. /\ \A i \in Issues : GoodRow(row'[i])
        /\ row' \in [Issues -> Row] /\ BudgetIffFailed' /\ labels' \in [Issues -> SUBSET Labels]
    BY <1>1, <2>1, TickIInv
  <2>3. job' \in Job /\ (job'.phase # "idle" => job'.issue \in Issues /\ job'.stage \in Stages)
        /\ JobOnRow'
    <3>1. CASE job' = Idle
      BY <3>1, MaxPrsAssumption DEF Idle, Job, Phases, JobOnRow
    <3>2. ASSUME NEW i \in Issues, Claimable(row'[i]), job' = Started(i, row'[i])
          PROVE  job' \in Job /\ job'.issue \in Issues /\ job'.stage \in Stages /\ JobOnRow'
      BY <2>2, <3>2 DEF Claimable, Started, GoodRow, Row, Job, Phases, JobOnRow, ActionableStages, Stages
    <3> QED
      BY <2>1, <3>1, <3>2
  <2> QED
    BY <1>1, <2>1, <2>2, <2>3 DEF ReconcileIssues, IInv, TypeOK
<1>2. ASSUME IInv, TickAborted PROVE IInv'
  <2>1. PICK reached \in SUBSET Issues, found \in SUBSET Issues, cleared \in SUBSET Issues :
          ReconcileIssues(reached, found, cleared) /\ job' = Idle
    BY <1>2 DEF TickAborted
  <2>2. /\ row' \in [Issues -> Row] /\ BudgetIffFailed' /\ labels' \in [Issues -> SUBSET Labels]
    BY <1>2, <2>1, TickIInv
  <2>3. job' \in Job /\ job'.phase = "idle" /\ JobOnRow'
    BY <2>1, MaxPrsAssumption DEF Idle, Job, Phases, JobOnRow
  <2> QED
    BY <1>2, <2>1, <2>2, <2>3 DEF ReconcileIssues, IInv, TypeOK
<1> QED
  BY <1>1, <1>2

LEMMA OutsideIInv == IInv /\ Outside => IInv'
<1> SUFFICES ASSUME IInv, Outside PROVE IInv'
  OBVIOUS
<1> USE DEF forge, history
<1>0. Interfere => budget' \in 0..MaxInterference
  BY PollerAssumption DEF Interfere, IInv, TypeOK
<1>1. CASE Restart
  BY <1>0, <1>1, RestartIInv DEF Restart
<1>2. CASE RequeueFailedMain
  <2>1. PICK i \in Issues, target \in RequeueTargets :
          row[i].stage = "failed" /\ row' = [row EXCEPT ![i] = RequeueFailed(@, target)]
    BY <1>2 DEF RequeueFailedMain
  <2>2. GoodRow(RequeueFailed(row[i], target))
    BY PollerAssumption, RequeueFailedType, RowsAreGood DEF GoodRow, MaxAttempts, ActionableStages
  <2>3. row' \in [Issues -> Row] /\ BudgetIffFailed'
    BY <2>1, <2>2, WriteRow
  <2>4. JobOnRow'
    BY <1>2, <2>1 DEF RequeueFailedMain, IInv, TypeOK, JobOnRow, ActionableStages, Absent
  <2> QED
    BY <1>0, <1>2, <2>3, <2>4 DEF RequeueFailedMain, IInv, TypeOK
<1>3. CASE ResetQueueMain
  BY <1>0, <1>3, NoRowType DEF ResetQueueMain, IInv, TypeOK, BudgetIffFailed, JobOnRow, MaxAttempts, Absent
<1>4. CASE Relabel
  BY <1>0, <1>4 DEF Relabel, IInv, TypeOK, BudgetIffFailed, JobOnRow
<1>5. CASE CloseOrReopenIssue
  BY <1>0, <1>5 DEF CloseOrReopenIssue, IInv, TypeOK, BudgetIffFailed, JobOnRow
<1>6. ASSUME NEW i \in Issues, NEW k \in PrIds, NEW state \in {"merged", "closed"},
             LeavesOpen(i, k, state), budget' \in 0..MaxInterference
      PROVE  IInv'
  BY <1>6 DEF LeavesOpen, IInv, TypeOK, BudgetIffFailed, JobOnRow
<1>7. CASE HumanEndsPr
  BY <1>0, <1>6, <1>7 DEF HumanEndsPr
<1>8. CASE AutoMerge
  BY <1>6, <1>8 DEF AutoMerge, IInv, TypeOK
<1>9. CASE CloseDelivered
  BY <1>9 DEF CloseDelivered, IInv, TypeOK, BudgetIffFailed, JobOnRow
<1>10. CASE MergeSpecPr
  BY <1>10 DEF MergeSpecPr, IInv, TypeOK, BudgetIffFailed, JobOnRow
<1> QED
  BY <1>1, <1>2, <1>3, <1>4, <1>5, <1>7, <1>8, <1>9, <1>10 DEF Outside

LEMMA NextIInv == IInv /\ [Next]_vars => IInv'
<1>1. IInv /\ UNCHANGED vars => IInv'
  BY DEF vars, forge, history, IInv, TypeOK, BudgetIffFailed, JobOnRow
<1> QED
  BY <1>1, AdvanceIInv, TickStepIInv, OutsideIInv DEF Next, Poller

LEMMA PollerIInv == Spec => []IInv
BY InitIInv, NextIInv, PTL DEF Spec

\* Every variable keeps its type, whatever is reset, requeued or restarted.
THEOREM PollerTypeOK == Spec => []TypeOK
<1>1. IInv => TypeOK
  BY DEF IInv
<1> QED
  BY <1>1, PollerIInv, PTL

\* Rows and attempts agree for any number of issues: a row is failed exactly when
\* its three attempts are spent (bump_attempt, requeue_failed).
THEOREM PollerBudget == Spec => []BudgetIffFailed
<1>1. IInv => BudgetIffFailed
  BY DEF IInv
<1> QED
  BY <1>1, PollerIInv, PTL

-----------------------------------------------------------------------------
(* Nothing is built without an approval                                     *)

\* Every trace of work on an issue, and every step of a tick that is about to
\* leave one, goes back to an approval the gate has seen.  A requeue that skips
\* the gate's stage finds no spec, and so leaves no trace.
ApprovalInv ==
  AcceptGateLive =>
    /\ \A i \in Issues :
         \/ branch[i] # "none" \/ i \in specBranch
         \/ worktree[i] # "none" \/ specPr[i] # {}
         => i \in granted
    /\ job.phase \in {"approved", "committed", "specPushed", "building"}
         => job.issue \in granted

LEMMA AdvanceApproval == IInv /\ ApprovalInv /\ Advance => ApprovalInv'
<1> SUFFICES ASSUME IInv, ApprovalInv, Advance, AcceptGateLive PROVE ApprovalInv'
  BY DEF ApprovalInv
<1> USE DEF forge, history
<1>1. CASE \/ TriagePark \/ AcceptGateDeny \/ GateEscalate \/ AwaitWithoutPr \/ AwaitClosed
  BY <1>1 DEF TriagePark, AcceptGateDeny, GateEscalate, AwaitWithoutPr, AwaitClosed,
              Park, Enter, ApprovalInv, IInv, TypeOK, Job
<1>2. CASE \/ CommitPark \/ TriageBuild \/ ShadowHold \/ SkipSpecPr \/ ResumeSpecOpened
           \/ CommitImplemented \/ CommitAwaiting \/ AwaitMerged \/ AwaitOpen \/ Fail
  <2>1. job' = Idle /\ UNCHANGED <<forge, worktree, history>>
    BY <1>2 DEF CommitPark, TriageBuild, ShadowHold, SkipSpecPr, ResumeSpecOpened,
                CommitImplemented, CommitAwaiting, AwaitMerged, AwaitOpen, Fail, Commit, CommitUpsert
  <2> QED
    BY <2>1 DEF Idle, ApprovalInv
<1>15. CASE TagSpec
  BY <1>15 DEF TagSpec, CommitUpsert, Idle, ApprovalInv
<1>3. CASE AcceptGateAllow
  BY <1>3 DEF AcceptGateAllow, Approved, Enter, TheIssue, ApprovalInv, IInv, TypeOK, Job
<1>4. CASE AuthorSpec
  BY <1>4 DEF AuthorSpec, At, Commit, Idle, TheIssue, ApprovalInv, IInv, TypeOK
<1>5. CASE CommitSpec
  BY <1>5, TheJob DEF CommitSpec, At, Enter, AfterCheckout, TheIssue, ApprovalInv, IInv, TypeOK, Job
<1>6. CASE PushSpec
  BY <1>6, TheJob DEF PushSpec, At, Enter, TheIssue, ApprovalInv, IInv, TypeOK, Job
<1>7. CASE OpenSpecPr
  BY <1>7, TheJob DEF OpenSpecPr, At, Enter, TheIssue, ApprovalInv, IInv, TypeOK, Job
<1>8. CASE UntagSpec \/ ReuseDiff \/ CreateImplPr \/ EnsureImplPr
  BY <1>8 DEF UntagSpec, ReuseDiff, CreateImplPr, EnsureImplPr, At, Enter, ApprovalInv, IInv, TypeOK, Job
<1>9. CASE PrepareImpl
  BY <1>9, TheJob DEF PrepareImpl, SpecAvailable, At, Enter, TheIssue, ApprovalInv, IInv, TypeOK, Job
<1>10. CASE PushImpl
  BY <1>10, TheJob DEF PushImpl, At, Enter, TheIssue, ApprovalInv, IInv, TypeOK, Job
<1>11. CASE Review
  BY <1>11 DEF Review, AfterCheckout, Commit, Idle, ApprovalInv, IInv, TypeOK
<1>12. CASE GateMerge
  BY <1>12 DEF GateMerge, At, Enter, ApprovalInv, IInv, TypeOK, Job
<1>13. CASE SpecFileMissing
  BY <1>13 DEF SpecFileMissing, AfterCheckout, Idle, ApprovalInv, IInv, TypeOK
<1>14. CASE Crash
  BY <1>14 DEF Crash, ProcessRestarts, Idle, ApprovalInv
<1> QED
  BY <1>1, <1>2, <1>3, <1>4, <1>5, <1>6, <1>7, <1>8, <1>9, <1>10, <1>11, <1>12, <1>13, <1>14, <1>15
     DEF Advance

LEMMA TickApproval == ApprovalInv /\ (Tick \/ TickAborted) => ApprovalInv'
<1> USE DEF history
<1>1. ASSUME ApprovalInv, Tick PROVE ApprovalInv'
  BY <1>1 DEF Tick, ReconcileIssues, Started, Idle, ApprovalInv
<1>2. ASSUME ApprovalInv, TickAborted PROVE ApprovalInv'
  BY <1>2 DEF TickAborted, ReconcileIssues, Idle, ApprovalInv
<1> QED
  BY <1>1, <1>2

LEMMA OutsideApproval == IInv /\ ApprovalInv /\ Outside => ApprovalInv'
<1> SUFFICES ASSUME IInv, ApprovalInv, Outside PROVE ApprovalInv'
  OBVIOUS
<1> USE DEF forge, history
<1>1. CASE Restart
  BY <1>1 DEF Restart, ProcessRestarts, Idle, ApprovalInv
<1>2. CASE RequeueFailedMain \/ ResetQueueMain \/ Relabel \/ CloseOrReopenIssue \/ CloseDelivered
  BY <1>2 DEF RequeueFailedMain, ResetQueueMain, Relabel, CloseOrReopenIssue, CloseDelivered, ApprovalInv
<1>3. CASE HumanEndsPr \/ AutoMerge
  BY <1>3 DEF HumanEndsPr, AutoMerge, LeavesOpen, ApprovalInv
<1>4. CASE MergeSpecPr
  BY <1>4 DEF MergeSpecPr, ApprovalInv, IInv, TypeOK
<1> QED
  BY <1>1, <1>2, <1>3, <1>4 DEF Outside

\* With the accept gate live, for any number of issues, modes, requeue targets
\* and restarts: no implementation is pushed for an issue without an approval
\* that the gate has read.
THEOREM PollerBuildsOnlyApproved == Spec => []BuiltOnlyIfApproved
<1>1. Init => ApprovalInv
  BY DEF Init, Idle, ApprovalInv
<1>2. IInv /\ ApprovalInv /\ UNCHANGED vars => ApprovalInv'
  BY DEF vars, forge, history, ApprovalInv
<1>3. IInv /\ ApprovalInv /\ [Next]_vars => ApprovalInv'
  BY <1>2, AdvanceApproval, TickApproval, OutsideApproval DEF Next, Poller
<1>4. ApprovalInv => BuiltOnlyIfApproved
  BY DEF ApprovalInv, BuiltOnlyIfApproved
<1> QED
  BY <1>1, <1>3, <1>4, PollerIInv, PTL DEF Spec

-----------------------------------------------------------------------------
(* The PR an issue is parked on                                             *)

Waits(i, k) == implPrs[i][k] = "open" => k \in armed[i]

\* Every PR number the poller holds, in the store, in memory or in its claimed
\* record, is of a PR that exists; the claimed record still agrees with the row;
\* and an issue that is parked, or about to be, has its open PR armed.  The PR of
\* an issue that a requeue has skipped ahead may be missing or not armed.
PrInv ==
  /\ \A i \in Issues :
       /\ i \notin skipped /\ row[i].stage \in LateStages => row[i].implPr # 0
       /\ i \notin skipped /\ row[i].stage = "awaiting_merge" => Waits(i, row[i].implPr)
       /\ row[i].implPr # 0 => implPrs[i][row[i].implPr] # "unused"
       /\ scratch[i].impl # 0 => implPrs[i][scratch[i].impl] # "unused"
  /\ job.phase # "idle" =>
       /\ job.impl # 0 => implPrs[job.issue][job.impl] # "unused"
       /\ row[job.issue].stage # Absent => job.impl = row[job.issue].implPr
       /\ job.issue \notin skipped /\ job.stage = "awaiting_merge" /\ job.impl # 0
            => Waits(job.issue, job.impl)
       /\ job.phase = "built" => scratch[job.issue].impl # 0
       /\ job.phase = "armed" => KnownImplPr # 0 /\ Waits(job.issue, KnownImplPr)

\* What every step of a tick relies on.
LEMMA PrFacts ==
  ASSUME IInv, PrInv, job.phase # "idle"
  PROVE  /\ TheIssue \in Issues /\ job \in Job
         /\ row[TheIssue] \in Row /\ scratch[TheIssue] \in Memory
         /\ KnownImplPr \in 0..MaxPrs
         /\ KnownImplPr # 0 => implPrs[TheIssue][KnownImplPr] # "unused"
         /\ Remembered.impl = KnownImplPr
         /\ 0..MaxPrs = {0} \cup PrIds /\ 0 \notin PrIds
<1>1. TheIssue \in Issues /\ job \in Job /\ row[TheIssue] \in Row /\ scratch[TheIssue] \in Memory
      /\ KnownImplPr \in 0..MaxPrs
  BY TheJob DEF IInv, TypeOK, GoodRow
<1>2. KnownImplPr # 0 => implPrs[TheIssue][KnownImplPr] # "unused"
  BY <1>1 DEF KnownImplPr, PrInv, TheIssue
<1>3. Remembered.impl = KnownImplPr
  BY <1>1 DEF Remembered, Memory
<1>4. 0..MaxPrs = {0} \cup PrIds /\ 0 \notin PrIds
  BY MaxPrsAssumption DEF PrIds
<1> QED
  BY <1>1, <1>2, <1>3, <1>4

\* A step that leaves PRs, their arming, the scratch's PR numbers alone and ends
\* the tick is fine if the row it writes is.
LEMMA PrCommit ==
  ASSUME IInv, PrInv, job.phase # "idle", NEW r,
         row' = [row EXCEPT ![TheIssue] = r], job' = Idle,
         UNCHANGED <<implPrs, armed, skipped>>,
         \A i \in Issues : scratch'[i].impl # 0 => implPrs[i][scratch'[i].impl] # "unused",
         TheIssue \notin skipped /\ r.stage \in LateStages => r.implPr # 0,
         TheIssue \notin skipped /\ r.stage = "awaiting_merge" => Waits(TheIssue, r.implPr),
         r.implPr # 0 => implPrs[TheIssue][r.implPr] # "unused"
  PROVE  PrInv'
BY DEF PrInv, IInv, TypeOK, Idle, Waits

LEMMA RememberPr ==
  ASSUME IInv, PrInv, job.phase # "idle", NEW m, Remember(m),
         m.impl # 0 => implPrs[TheIssue][m.impl] # "unused"
  PROVE  \A i \in Issues : scratch'[i].impl # 0 => implPrs[i][scratch'[i].impl] # "unused"
BY PrFacts DEF PrInv, IInv, TypeOK, Remember

LEMMA PrEnter ==
  ASSUME IInv, PrInv, job.phase # "idle", NEW p \in Phases \ {"idle", "built", "armed"}, Enter(p),
         UNCHANGED <<row, implPrs, armed, skipped>>, UNCHANGED scratch \/ Remember(Remembered)
  PROVE  PrInv'
<1>1. \A i \in Issues : scratch'[i].impl # 0 => implPrs[i][scratch'[i].impl] # "unused"
  <2>1. CASE UNCHANGED scratch
    BY <2>1 DEF PrInv
  <2>2. CASE Remember(Remembered)
    BY <2>2, PrFacts, RememberPr
  <2> QED
    BY <2>1, <2>2
<1> QED
  BY <1>1, PrFacts DEF PrInv, Enter, Waits, Job, TheIssue

LEMMA AdvancePr == IInv /\ PrInv /\ Advance => PrInv'
<1> SUFFICES ASSUME IInv, PrInv, Advance PROVE PrInv'
  OBVIOUS
<1> USE DEF forge, history
<1>1. CASE \/ TriagePark \/ AcceptGateDeny \/ GateEscalate \/ AwaitWithoutPr \/ AwaitClosed
  BY <1>1, PrEnter DEF TriagePark, AcceptGateDeny, GateEscalate, AwaitWithoutPr, AwaitClosed,
                       Awaits, At, Park, Phases
<1>2. CASE \/ AcceptGateAllow \/ CommitSpec \/ PushSpec \/ OpenSpecPr \/ UntagSpec
           \/ ReuseDiff \/ PrepareImpl \/ PushImpl
  BY <1>2, PrEnter DEF AcceptGateAllow, CommitSpec, PushSpec, OpenSpecPr, UntagSpec,
                       ReuseDiff, PrepareImpl, PushImpl, At, Phases
<1>3. CASE CommitPark \/ ResumeSpecOpened \/ AwaitMerged
  <2>1. PICK to \in {"escalated", "spec_ready", "merged"} : Commit(to)
    BY <1>3 DEF CommitPark, ResumeSpecOpened, AwaitMerged
  <2>2. job.phase # "idle" /\ UNCHANGED <<scratch, implPrs, armed, skipped>>
    BY <1>3 DEF CommitPark, ResumeSpecOpened, AwaitMerged, Awaits, At
  <2>3. SetStage(row[TheIssue], to).stage = to
        /\ SetStage(row[TheIssue], to).implPr = row[TheIssue].implPr
    BY <2>2, PrFacts, SetStageType DEF Stages
  <2> QED
    BY <2>1, <2>2, <2>3, PrFacts, PrCommit DEF Commit, LateStages, PrInv
<1>4. CASE TriageBuild
  <2>1. job.phase # "idle" /\ UNCHANGED <<implPrs, armed, skipped>>
    BY <1>4 DEF TriageBuild, At
  <2>2. Upsert(row[TheIssue], "triaged", TRUE).stage = "triaged"
        /\ Upsert(row[TheIssue], "triaged", TRUE).implPr = row[TheIssue].implPr
    BY <2>1, PrFacts, UpsertType DEF Stages
  <2>3. \A i \in Issues : scratch'[i].impl # 0 => implPrs[i][scratch'[i].impl] # "unused"
    BY <1>4, <2>1, PrFacts, RememberPr DEF TriageBuild
  <2> QED
    BY <1>4, <2>1, <2>2, <2>3, PrFacts, PrCommit DEF TriageBuild, CommitUpsert, LateStages, PrInv
<1>5. CASE AuthorSpec
  <2>1. job.phase # "idle" /\ UNCHANGED <<implPrs, armed, skipped>>
    BY <1>5 DEF AuthorSpec, At
  <2>2. SetStage(row[TheIssue], "specced").stage = "specced"
        /\ SetStage(row[TheIssue], "specced").implPr = row[TheIssue].implPr
    BY <2>1, PrFacts, SetStageType DEF Stages
  <2>3. [Remembered EXCEPT !.spec = TRUE].impl = KnownImplPr
    BY <2>1, PrFacts, TheJob DEF Memory
  <2>4. \A i \in Issues : scratch'[i].impl # 0 => implPrs[i][scratch'[i].impl] # "unused"
    BY <1>5, <2>1, <2>3, PrFacts, RememberPr DEF AuthorSpec
  <2> QED
    BY <1>5, <2>1, <2>2, <2>4, PrFacts, PrCommit DEF AuthorSpec, Commit, LateStages, PrInv
<1>6. CASE ShadowHold
  BY <1>6 DEF ShadowHold, Idle, PrInv, Waits
<1>7. CASE TagSpec \/ SkipSpecPr
  <2> DEFINE r == [row[TheIssue] EXCEPT !.specPr = TRUE]
             m == [Remembered EXCEPT !.spec = TRUE, !.specPr = TRUE]
             n == [Remembered EXCEPT !.spec = TRUE]
  <2>1. job.phase # "idle" /\ UNCHANGED <<implPrs, armed, skipped>>
    BY <1>7 DEF TagSpec, SkipSpecPr, At
  <2>2. r \in Row /\ r.implPr = row[TheIssue].implPr
    BY <2>1, PrFacts DEF Row
  <2>3. PICK to \in {"spec_opened", "spec_ready"} : CommitUpsert(r, to)
    BY <1>7 DEF TagSpec, SkipSpecPr, AfterSpecPr
  <2>5. m.impl = KnownImplPr /\ n.impl = KnownImplPr
    BY <2>1, PrFacts, TheJob DEF Memory
  <2>6. Remember(m) \/ Remember(n)
    BY <1>7 DEF TagSpec, SkipSpecPr
  <2> HIDE DEF r, m, n
  <2>8. to \in Stages
    BY DEF Stages
  <2>4. Upsert(r, to, TRUE).stage = to /\ Upsert(r, to, TRUE).implPr = r.implPr
    BY <2>2, <2>8, UpsertType
  <2>7. \A i \in Issues : scratch'[i].impl # 0 => implPrs[i][scratch'[i].impl] # "unused"
    BY <2>1, <2>5, <2>6, PrFacts, RememberPr
  <2> QED
    BY <2>1, <2>2, <2>3, <2>4, <2>7, PrFacts, PrCommit DEF CommitUpsert, LateStages, PrInv
<1>8. CASE CreateImplPr
  BY <1>8, PrFacts DEF CreateImplPr, At, PrInv, Waits, IInv, TypeOK, KnownImplPr, TheIssue
<1>9. CASE EnsureImplPr
  <2>1. PICK k \in PrIds :
          /\ k = KnownImplPr \/ k \in OpenImpl(TheIssue)
          /\ Remember([Remembered EXCEPT !.spec = TRUE, !.impl = k,
                          !.diff = IF HasDiff THEN @ ELSE branch[TheIssue]])
    BY <1>9 DEF EnsureImplPr
  <2>2. job.phase # "idle" /\ UNCHANGED <<row, implPrs, armed, skipped>>
    BY <1>9 DEF EnsureImplPr, At
  <2>3. k # 0 /\ implPrs[TheIssue][k] # "unused"
    BY <2>1, <2>2, PrFacts DEF OpenImpl
  <2>4. [Remembered EXCEPT !.spec = TRUE, !.impl = k,
                          !.diff = IF HasDiff THEN @ ELSE branch[TheIssue]].impl = k
    BY <2>2, PrFacts, TheJob DEF Memory
  <2>5. \A i \in Issues : scratch'[i].impl # 0 => implPrs[i][scratch'[i].impl] # "unused"
    BY <2>1, <2>2, <2>3, <2>4, RememberPr
  <2>6. scratch'[TheIssue].impl = k
    BY <2>1, <2>2, <2>4, PrFacts DEF Remember, IInv, TypeOK
  <2>7. job' = [job EXCEPT !.phase = "built"]
    BY <1>9 DEF EnsureImplPr, Enter
  <2> QED
    BY <2>2, <2>3, <2>5, <2>6, <2>7, PrFacts DEF PrInv, Waits, Job, TheIssue
<1>10. CASE CommitImplemented
  <2> DEFINE r == [row[TheIssue] EXCEPT !.implPr = scratch[TheIssue].impl]
  <2>1. job.phase = "built" /\ UNCHANGED <<scratch, implPrs, armed, skipped>>
    BY <1>10 DEF CommitImplemented, At
  <2>2. scratch[TheIssue].impl # 0 /\ implPrs[TheIssue][scratch[TheIssue].impl] # "unused"
    BY <2>1, PrFacts DEF PrInv, TheIssue
  <2>3. r \in Row /\ r.implPr = scratch[TheIssue].impl
    BY <2>1, PrFacts DEF Row, Memory
  <2>4. CommitUpsert(r, "implemented")
    BY <1>10 DEF CommitImplemented
  <2>5. Upsert(r, "implemented", TRUE).stage = "implemented"
        /\ Upsert(r, "implemented", TRUE).implPr = scratch[TheIssue].impl
    BY <2>3, UpsertType DEF Stages
  <2> HIDE DEF r
  <2> QED
    BY <2>1, <2>2, <2>4, <2>5, PrCommit DEF CommitUpsert, PrInv
<1>11. CASE Review
  <2>1. job.phase # "idle" /\ job.stage = "implemented" /\ UNCHANGED <<implPrs, armed, skipped>>
    BY <1>11 DEF Review, At
  <2>2. PICK ok \in BOOLEAN : Remember([Remembered EXCEPT !.tested = ok])
    BY <1>11 DEF Review
  <2>3. [Remembered EXCEPT !.tested = ok].impl = KnownImplPr
    BY <2>1, PrFacts, TheJob DEF Memory
  <2>4. \A i \in Issues : scratch'[i].impl # 0 => implPrs[i][scratch'[i].impl] # "unused"
    BY <2>1, <2>2, <2>3, PrFacts, RememberPr
  <2>5. SetStage(row[TheIssue], "reviewed").stage = "reviewed"
        /\ SetStage(row[TheIssue], "reviewed").implPr = row[TheIssue].implPr
    BY <2>1, PrFacts, SetStageType DEF Stages
  <2>6. TheIssue \notin skipped => row[TheIssue].implPr # 0
    BY <1>11, <2>1, PrFacts DEF Review, Commit, CanTransition, PrInv, LateStages
  <2> QED
    BY <1>11, <2>1, <2>4, <2>5, <2>6, PrFacts, PrCommit DEF Review, Commit, PrInv
<1>12. CASE GateMerge
  <2> DEFINE k == KnownImplPr
  <2>1. job.phase = "started" /\ job.stage = "reviewed" /\ k \in PrIds /\ UNCHANGED <<row, scratch, skipped>>
    BY <1>12, PrFacts DEF GateMerge, At
  <2>2. job' = [job EXCEPT !.phase = "armed"] /\ KnownImplPr' = k
    BY <1>12, <2>1, PrFacts DEF GateMerge, Enter, KnownImplPr, Job, TheIssue
  <2>3. Waits(job.issue, KnownImplPr)'
    BY <1>12, <2>1, <2>2, PrFacts DEF GateMerge, Waits, IInv, TypeOK, Job, TheIssue, Enter
  <2>4. ASSUME NEW i \in Issues, NEW m \in PrIds
        PROVE  /\ implPrs[i][m] # "unused" => implPrs'[i][m] # "unused"
               /\ Waits(i, m) => Waits(i, m)'
    BY <1>12, <2>1, PrFacts DEF GateMerge, Waits, IInv, TypeOK
  <2>5. \A i \in Issues : row[i].implPr \in {0} \cup PrIds /\ scratch[i].impl \in {0} \cup PrIds
    BY <2>1, PrFacts DEF IInv, TypeOK, Row, Memory
  <2> HIDE DEF k
  <2>6. job.impl \in {0} \cup PrIds /\ job'.impl = job.impl /\ job'.issue = job.issue
        /\ job'.stage = job.stage /\ job'.phase = "armed"
    BY <2>1, <2>2, PrFacts DEF Job
  <2>7. ASSUME NEW i \in Issues
        PROVE  /\ i \notin skipped' /\ row'[i].stage \in LateStages => row'[i].implPr # 0
               /\ i \notin skipped' /\ row'[i].stage = "awaiting_merge" => Waits(i, row[i].implPr)'
               /\ row'[i].implPr # 0 => implPrs'[i][row'[i].implPr] # "unused"
               /\ scratch'[i].impl # 0 => implPrs'[i][scratch'[i].impl] # "unused"
    <3>1. row'[i] = row[i] /\ scratch'[i] = scratch[i]
      BY <2>1
    <3>2. i \notin skipped /\ row[i].stage = "awaiting_merge" => row[i].implPr \in PrIds
      BY <2>5 DEF PrInv, LateStages
    <3>3. i \notin skipped /\ row[i].stage = "awaiting_merge" => Waits(i, row[i].implPr)'
      BY <2>1, <2>4, <3>1, <3>2 DEF PrInv, Waits
    <3> QED
      BY <2>1, <2>4, <2>5, <3>1, <3>3 DEF PrInv
  <2>8. job.impl # 0 => implPrs'[job.issue][job.impl] # "unused"
    BY <2>1, <2>4, <2>6, PrFacts DEF PrInv, TheIssue
  <2> QED
    BY <2>1, <2>2, <2>3, <2>6, <2>7, <2>8, PrFacts DEF PrInv, TheIssue, Waits
<1>13. CASE CommitAwaiting
  <2>1. job.phase = "armed" /\ job.stage = "reviewed" /\ UNCHANGED <<implPrs, armed, skipped>>
    BY <1>13 DEF CommitAwaiting, At
  <2>2. \A i \in Issues : scratch'[i].impl # 0 => implPrs[i][scratch'[i].impl] # "unused"
    BY <1>13, <2>1, PrFacts, RememberPr DEF CommitAwaiting
  <2>3. SetStage(row[TheIssue], "awaiting_merge").stage = "awaiting_merge"
        /\ SetStage(row[TheIssue], "awaiting_merge").implPr = row[TheIssue].implPr
    BY <2>1, PrFacts, SetStageType DEF Stages
  <2>4. row[TheIssue].stage = "reviewed"
    BY <1>13, <2>1 DEF CommitAwaiting, Commit, CanTransition
  <2>5. /\ TheIssue \notin skipped => row[TheIssue].implPr # 0
        /\ row[TheIssue].implPr = job.impl
    BY <2>1, <2>4, PrFacts DEF PrInv, LateStages, TheIssue, Absent
  <2>6. TheIssue \notin skipped => Waits(TheIssue, row[TheIssue].implPr)
    BY <2>1, <2>5 DEF PrInv, KnownImplPr, TheIssue
  <2> QED
    BY <1>13, <2>1, <2>2, <2>3, <2>5, <2>6, PrFacts, PrCommit DEF CommitAwaiting, Commit, PrInv
<1>14. CASE AwaitOpen
  <2> DEFINE r == [row[TheIssue] EXCEPT !.specPr = @ \/ job.specPr, !.implPr = job.impl]
  <2>1. job.phase = "started" /\ job.stage = "awaiting_merge" /\ job.impl # 0
        /\ UNCHANGED <<scratch, implPrs, armed, skipped>>
    BY <1>14 DEF AwaitOpen, Awaits, At
  <2>2. r \in Row /\ r.implPr = job.impl
    BY <2>1, PrFacts DEF Row, Job
  <2>3. CommitUpsert(r, "awaiting_merge")
    BY <1>14 DEF AwaitOpen
  <2>5. (TheIssue \notin skipped => Waits(TheIssue, job.impl)) /\ implPrs[TheIssue][job.impl] # "unused"
    BY <2>1 DEF PrInv, TheIssue
  <2> HIDE DEF r
  <2>4. Upsert(r, "awaiting_merge", TRUE).implPr = job.impl
    BY <2>2, UpsertType DEF Stages
  <2> QED
    BY <2>1, <2>3, <2>4, <2>5, PrCommit DEF CommitUpsert, PrInv
<1>15. CASE SpecFileMissing \/ Fail
  <2>1. job.phase # "idle" /\ row[TheIssue].stage # Absent /\ job' = Idle
        /\ row' = [row EXCEPT ![TheIssue] = BumpAttempt(@)] /\ UNCHANGED <<scratch, implPrs, armed, skipped>>
    BY <1>15 DEF SpecFileMissing, Fail, At
  <2>2. BumpAttempt(row[TheIssue]).stage \in {row[TheIssue].stage, "failed"}
        /\ BumpAttempt(row[TheIssue]).implPr = row[TheIssue].implPr
    BY <2>1, TheJob, BumpAttemptType DEF GoodRow, TerminalStages
  <2> QED
    BY <2>1, <2>2, PrFacts, PrCommit DEF PrInv, LateStages
<1>16. CASE Crash
  BY <1>16 DEF Crash, ProcessRestarts, Idle, NoMemory, PrInv, Waits
<1> QED
  BY <1>1, <1>2, <1>3, <1>4, <1>5, <1>6, <1>7, <1>8, <1>9, <1>10, <1>11, <1>12, <1>13, <1>14,
     <1>15, <1>16 DEF Advance

\* A reconcile pass leaves the PR of a row alone and puts no row at a late stage.
LEMMA ReconcilePr ==
  ASSUME NEW i \in Issues, NEW found \in BOOLEAN, row[i] \in Row,
         NEW r \in {row[i], Listed(i, found), Unlisted(i, found)}
  PROVE  r.implPr = row[i].implPr /\ (r.stage \in LateStages => r.stage = row[i].stage)
<1>1. \A s \in Stages, o \in BOOLEAN :
        Upsert(row[i], s, o).stage = s /\ Upsert(row[i], s, o).implPr = row[i].implPr
  BY UpsertType
<1>2. row[i].stage # Absent => row[i].stage \in Stages
  BY DEF Row
<1>3. FirstSight(i).implPr = row[i].implPr
      /\ (FirstSight(i).stage \in LateStages => FirstSight(i).stage = row[i].stage)
  BY <1>1 DEF FirstSight, Stages, LateStages
<1>4. Listed(i, found).implPr = row[i].implPr
      /\ (Listed(i, found).stage \in LateStages => Listed(i, found).stage = row[i].stage)
  BY <1>1, <1>2, <1>3 DEF Listed, Stages, LateStages
<1>5. Unlisted(i, found).implPr = row[i].implPr
      /\ (Unlisted(i, found).stage \in LateStages => Unlisted(i, found).stage = row[i].stage)
  <2> DEFINE m == SetStage(row[i], "merged")
  <2>1. m \in Row /\ m.stage = "merged" /\ m.implPr = row[i].implPr
    BY SetStageType DEF Stages
  <2> HIDE DEF m
  <2>2. [m EXCEPT !.open = FALSE].stage = "merged" /\ [m EXCEPT !.open = FALSE].implPr = row[i].implPr
    BY <2>1 DEF Row
  <2>3. Unlisted(i, found) \in {row[i], [m EXCEPT !.open = FALSE]}
    BY DEF Unlisted, m
  <2> QED
    BY <2>2, <2>3 DEF LateStages
<1> QED
  BY <1>4, <1>5

LEMMA TickPr == IInv /\ PrInv /\ (Tick \/ TickAborted) => PrInv'
<1> USE DEF history
<1>1. ASSUME IInv, PrInv, NEW reached \in SUBSET Issues, NEW found \in SUBSET Issues,
             NEW cleared \in SUBSET Issues, ReconcileIssues(reached, found, cleared)
      PROVE  /\ \A i \in Issues : row'[i].implPr = row[i].implPr
                                /\ (row'[i].stage \in LateStages => row'[i].stage = row[i].stage)
             /\ UNCHANGED <<scratch, implPrs, armed, skipped>>
  <2>1. \A i \in Issues : row'[i] \in {row[i], Listed(i, i \in found), Unlisted(i, i \in found)}
    BY <1>1 DEF ReconcileIssues
  <2>2. \A i \in Issues : row[i] \in Row /\ (i \in found) \in BOOLEAN
    BY <1>1 DEF IInv, TypeOK
  <2> QED
    BY <1>1, <2>1, <2>2, ReconcilePr DEF ReconcileIssues
<1>2. ASSUME IInv, PrInv, job' = Idle, UNCHANGED <<scratch, implPrs, armed, skipped>>,
             \A i \in Issues : row'[i].implPr = row[i].implPr
                             /\ (row'[i].stage \in LateStages => row'[i].stage = row[i].stage)
      PROVE  PrInv'
  BY <1>2 DEF PrInv, LateStages, Waits, Idle
<1>3. ASSUME IInv, PrInv, UNCHANGED <<scratch, implPrs, armed, skipped>>,
             \A i \in Issues : row'[i].implPr = row[i].implPr
                             /\ (row'[i].stage \in LateStages => row'[i].stage = row[i].stage),
             NEW i \in Issues, job' = Started(i, row'[i])
      PROVE  PrInv'
  BY <1>3 DEF PrInv, LateStages, Waits, Started
<1>4. ASSUME IInv, PrInv, Tick PROVE PrInv'
  <2>1. PICK found \in SUBSET Issues, cleared \in SUBSET Issues :
          /\ ReconcileIssues(Issues, found, cleared)
          /\ \/ \E i \in Issues : job' = Started(i, row'[i])
             \/ job' = Idle
    BY <1>4 DEF Tick
  <2> QED
    BY <1>1, <1>2, <1>3, <1>4, <2>1
<1>5. ASSUME IInv, PrInv, TickAborted PROVE PrInv'
  BY <1>1, <1>2, <1>5 DEF TickAborted
<1> QED
  BY <1>4, <1>5

LEMMA OutsidePr == IInv /\ PrInv /\ Outside => PrInv'
<1> SUFFICES ASSUME IInv, PrInv, Outside PROVE PrInv'
  OBVIOUS
<1> USE DEF forge, history
<1>1. CASE Restart
  BY <1>1 DEF Restart, ProcessRestarts, Idle, NoMemory, PrInv, Waits
<1>2. CASE RequeueFailedMain
  <2>1. PICK i \in Issues, target \in RequeueTargets :
          /\ row[i].stage = "failed" /\ row' = [row EXCEPT ![i] = RequeueFailed(@, target)]
          /\ skipped' = IF target \in LateStages THEN skipped \cup {i} ELSE skipped
    BY <1>2 DEF RequeueFailedMain
  <2>2. RequeueFailed(row[i], target).stage = target
        /\ RequeueFailed(row[i], target).implPr = row[i].implPr
    BY PollerAssumption, RequeueFailedType DEF IInv, TypeOK
  <2>3. job.phase # "idle" => job.issue \in Issues /\ job.issue # i
    BY <2>1 DEF IInv, TypeOK, JobOnRow, ActionableStages, Absent
  <2>4. \A j \in Issues : row'[j] = IF j = i THEN RequeueFailed(row[i], target) ELSE row[j]
    BY <2>1 DEF IInv, TypeOK
  <2>5. job.phase # "idle" => row'[job.issue] = row[job.issue]
    BY <2>3, <2>4
  <2> QED
    BY <1>2, <2>1, <2>2, <2>3, <2>4, <2>5 DEF RequeueFailedMain, PrInv, Waits, LateStages, KnownImplPr, TheIssue
<1>3. CASE ResetQueueMain
  BY <1>3 DEF ResetQueueMain, NoRow, Absent, PrInv, Waits, LateStages, IInv, TypeOK, KnownImplPr, TheIssue
<1>4. CASE Relabel \/ CloseOrReopenIssue \/ CloseDelivered \/ MergeSpecPr
  BY <1>4 DEF Relabel, CloseOrReopenIssue, CloseDelivered, MergeSpecPr, PrInv, Waits, KnownImplPr, TheIssue
<1>5. ASSUME NEW i \in Issues, NEW k \in PrIds, NEW state \in {"merged", "closed"}, LeavesOpen(i, k, state)
      PROVE  PrInv'
  <2>1. \A j \in Issues : \A m \in 0..MaxPrs :
          /\ m # 0 /\ implPrs[j][m] # "unused" => implPrs'[j][m] # "unused"
          /\ m # 0 /\ Waits(j, m) => Waits(j, m)'
    BY <1>5, MaxPrsAssumption DEF LeavesOpen, PrIds, Waits, IInv, TypeOK
  <2>2. UNCHANGED <<row, job, scratch, skipped>> /\ KnownImplPr' = KnownImplPr
    BY <1>5 DEF LeavesOpen, KnownImplPr, TheIssue
  <2>3. \A j \in Issues : row[j].implPr \in 0..MaxPrs /\ scratch[j].impl \in 0..MaxPrs
    BY DEF IInv, TypeOK, Row, Memory
  <2>4. job.phase # "idle" => job.issue \in Issues /\ job.impl \in 0..MaxPrs /\ KnownImplPr \in 0..MaxPrs
    BY PrFacts DEF TheIssue, Job
  <2> QED
    BY <2>1, <2>2, <2>3, <2>4 DEF PrInv, LateStages
<1>6. CASE HumanEndsPr \/ AutoMerge
  BY <1>5, <1>6 DEF HumanEndsPr, AutoMerge
<1> QED
  BY <1>1, <1>2, <1>3, <1>4, <1>6 DEF Outside

LEMMA PollerPrInv == Spec => []PrInv
<1>1. Init => PrInv
  BY DEF Init, NoRow, Absent, NoMemory, Idle, PrInv, LateStages
<1>2. IInv /\ PrInv /\ UNCHANGED vars => PrInv'
  BY DEF vars, forge, history, PrInv, Waits, KnownImplPr, TheIssue
<1>3. IInv /\ PrInv /\ [Next]_vars => PrInv'
  BY <1>2, AdvancePr, TickPr, OutsidePr DEF Next, Poller
<1> QED
  BY <1>1, <1>3, PollerIInv, PTL DEF Spec

\* No row is at a stage past implement without the PR that stage works on, unless
\* the operator's requeue has put it there.
THEOREM PollerKeepsPr == Spec => []PastImplementHasPr
<1>1. PrInv => PastImplementHasPr
  BY DEF PrInv, PastImplementHasPr, LateStages
<1> QED
  BY <1>1, PollerPrInv, PTL

\* A row parked in awaiting_merge on an open PR has that PR armed, through
\* resets, requeues, restarts and PRs closed or merged by hand.
THEOREM PollerParksArmed == Spec => []ParkedIsArmed
<1>1. PrInv => ParkedIsArmed
  BY DEF PrInv, ParkedIsArmed, Waits
<1> QED
  BY <1>1, PollerPrInv, PTL

-----------------------------------------------------------------------------
(* What the gate judges is what is on the branch                            *)

\* As long as no restart has dropped it, the diff in the scratch is the content
\* of the branch; the poller knows no implementation PR, and none is armed,
\* before that diff is there; and a branch is only pushed over while it is not.
DiffInv ==
  /\ \A i \in Issues \ lost :
       /\ scratch[i].diff \in {"none", branch[i]}
       /\ scratch[i].diff = "none" => scratch[i].impl = 0 /\ row[i].implPr = 0 /\ armed[i] = {}
       /\ armed[i] # {} => branch[i] # "risky"
  /\ job.phase # "idle" /\ job.issue \notin lost =>
       /\ scratch[job.issue].diff = "none" => job.impl = 0
       /\ job.phase = "building" => scratch[job.issue].diff = "none"
       /\ job.phase = "pushed" => scratch[job.issue].diff # "none" \/ branch[job.issue] # "none"

\* What a step of a tick leaves in the scratch: the diff, and a PR number it knew.
SameDiff(m) == m.diff = scratch[TheIssue].diff /\ m.impl \in {scratch[TheIssue].impl, KnownImplPr}

\* The diffs stay; a PR number that is new in the scratch or in a row is one the
\* tick knew.
KeepsDiff ==
  \A i \in Issues : /\ scratch'[i].diff = scratch[i].diff
                    /\ \/ scratch'[i].impl = scratch[i].impl
                       \/ i = TheIssue /\ scratch'[i].impl = KnownImplPr
KeepsPr ==
  \A i \in Issues : \/ row'[i].implPr = row[i].implPr
                    \/ i = TheIssue /\ row'[i].implPr \in {job.impl, scratch[i].impl}

LEMMA RememberDiff ==
  ASSUME IInv, job.phase # "idle", NEW m, SameDiff(m), Remember(m)
  PROVE  KeepsDiff
BY TheJob DEF SameDiff, Remember, KeepsDiff, IInv, TypeOK

\* The two ways a step of a tick keeps the invariant: it ends the tick, or it
\* moves on inside it.
LEMMA DiffEnd ==
  ASSUME IInv, DiffInv, job.phase # "idle", job' = Idle, UNCHANGED <<branch, armed, lost>>,
         KeepsDiff, KeepsPr
  PROVE  DiffInv'
<1>1. ASSUME NEW i \in Issues \ lost, scratch[i].diff = "none"
      PROVE  scratch'[i].impl = 0 /\ row'[i].implPr = 0
  BY <1>1 DEF DiffInv, KeepsDiff, KeepsPr, KnownImplPr, TheIssue
<1> QED
  BY <1>1 DEF DiffInv, KeepsDiff, Idle

LEMMA DiffEnter ==
  ASSUME IInv, DiffInv, job.phase # "idle", NEW p \in Phases \ {"idle", "building", "pushed"}, Enter(p),
         UNCHANGED <<row, branch, armed, lost>>, KeepsDiff
  PROVE  DiffInv'
<1>1. ASSUME NEW i \in Issues \ lost, scratch[i].diff = "none"
      PROVE  scratch'[i].impl = 0
  BY <1>1 DEF DiffInv, KeepsDiff, KnownImplPr, TheIssue
<1>2. job'.issue = job.issue /\ job'.impl = job.impl /\ job'.phase \notin {"building", "pushed"}
  BY TheJob DEF Enter, IInv, TypeOK, Job
<1> QED
  BY <1>1, <1>2, TheJob DEF DiffInv, KeepsDiff, TheIssue

\* The writes of a row that keep its PR number.
LEMMA SamePr ==
  ASSUME NEW r \in Row
  PROVE  /\ \A s \in Stages : SetStage(r, s).implPr = r.implPr
         /\ \A s \in Stages, o \in BOOLEAN : Upsert(r, s, o).implPr = r.implPr
         /\ BumpAttempt(r).implPr = r.implPr
BY DEF SetStage, Upsert, BumpAttempt, Row

LEMMA TheRow ==
  ASSUME IInv, job.phase # "idle"
  PROVE  TheIssue \in Issues /\ row[TheIssue] \in Row /\ scratch[TheIssue] \in Memory /\ job \in Job
BY TheJob DEF IInv, TypeOK, GoodRow

\* A restart forgets the diff of an issue it does not list as lost only where
\* nothing has been pushed.
LEMMA RestartDiff ==
  ASSUME IInv, DiffInv, ProcessRestarts
  PROVE  DiffInv'
<1>1. /\ job' = Idle /\ lost' = lost \cup {i \in Issues : branch[i] # "none"}
      /\ scratch' = [i \in Issues |-> NoMemory] /\ UNCHANGED <<row, armed, branch>>
  BY DEF ProcessRestarts, forge
<1>2. ASSUME NEW i \in Issues \ lost' PROVE i \notin lost /\ branch[i] = "none"
  BY <1>1, <1>2
<1>3. ASSUME NEW i \in Issues \ lost' PROVE row[i].implPr = 0 /\ armed[i] = {}
  BY <1>2, <1>3 DEF DiffInv
<1> QED
  BY <1>1, <1>2, <1>3 DEF DiffInv, Idle, NoMemory

LEMMA AdvanceDiff == IInv /\ DiffInv /\ Advance => DiffInv'
<1> SUFFICES ASSUME IInv, DiffInv, Advance PROVE DiffInv'
  OBVIOUS
<1> USE DEF forge, history
<1>0. ASSUME job.phase # "idle"
      PROVE  /\ SameDiff(Remembered)
             /\ SameDiff([Remembered EXCEPT !.spec = TRUE])
             /\ SameDiff([Remembered EXCEPT !.spec = TRUE, !.specPr = TRUE])
             /\ \A ok \in BOOLEAN : SameDiff([Remembered EXCEPT !.tested = ok])
  BY <1>0, TheJob DEF SameDiff, Remembered, Memory
<1>16. UNCHANGED scratch => KeepsDiff
  BY DEF KeepsDiff, IInv, TypeOK
<1>1. CASE \/ TriagePark \/ AcceptGateDeny \/ GateEscalate \/ AwaitWithoutPr \/ AwaitClosed
  <2>1. /\ job.phase # "idle" /\ Enter("parking") /\ UNCHANGED <<row, branch, armed, lost>>
        /\ UNCHANGED scratch \/ Remember(Remembered)
    BY <1>1 DEF TriagePark, AcceptGateDeny, GateEscalate, AwaitWithoutPr, AwaitClosed, Awaits, At, Park
  <2>2. KeepsDiff
    BY <1>0, <1>16, <2>1, RememberDiff
  <2> QED
    BY <2>1, <2>2, DiffEnter DEF Phases
<1>2. CASE AcceptGateAllow \/ CommitSpec \/ PushSpec \/ OpenSpecPr \/ UntagSpec
  <2>1. /\ job.phase # "idle" /\ UNCHANGED <<row, scratch, branch, armed, lost>>
        /\ \E p \in {"approved", "committed", "specPushed", "opened", "untagged"} : Enter(p)
    BY <1>2 DEF AcceptGateAllow, CommitSpec, PushSpec, OpenSpecPr, UntagSpec, At
  <2>2. PICK p \in {"approved", "committed", "specPushed", "opened", "untagged"} : Enter(p)
    BY <2>1
  <2> QED
    BY <1>16, <2>1, <2>2, DiffEnter DEF Phases
<1>3. CASE CommitPark \/ ResumeSpecOpened \/ AwaitMerged
  <2>1. PICK to \in {"escalated", "spec_ready", "merged"} : Commit(to)
    BY <1>3 DEF CommitPark, ResumeSpecOpened, AwaitMerged
  <2>2. job.phase # "idle" /\ UNCHANGED <<scratch, branch, armed, lost>>
    BY <1>3 DEF CommitPark, ResumeSpecOpened, AwaitMerged, Awaits, At
  <2>3. KeepsPr
    BY <2>1, <2>2, TheRow, SamePr DEF Commit, IInv, TypeOK, Stages, KeepsPr
  <2> QED
    BY <1>16, <2>1, <2>2, <2>3, DiffEnd DEF Commit
<1>4. CASE TriageBuild \/ AuthorSpec \/ Review \/ CommitAwaiting
  <2>1. PICK to \in {"specced", "reviewed", "awaiting_merge", "triaged"} :
          Commit(to) \/ CommitUpsert(row[TheIssue], to)
    BY <1>4 DEF TriageBuild, AuthorSpec, Review, CommitAwaiting
  <2>2. job.phase # "idle" /\ UNCHANGED <<branch, armed, lost>>
    BY <1>4 DEF TriageBuild, AuthorSpec, Review, CommitAwaiting, At
  <2>7. to \in Stages
    BY DEF Stages
  <2>3. SetStage(row[TheIssue], to).implPr = row[TheIssue].implPr
        /\ Upsert(row[TheIssue], to, TRUE).implPr = row[TheIssue].implPr
    BY <2>2, <2>7, TheRow, UpsertType, SetStageType
  <2>4. KeepsPr
    BY <2>1, <2>3, TheJob DEF Commit, CommitUpsert, IInv, TypeOK, KeepsPr
  <2>5. PICK m : SameDiff(m) /\ Remember(m)
    BY <1>0, <1>4, <2>2 DEF TriageBuild, AuthorSpec, Review, CommitAwaiting
  <2>6. KeepsDiff
    BY <2>2, <2>5, RememberDiff
  <2> QED
    BY <2>1, <2>2, <2>4, <2>6, DiffEnd DEF Commit, CommitUpsert
<1>5. CASE TagSpec \/ SkipSpecPr
  <2> DEFINE r == [row[TheIssue] EXCEPT !.specPr = TRUE]
  <2>1. job.phase # "idle" /\ UNCHANGED <<branch, armed, lost>>
    BY <1>5 DEF TagSpec, SkipSpecPr, At
  <2>2. r \in Row /\ r.implPr = row[TheIssue].implPr
    BY <2>1, TheRow DEF Row
  <2>3. PICK to \in {"spec_opened", "spec_ready"} : CommitUpsert(r, to)
    BY <1>5 DEF TagSpec, SkipSpecPr, AfterSpecPr
  <2>4. PICK m : SameDiff(m) /\ Remember(m)
    BY <1>0, <1>5, <2>1 DEF TagSpec, SkipSpecPr
  <2> HIDE DEF r
  <2>5. KeepsPr
    BY <2>1, <2>2, <2>3, TheRow, SamePr DEF CommitUpsert, IInv, TypeOK, Stages, KeepsPr
  <2>6. KeepsDiff
    BY <2>1, <2>4, RememberDiff
  <2> QED
    BY <2>1, <2>3, <2>5, <2>6, DiffEnd DEF CommitUpsert
<1>6. CASE ShadowHold
  BY <1>6 DEF ShadowHold, Idle, DiffInv
<1>7. CASE ReuseDiff \/ PrepareImpl
  BY <1>7, TheJob DEF ReuseDiff, PrepareImpl, HasDiff, At, Enter, TheIssue, DiffInv, IInv, TypeOK, Job
<1>8. CASE PushImpl
  BY <1>8, TheJob DEF PushImpl, At, Enter, TheIssue, Contents, DiffInv, IInv, TypeOK, Job
<1>9. CASE CreateImplPr
  BY <1>9 DEF CreateImplPr, DiffInv
<1>10. CASE EnsureImplPr
  <2> DEFINE d == IF HasDiff THEN scratch[TheIssue].diff ELSE branch[TheIssue]
  <2>1. PICK k \in PrIds : Remember([Remembered EXCEPT !.spec = TRUE, !.impl = k,
                                        !.diff = IF HasDiff THEN @ ELSE branch[TheIssue]])
    BY <1>10 DEF EnsureImplPr
  <2>2. /\ job.phase = "pushed" /\ job' = [job EXCEPT !.phase = "built"]
        /\ UNCHANGED <<row, branch, armed, lost>>
    BY <1>10 DEF EnsureImplPr, At, Enter
  <2>3. scratch'[TheIssue].diff = d /\ \A i \in Issues \ {TheIssue} : scratch'[i] = scratch[i]
    BY <2>1, <2>2, TheJob DEF Remember, Remembered, Memory, IInv, TypeOK
  <2>4. TheIssue \notin lost => d = branch[TheIssue] /\ d # "none"
    BY <2>2, TheJob DEF DiffInv, HasDiff, TheIssue
  <2> HIDE DEF d
  <2> QED
    BY <2>2, <2>3, <2>4, TheJob DEF DiffInv, TheIssue, IInv, TypeOK, Job
<1>11. CASE CommitImplemented
  <2> DEFINE r == [row[TheIssue] EXCEPT !.implPr = scratch[TheIssue].impl]
  <2>1. job.phase # "idle" /\ UNCHANGED <<scratch, branch, armed, lost>> /\ CommitUpsert(r, "implemented")
    BY <1>11 DEF CommitImplemented, At
  <2>2. r \in Row /\ r.implPr = scratch[TheIssue].impl
    BY <2>1, TheRow DEF Row, Memory
  <2> HIDE DEF r
  <2>3. KeepsPr
    BY <2>1, <2>2, TheRow, SamePr DEF CommitUpsert, IInv, TypeOK, Stages, KeepsPr
  <2> QED
    BY <1>16, <2>1, <2>3, DiffEnd DEF CommitUpsert
<1>12. CASE GateMerge
  <2>1. /\ scratch[TheIssue].diff # "risky" /\ KnownImplPr # 0 /\ job.phase = "started"
        /\ UNCHANGED <<row, scratch, branch, lost>> /\ job' = [job EXCEPT !.phase = "armed"]
        /\ \A i \in Issues \ {TheIssue} : armed'[i] = armed[i]
    BY <1>12, TheJob DEF GateMerge, DecideMerge, At, Enter, IInv, TypeOK
  <2>2. TheIssue \notin lost => scratch[TheIssue].diff # "none" /\ branch[TheIssue] # "risky"
    BY <2>1, TheJob DEF DiffInv, KnownImplPr, TheIssue
  <2> QED
    BY <2>1, <2>2, TheJob DEF DiffInv, TheIssue, IInv, TypeOK, Job
<1>13. CASE AwaitOpen
  <2> DEFINE r == [row[TheIssue] EXCEPT !.specPr = @ \/ job.specPr, !.implPr = job.impl]
  <2>1. job.phase # "idle" /\ UNCHANGED <<scratch, branch, armed, lost>> /\ CommitUpsert(r, "awaiting_merge")
    BY <1>13 DEF AwaitOpen, Awaits, At
  <2>2. r \in Row /\ r.implPr = job.impl
    BY <2>1, TheRow DEF Row, Job
  <2> HIDE DEF r
  <2>3. KeepsPr
    BY <2>1, <2>2, TheRow, SamePr DEF CommitUpsert, IInv, TypeOK, Stages, KeepsPr
  <2> QED
    BY <1>16, <2>1, <2>3, DiffEnd DEF CommitUpsert
<1>14. CASE SpecFileMissing \/ Fail
  <2>1. job.phase # "idle" /\ job' = Idle /\ UNCHANGED <<scratch, branch, armed, lost>>
        /\ row' = [row EXCEPT ![TheIssue] = BumpAttempt(@)]
    BY <1>14 DEF SpecFileMissing, Fail, At
  <2>2. KeepsPr
    BY <2>1, TheRow, SamePr DEF IInv, TypeOK, KeepsPr
  <2> QED
    BY <1>16, <2>1, <2>2, DiffEnd
<1>15. CASE Crash
  BY <1>15, RestartDiff DEF Crash
<1> QED
  BY <1>1, <1>2, <1>3, <1>4, <1>5, <1>6, <1>7, <1>8, <1>9, <1>10, <1>11, <1>12, <1>13, <1>14, <1>15
     DEF Advance

LEMMA TickDiff == IInv /\ DiffInv /\ (Tick \/ TickAborted) => DiffInv'
<1> SUFFICES ASSUME IInv, DiffInv, Tick \/ TickAborted PROVE DiffInv'
  OBVIOUS
<1>1. PICK reached \in SUBSET Issues, found \in SUBSET Issues, cleared \in SUBSET Issues :
        /\ ReconcileIssues(reached, found, cleared)
        /\ job' = Idle \/ \E i \in Issues : job' = Started(i, row'[i])
  BY DEF Tick, TickAborted
<1>2. \A i \in Issues : row'[i] \in {row[i], Listed(i, i \in found), Unlisted(i, i \in found)}
  BY <1>1 DEF ReconcileIssues
<1>3. \A i \in Issues : row[i] \in Row /\ (i \in found) \in BOOLEAN
  BY <1>1 DEF IInv, TypeOK
<1>4. \A i \in Issues : row'[i].implPr = row[i].implPr
  BY <1>2, <1>3, ReconcilePr
<1>5. UNCHANGED <<scratch, branch, armed, lost>>
  BY <1>1 DEF ReconcileIssues, history
<1> QED
  BY <1>1, <1>4, <1>5 DEF DiffInv, Idle, Started

LEMMA OutsideDiff == IInv /\ DiffInv /\ Outside => DiffInv'
<1> SUFFICES ASSUME IInv, DiffInv, Outside PROVE DiffInv'
  OBVIOUS
<1> USE DEF forge, history
<1>1. CASE Restart
  BY <1>1, RestartDiff DEF Restart
<1>2. CASE RequeueFailedMain
  <2>1. \A i \in Issues, t \in ActionableStages : RequeueFailed(row[i], t).implPr = row[i].implPr
    BY RequeueFailedType DEF IInv, TypeOK
  <2>2. \A i \in Issues : row'[i].implPr = row[i].implPr
    BY <1>2, <2>1, PollerAssumption DEF RequeueFailedMain, IInv, TypeOK
  <2> QED
    BY <1>2, <2>2 DEF RequeueFailedMain, DiffInv
<1>3. CASE ResetQueueMain
  BY <1>3 DEF ResetQueueMain, NoRow, DiffInv
<1>4. CASE Relabel \/ CloseOrReopenIssue \/ CloseDelivered \/ MergeSpecPr
  BY <1>4 DEF Relabel, CloseOrReopenIssue, CloseDelivered, MergeSpecPr, DiffInv
<1>5. ASSUME NEW i \in Issues, NEW k \in PrIds, NEW state \in {"merged", "closed"}, LeavesOpen(i, k, state)
      PROVE  DiffInv'
  BY <1>5 DEF LeavesOpen, DiffInv, IInv, TypeOK
<1>6. CASE HumanEndsPr \/ AutoMerge
  BY <1>5, <1>6 DEF HumanEndsPr, AutoMerge
<1> QED
  BY <1>1, <1>2, <1>3, <1>4, <1>6 DEF Outside

\* Content the gate would refuse is armed only where a restart has dropped the
\* diff the gate judges: any number of issues and PRs, requeues to any stage,
\* failed pushes and retries, all modes.
THEOREM PollerArmsRiskyOnlyIfLost == Spec => []RiskyArmedOnlyIfLost
<1>1. Init => DiffInv
  BY DEF Init, NoRow, NoMemory, Idle, DiffInv
<1>2. IInv /\ DiffInv /\ UNCHANGED vars => DiffInv'
  BY DEF vars, forge, history, DiffInv
<1>3. IInv /\ DiffInv /\ [Next]_vars => DiffInv'
  BY <1>2, AdvanceDiff, TickDiff, OutsideDiff DEF Next, Poller
<1>4. DiffInv => RiskyArmedOnlyIfLost
  BY DEF DiffInv, RiskyArmedOnlyIfLost
<1> QED
  BY <1>1, <1>3, <1>4, PollerIInv, PTL DEF Spec

-----------------------------------------------------------------------------
(* The poller implements IssueLifecycle                                     *)

\* The stage of every issue moves as the lifecycle allows, or not at all.
Allowed(i) == row'[i].stage = row[i].stage \/ Lifecycle!Moved(i)

LEMMA LifecycleStages ==
  /\ Lifecycle!Absent = Absent /\ Lifecycle!Stages = Stages
  /\ Lifecycle!Successors = Successors
  /\ Lifecycle!InFlight = Stages \ TerminalStages
  /\ Absent \notin Stages
BY DEF Lifecycle!Absent, Lifecycle!Stages, Lifecycle!Successors, Lifecycle!InFlight,
       Lifecycle!TerminalStages, Absent, Stages, Successors, TerminalStages

LEMMA LifecycleNext ==
  (\A i \in Issues : Allowed(i)) => Lifecycle!Next
BY DEF Allowed, Lifecycle!Next

\* Each kind of move, as the rows show it.
LEMMA MoveKinds ==
  ASSUME NEW i \in Issues, NEW from, NEW to, row[i].stage = from, row'[i].stage = to
  PROVE  /\ from \in (Stages \ TerminalStages) \ {"awaiting_merge"} /\ to \in Successors[from]
              => Lifecycle!Moved(i)
         /\ from \in (Stages \ TerminalStages) \cup {Absent} /\ to = "escalated"
              => Lifecycle!Moved(i)
         /\ from \in Stages \ TerminalStages /\ to = "failed" => Lifecycle!Moved(i)
         /\ from \in {Absent, "escalated"} /\ to = "queued" => Lifecycle!Moved(i)
         /\ from = "failed" /\ to \in RequeueTargets => Lifecycle!Moved(i)
         /\ from \in Stages /\ to = Absent => Lifecycle!Moved(i)
         /\ from = Absent /\ to \in {"triaged", "spec_opened", "spec_ready", "implemented",
                                    "awaiting_merge"} => Lifecycle!Moved(i)
BY LifecycleStages
DEF Lifecycle!Moved, Lifecycle!Moves, Lifecycle!Advance, Lifecycle!Park, Lifecycle!Exhaust,
    Lifecycle!Accept, Lifecycle!Requeue, Lifecycle!Forget, Lifecycle!Reappear

\* The ways into merged, each with its fact.
LEMMA MergedKinds ==
  ASSUME NEW i \in Issues, row'[i].stage = "merged"
  PROVE  /\ row[i].stage = "awaiting_merge" /\ FactHolds(i, "delivered") => Lifecycle!Moved(i)
         /\ row[i].stage \in (Stages \ TerminalStages) \cup {Absent} /\ FactHolds(i, "done")
              => Lifecycle!Moved(i)
         /\ row[i].stage = Absent /\ FactHolds(i, "resolved") => Lifecycle!Moved(i)
         /\ row[i].stage = "escalated" /\ FactHolds(i, "closed") => Lifecycle!Moved(i)
BY LifecycleStages
DEF Lifecycle!Moved, Lifecycle!Moves, Lifecycle!Complete, Lifecycle!Resolve

LEMMA LifecycleInit == Init => Lifecycle!Init
<1>1. {f \in {"delivered", "done", "resolved", "closed"} : TRUE} = Lifecycle!Facts
  BY DEF Lifecycle!Facts
<1> QED
  BY LifecycleStages, NoRowType DEF Init, Lifecycle!Init, Lifecycle!Facts

LEMMA SameRows == UNCHANGED row => \A i \in Issues : Allowed(i)
BY DEF Allowed

\* A write of the tick's row moves that issue only.
LEMMA OneRow ==
  ASSUME IInv, NEW j \in Issues, NEW r, row' = [row EXCEPT ![j] = r], Allowed(j)
  PROVE  \A i \in Issues : Allowed(i)
<1> SUFFICES ASSUME NEW i \in Issues, i # j PROVE Allowed(i)
  OBVIOUS
<1>1. row'[i] = row[i]
  BY DEF IInv, TypeOK
<1> QED
  BY <1>1 DEF Allowed

LEMMA ReconcileAllowed ==
  ASSUME IInv, NEW reached, NEW found, NEW cleared, ReconcileIssues(reached, found, cleared),
         NEW i \in Issues
  PROVE  Allowed(i)
<1> DEFINE r == row[i]
<1>1. r \in Row /\ r.stage \in Stages \cup {Absent}
  BY RowsAreGood DEF GoodRow, Row
<1>2. \A s \in Stages : \A o \in BOOLEAN : Upsert(r, s, o).stage = s
  BY <1>1, UpsertType
<1>3. CASE row'[i] = r
  BY <1>3 DEF Allowed
<1>4. ASSUME NEW answered \in BOOLEAN, row'[i] = Listed(i, answered) PROVE Allowed(i)
  <2>1. CASE r.stage \in TerminalStages
    <3>1. CASE Retriaged(i)
      <4>1. r.stage = "escalated" /\ row'[i].stage = "queued"
        BY <1>2, <1>4, <2>1, <3>1 DEF Listed, Retriaged, Stages
      <4> QED
        BY <4>1, MoveKinds DEF Allowed
    <3>2. CASE ~Retriaged(i)
      BY <1>3, <1>4, <2>1, <3>2 DEF Listed
    <3> QED
      BY <3>1, <3>2
  <2>2. CASE r.stage \notin TerminalStages
    <3> DEFINE s == row'[i].stage
    <3>1. CASE "done" \in labels[i]
      <4>1. s = "merged" /\ FactHolds(i, "done")
        BY <1>2, <1>4, <2>2, <3>1 DEF Listed, FactHolds, Stages
      <4> QED
        BY <1>1, <2>2, <4>1, MergedKinds DEF Allowed
    <3>2. CASE "done" \notin labels[i] /\ "needs-human" \in labels[i]
      <4>1. s = "escalated"
        BY <1>2, <1>4, <2>2, <3>2 DEF Listed, Stages
      <4> QED
        BY <1>1, <2>2, <4>1, MoveKinds DEF Allowed
    <3>3. CASE labels[i] \cap {"done", "needs-human"} = {} /\ r.stage # Absent
      BY <1>1, <1>2, <1>4, <2>2, <3>3 DEF Listed, Allowed
    <3>4. CASE labels[i] \cap {"done", "needs-human"} = {} /\ r.stage = Absent
      <4>1. \/ row'[i] = Upsert(r, "queued", TRUE) \/ row'[i] = r
            \/ row'[i] = Upsert(r, "merged", TRUE) /\ Resolved(i)
        BY <1>4, <2>2, <3>4 DEF Listed, FirstSight
      <4>2. s = "queued" \/ row'[i] = r \/ (s = "merged" /\ FactHolds(i, "resolved"))
        BY <1>2, <4>1 DEF FactHolds, Stages
      <4> QED
        BY <1>3, <3>4, <4>2, MoveKinds, MergedKinds DEF Allowed
    <3> QED
      BY <3>1, <3>2, <3>3, <3>4
  <2> QED
    BY <2>1, <2>2
<1>5. ASSUME NEW answered \in BOOLEAN, row'[i] = Unlisted(i, answered), ~issueOpen[i]
      PROVE  Allowed(i)
  <2>1. CASE row'[i] = r
    BY <1>3, <2>1
  <2>2. CASE row'[i] # r
    <3>1. r.stage = "escalated" /\ row'[i] = [SetStage(r, "merged") EXCEPT !.open = FALSE]
      BY <1>5, <2>2 DEF Unlisted
    <3>2. row'[i].stage = "merged" /\ FactHolds(i, "closed")
      BY <1>1, <1>5, <3>1 DEF SetStage, Row, FactHolds
    <3> QED
      BY <3>1, <3>2, MergedKinds DEF Allowed
  <2> QED
    BY <2>1, <2>2
<1>6. \/ row'[i] = r
      \/ row'[i] = Listed(i, i \in found)
      \/ row'[i] = Unlisted(i, i \in found) /\ ~issueOpen[i]
  BY DEF ReconcileIssues
<1>7. (i \in found) \in BOOLEAN
  OBVIOUS
<1> QED
  BY <1>3, <1>4, <1>5, <1>6, <1>7

\* A stage that is done hands over to the next one, or parks its issue.
LEMMA CommitAllowed ==
  ASSUME IInv, job.phase # "idle", NEW to \in Stages, Commit(to),
         to = "escalated" \/ (to \in Successors[job.stage] /\ to # "merged")
  PROVE  \A i \in Issues : Allowed(i)
<1>0. PICK j \in Issues : j = TheIssue
  BY TheJob
<1>1. row[j] \in Row /\ job.stage \in Stages \ TerminalStages
  BY <1>0, TheJob DEF GoodRow
<1>2. row[j].stage = job.stage /\ row'[j].stage = to
  BY <1>0, <1>1, SetStageType DEF Commit, CanTransition, IInv, TypeOK
<1>3. job.stage = "awaiting_merge" => to = "escalated"
  BY DEF Successors, Stages
<1>4. Allowed(j)
  BY <1>1, <1>2, <1>3, MoveKinds DEF Allowed
<1> QED
  BY <1>0, <1>4, OneRow DEF Commit

LEMMA CommitUpsertAllowed ==
  ASSUME IInv, job.phase # "idle", NEW r \in Row,
         NEW to \in {"triaged", "spec_opened", "spec_ready", "implemented", "awaiting_merge"},
         CommitUpsert(r, to),
         to \in Successors[job.stage] \/ to = job.stage
  PROVE  \A i \in Issues : Allowed(i)
<1>0. PICK j \in Issues : j = TheIssue
  BY TheJob
<1>1. /\ job.stage \in Stages \ TerminalStages
      /\ row[j].stage \in {job.stage, Absent}
  BY <1>0, TheJob
<1>2. row'[j].stage = to
  <2>1. to \in Stages /\ row' = [row EXCEPT ![j] = Upsert(r, to, TRUE)]
    BY <1>0 DEF CommitUpsert, Stages
  <2>2. row'[j] = Upsert(r, to, TRUE)
    BY <2>1 DEF IInv, TypeOK
  <2> QED
    BY <2>1, <2>2, UpsertType
<1>3. job.stage = "awaiting_merge" => to = job.stage
  BY DEF Successors, Stages
<1>4. Allowed(j)
  BY <1>1, <1>2, <1>3, MoveKinds DEF Allowed
<1> QED
  BY <1>0, <1>4, OneRow DEF CommitUpsert

LEMMA BumpAllowed ==
  ASSUME IInv, job.phase # "idle", row[TheIssue].stage # Absent,
         row' = [row EXCEPT ![TheIssue] = BumpAttempt(@)]
  PROVE  \A i \in Issues : Allowed(i)
<1>0. PICK j \in Issues : j = TheIssue
  BY TheJob
<1>1. GoodRow(row[j]) /\ row[j].stage \in Stages \ TerminalStages
  BY <1>0, TheJob
<1>2. row'[j].stage \in {row[j].stage, "failed"}
  BY <1>0, <1>1, BumpAttemptType DEF GoodRow, TerminalStages, IInv, TypeOK
<1>3. Allowed(j)
  BY <1>1, <1>2, MoveKinds DEF Allowed
<1> QED
  BY <1>0, <1>3, OneRow

LEMMA AdvanceAllowed ==
  ASSUME IInv, PrInv, Advance
  PROVE  \A i \in Issues : Allowed(i)
<1>1. CASE UNCHANGED row
  BY <1>1, SameRows
<1>2. CASE CommitPark
  BY <1>2, CommitAllowed DEF CommitPark, Stages
<1>3. CASE AuthorSpec \/ ResumeSpecOpened \/ Review \/ CommitAwaiting
  <2>1. job.phase # "idle" /\ \E to \in {"specced", "spec_ready", "reviewed", "awaiting_merge"} :
           Commit(to) /\ to \in Successors[job.stage]
    BY <1>3 DEF AuthorSpec, ResumeSpecOpened, Review, CommitAwaiting, At, Successors, Stages
  <2> QED
    BY <2>1, CommitAllowed DEF Stages
<1>4. CASE TriageBuild \/ TagSpec \/ SkipSpecPr \/ CommitImplemented \/ AwaitOpen
  <2>1. /\ job.phase # "idle" /\ row[TheIssue] \in Row
        /\ job.impl \in 0..MaxPrs /\ job.specPr \in BOOLEAN
        /\ scratch[TheIssue].impl \in 0..MaxPrs
    BY <1>4, TheJob DEF TriageBuild, TagSpec, SkipSpecPr, CommitImplemented, AwaitOpen, Awaits,
                        At, GoodRow, IInv, TypeOK, Job, Memory
  <2>2. CASE TriageBuild
    <3>1. CommitUpsert(row[TheIssue], "triaged") /\ "triaged" \in Successors[job.stage]
      BY <2>2 DEF TriageBuild, At, Successors, Stages
    <3> QED
      BY <2>1, <3>1, CommitUpsertAllowed
  <2>3. CASE TagSpec \/ SkipSpecPr
    <3> DEFINE r == [row[TheIssue] EXCEPT !.specPr = TRUE]
    <3>1. r \in Row
      BY <2>1 DEF Row
    <3>2. CommitUpsert(r, AfterSpecPr) /\ AfterSpecPr \in Successors[job.stage]
          /\ AfterSpecPr \in {"spec_opened", "spec_ready"}
      BY <2>3 DEF TagSpec, SkipSpecPr, At, AfterSpecPr, Successors, Stages
    <3> HIDE DEF r
    <3> QED
      BY <2>1, <3>1, <3>2, CommitUpsertAllowed
  <2>4. CASE CommitImplemented
    <3> DEFINE r == [row[TheIssue] EXCEPT !.implPr = scratch[TheIssue].impl]
    <3>1. r \in Row
      BY <2>1 DEF Row
    <3>2. CommitUpsert(r, "implemented") /\ "implemented" \in Successors[job.stage]
      BY <2>4 DEF CommitImplemented, At, Successors, Stages
    <3> HIDE DEF r
    <3> QED
      BY <2>1, <3>1, <3>2, CommitUpsertAllowed
  <2>5. CASE AwaitOpen
    <3> DEFINE r == [row[TheIssue] EXCEPT !.specPr = @ \/ job.specPr, !.implPr = job.impl]
    <3>1. r \in Row
      BY <2>1 DEF Row
    <3>2. CommitUpsert(r, "awaiting_merge") /\ job.stage = "awaiting_merge"
      BY <2>5 DEF AwaitOpen, Awaits, At
    <3> HIDE DEF r
    <3> QED
      BY <2>1, <3>1, <3>2, CommitUpsertAllowed
  <2> QED
    BY <1>4, <2>2, <2>3, <2>4, <2>5
<1>5. CASE AwaitMerged
  <2>1. /\ job.phase # "idle" /\ job.impl # 0 /\ implPrs[TheIssue][job.impl] = "merged"
        /\ Commit("merged")
    BY <1>5 DEF AwaitMerged, Awaits, At
  <2>0. PICK j \in Issues : j = TheIssue
    BY <2>1, TheJob
  <2>2. row[j] \in Row /\ row[j].stage = "awaiting_merge"
    BY <1>5, <2>0, <2>1, TheJob DEF AwaitMerged, Awaits, At, Commit, CanTransition, GoodRow
  <2>3. row'[j].stage = "merged"
    BY <2>0, <2>1, <2>2, SetStageType DEF Commit, IInv, TypeOK, Stages
  <2>4. FactHolds(j, "delivered")
    BY <2>0, <2>1, <2>2 DEF PrInv, FactHolds, TheIssue, Absent
  <2>5. Allowed(j)
    BY <2>2, <2>3, <2>4, MergedKinds DEF Allowed
  <2> QED
    BY <2>0, <2>1, <2>5, OneRow DEF Commit
<1>6. CASE SpecFileMissing \/ Fail
  BY <1>6, BumpAllowed DEF SpecFileMissing, Fail, At
<1> QED
  BY <1>1, <1>2, <1>3, <1>4, <1>5, <1>6
  DEF Advance, TriagePark, AcceptGateAllow, AcceptGateDeny, ShadowHold, CommitSpec, PushSpec,
      OpenSpecPr, UntagSpec, ReuseDiff, PrepareImpl, PushImpl, CreateImplPr, EnsureImplPr,
      GateMerge, GateEscalate, AwaitWithoutPr, AwaitClosed, Crash, ProcessRestarts, Park

LEMMA OutsideAllowed ==
  ASSUME IInv, Outside
  PROVE  \A i \in Issues : Allowed(i)
<1>1. CASE RequeueFailedMain
  <2>1. PICK i \in Issues, target \in RequeueTargets :
          row[i].stage = "failed" /\ row' = [row EXCEPT ![i] = RequeueFailed(@, target)]
    BY <1>1 DEF RequeueFailedMain
  <2>2. row'[i].stage = target
    BY <2>1, RequeueFailedType, PollerAssumption DEF IInv, TypeOK
  <2>3. Allowed(i) /\ \A j \in Issues \ {i} : Allowed(j)
    BY <2>1, <2>2, MoveKinds DEF Allowed, IInv, TypeOK
  <2> QED
    BY <2>3
<1>2. CASE ResetQueueMain
  <2> SUFFICES ASSUME NEW i \in Issues PROVE Allowed(i)
    OBVIOUS
  <2>1. row'[i].stage = Absent /\ row[i].stage \in Stages \cup {Absent}
    BY <1>2, NoRowType, RowsAreGood DEF ResetQueueMain, GoodRow, Row
  <2> QED
    BY <2>1, MoveKinds DEF Allowed
<1>3. CASE UNCHANGED row
  BY <1>3, SameRows
<1> QED
  BY <1>1, <1>2, <1>3
  DEF Outside, Restart, ProcessRestarts, Relabel, CloseOrReopenIssue, HumanEndsPr, AutoMerge,
      LeavesOpen, CloseDelivered, MergeSpecPr

\* Every step of the poller, of the operator's commands and of the people on the
\* forge is a step of the lifecycle or none, for any issues, modes and targets:
\* stages go forward one at a time, into merged by the fact each way needs, and
\* back by the named ways only (transition, upsert_issue, bump_attempt,
\* requeue_failed, reset_queue).
THEOREM PollerImplementsLifecycle == Spec => ImplementsLifecycle
<1>1. IInv /\ PrInv /\ [Next]_vars => [Lifecycle!Next]_Lifecycle!vars
  <2> SUFFICES ASSUME IInv, PrInv, [Next]_vars PROVE [Lifecycle!Next]_Lifecycle!vars
    OBVIOUS
  <2>1. CASE Advance
    BY <2>1, AdvanceAllowed, LifecycleNext
  <2>2. CASE Tick \/ TickAborted
    BY <2>2, ReconcileAllowed, LifecycleNext DEF Tick, TickAborted
  <2>3. CASE Outside
    BY <2>3, OutsideAllowed, LifecycleNext
  <2>4. CASE UNCHANGED vars
    BY <2>4, SameRows, LifecycleNext DEF vars
  <2> QED
    BY <2>1, <2>2, <2>3, <2>4 DEF Next, Poller
<1> QED
  BY <1>1, LifecycleInit, PollerIInv, PollerPrInv, PTL
  DEF Spec, ImplementsLifecycle, Lifecycle!Spec
=============================================================================
