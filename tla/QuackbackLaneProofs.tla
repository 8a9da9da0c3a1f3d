------------------------ MODULE QuackbackLaneProofs ------------------------
(***************************************************************************)
(* What the Quackback lane guarantees for any number of posts, founders'   *)
(* acts, failures and restarts: the three state invariants and the two     *)
(* action properties that MCQuackbackLane checks on small instances.       *)
(***************************************************************************)
EXTENDS QuackbackLane, TLAPS

Mirroring == {"reading", "writing", "mirrored"}

\* The stage a row is at while a milestone is being mirrored.
MilestoneStage(m) ==
  CASE m = "triaged"    -> "triaged"
    [] m = "spec_ready" -> "spec_ready"
    [] OTHER            -> "awaiting_merge"

\* A row exists only under a number, and what has none was never queued.
NumberedInv ==
  /\ \A p \in Posts : stage[p] # Absent => number[p] # 0
  /\ \A p \in Posts : number[p] = 0 => p \in asked

\* In-memory ids are unique, and there are none without the control loop.
HandleInv ==
  /\ \A p \in Posts : handle[p] <= lastHandle
  /\ \A p, q \in Posts : handle[p] = handle[q] /\ handle[p] # 0 => p = q
  /\ ~loopOn => \A p \in Posts : handle[p] = 0

\* The row a tick works on is at the stage the tick believes it is at, and the
\* merge milestone is only ever under way for a merged PR.
JobInv ==
  /\ job.phase \notin {"idle", "mapping"} => number[job.post] # 0
  /\ job.phase = "started" =>
       /\ stage[job.post] = job.stage
       /\ job.stage \in ActionableStages \cup {"spec_opened"}
  /\ job.phase \in Mirroring =>
       /\ job.milestone # "none"
       /\ stage[job.post] = MilestoneStage(job.milestone)
  /\ job.phase = "mirrored" => job.milestone \in {"spec_ready", "merged"}

MergeInv ==
  /\ job.phase \in Mirroring /\ job.milestone = "merged" => pr[job.post] = "merged"
  /\ job.phase = "mirrored" /\ job.milestone = "merged"
       /\ status[job.post] \in {"Building", "ReadyForReview"} => job.post \in amiss

\* A post that is about to be written was in the lane when it was last read.
ReadInv ==
  job.phase = "writing" =>
    \A q \in Posts : Resolves(job.post, q) /\ q \notin touched => InLane(q)

\* Whatever can be ingested has been asked for.
QueueInv ==
  /\ \A p \in Posts : Ingested(p) /\ p \in fresh => p \in asked
  /\ job.phase = "mapping" => \A p \in job.todo : p \in job.new => p \in asked
  /\ job.phase = "queueing" =>
       /\ \A p \in job.todo : p \in job.new => p \in asked
       /\ job.post \in asked /\ job.post \notin job.todo
       /\ job.post \in fresh => job.post \in touched

LaneInv ==
  /\ TypeOK
  /\ NumberedInv
  /\ HandleInv
  /\ JobInv
  /\ MergeInv
  /\ ReadInv
  /\ QueueInv
  /\ ShippedOnlyIfMerged
  /\ MergedIsShipped

LEMMA Bounds == MaxActs \in Nat /\ MaxFailures \in Nat
BY Zenon, QuackbackAssumption

-----------------------------------------------------------------------------
(* Types                                                                   *)

LEMMA IdleIsJob == Idle \in Job /\ Idle.phase = "idle"
  BY DEF Idle, Job, Phases, Absent

LEMMA StagesAre ==
  /\ ActionableStages \subseteq Stages
  /\ {"queued", "triaged", "specced", "spec_ready", "spec_opened", "implemented", "reviewed",
      "awaiting_merge", "merged", "escalated", "failed"} \subseteq Stages
  /\ Absent \notin ActionableStages \cup {"spec_opened"}
  BY DEF ActionableStages, Stages, Absent

LEMMA InitInv == Init => LaneInv
<1> SUFFICES ASSUME Init PROVE LaneInv
  OBVIOUS
<1> USE DEF Init
<1>2. job.phase = "idle" /\ job \in Job
  BY IdleIsJob
<1>1. TypeOK
  <2>1. status \in [Posts -> Statuses]
    BY DEF Statuses, ActiveLane
  <2>2. acts \in 0..MaxActs /\ failures \in 0..MaxFailures
    BY Bounds
  <2> QED BY <1>2, <2>1, <2>2 DEF TypeOK
<1>3. NumberedInv /\ QueueInv
  BY <1>2 DEF NumberedInv, QueueInv
<1>6. HandleInv
  BY DEF HandleInv
<1>4. JobInv /\ MergeInv /\ ReadInv
  BY <1>2 DEF JobInv, MergeInv, ReadInv, Mirroring
<1>5. ShippedOnlyIfMerged /\ MergedIsShipped
  BY DEF ShippedOnlyIfMerged, MergedIsShipped, NotPosted, Out, Absent
<1> QED BY <1>1, <1>3, <1>4, <1>5, <1>6 DEF LaneInv

LEMMA TypeStep == LaneInv /\ [Next]_vars => TypeOK'
<1> SUFFICES ASSUME LaneInv, [Next]_vars PROVE TypeOK'
  OBVIOUS
<1> TypeOK
  BY DEF LaneInv
<1> USE DEF TypeOK
<1>1. CASE Ingest
  <2>1. CASE ListAccepted
    BY <2>1 DEF ListAccepted, Idle, Job, Phases, board, store, memory, process, history, budgets
  <2>2. CASE MapPost
    <3>1. PICK p \in job.todo : MapPost!2!(p)
      BY <2>2 DEF MapPost
    <3>2. p \in Posts /\ job.todo \subseteq Posts
      BY DEF Job
    <3>3. CASE MarkerIsNew(p)
      <4>1. lastNumber' \in Nat /\ number' \in [Posts -> Nat]
        BY <3>1, <3>3
      <4>2. fresh' \in SUBSET Posts
        BY <3>1, <3>2, <3>3
      <4>3. job' \in Job /\ job'.post \in Posts
        <5>1. job' = [phase |-> "queueing", todo |-> job.todo \ {p}, new |-> job.new, post |-> p,
                      stage |-> job.stage, milestone |-> job.milestone]
          BY <3>1, <3>3 DEF Job
        <5>2. job.todo \ {p} \in SUBSET Posts
          BY <3>2
        <5> QED BY <3>2, <5>1, <5>2 DEF Job, Phases
      <4> QED BY <2>2, <4>1, <4>2, <4>3 DEF MapPost, memory, process, history, budgets
    <3>4. CASE ~MarkerIsNew(p)
      <4>1. job' \in Job /\ job'.phase = "mapping"
        BY <2>2, <3>1, <3>2, <3>4 DEF MapPost, Job
      <4> QED BY <2>2, <3>1, <3>4, <4>1 DEF MapPost, memory, process, history, budgets
    <3> QED BY <3>3, <3>4
  <2>3. CASE QueuePost
    BY <2>3, StagesAre DEF QueuePost, Job, Phases, board, store, memory, process, history, budgets
  <2>4. CASE Claim
    <3>1. job' \in Job /\ (job'.phase \notin {"idle", "mapping"} => job'.post \in Posts)
      <4>1. CASE job' = Idle
        BY <4>1, IdleIsJob
      <4>2. CASE \E p \in Posts : job' = [Idle EXCEPT !.phase = "started", !.post = p, !.stage = stage[p]]
        <5>1. PICK p \in Posts : job' = [Idle EXCEPT !.phase = "started", !.post = p, !.stage = stage[p]]
          BY <4>2
        <5>2. job' = [phase |-> "started", todo |-> {}, new |-> {}, post |-> p,
                      stage |-> stage[p], milestone |-> "none"]
          BY <5>1 DEF Idle
        <5> QED BY <5>2 DEF Job, Phases
      <4> QED BY <2>4, <4>1, <4>2 DEF Claim
    <3> QED BY <2>4, <3>1 DEF Claim, board, store, memory, process, history, budgets
  <2> QED BY <1>1, <2>1, <2>2, <2>3, <2>4 DEF Ingest
<1>2. CASE Stage
  <2> USE StagesAre DEF Moved, ThePost, At, Job, Phases, board, store, memory, process, history, budgets
  <2>1. CASE Triage
    BY <2>1, IdleIsJob DEF Triage, Mirror
  <2>2. CASE TriagePark
    BY <2>2, IdleIsJob DEF TriagePark, Park
  <2>3. CASE Author
    BY <2>3, IdleIsJob DEF Author
  <2>4. CASE Deny
    BY <2>4, IdleIsJob DEF Deny, Park
  <2>5. CASE DenyUnread
    BY <2>5, IdleIsJob DEF DenyUnread, Park
  <2>6. CASE ShadowHold
    BY <2>6, IdleIsJob DEF ShadowHold, Held
  <2>7. CASE SpecPr
    BY <2>7, IdleIsJob DEF SpecPr
  <2>8. CASE ResumeSpecOpened
    BY <2>8, IdleIsJob DEF ResumeSpecOpened
  <2>9. CASE StartImplement
    BY <2>9, IdleIsJob DEF StartImplement, Mirror
  <2>10. CASE Implement
    BY <2>10, IdleIsJob DEF Implement
  <2>11. CASE Review
    BY <2>11, IdleIsJob DEF Review
  <2>12. CASE GateMerge
    BY <2>12, IdleIsJob DEF GateMerge, Mirror
  <2>13. CASE GateEscalate
    BY <2>13, IdleIsJob DEF GateEscalate, Park
  <2>14. CASE AwaitMerged
    BY <2>14, IdleIsJob DEF AwaitMerged, Mirror
  <2>15. CASE AwaitClosed
    BY <2>15, IdleIsJob DEF AwaitClosed, Park
  <2>16. CASE AwaitOpen
    BY <2>16, IdleIsJob DEF AwaitOpen
  <2>17. CASE MirrorRead
    BY <2>17, IdleIsJob DEF MirrorRead
  <2>18. CASE Drift
    BY <2>18, IdleIsJob DEF Drift
  <2>19. CASE MirrorWrite
    BY <2>19, IdleIsJob DEF MirrorWrite, SetStatus, StatusFor, BoxSettable, Statuses, ActiveLane, Touch, Continue
  <2>20. CASE CompleteMerged
    BY <2>20, IdleIsJob DEF CompleteMerged
  <2> QED BY <1>2, <2>1, <2>2, <2>3, <2>4, <2>5, <2>6, <2>7, <2>8, <2>9, <2>10, <2>11, <2>12, <2>13, <2>14, <2>15, <2>16, <2>17, <2>18, <2>19, <2>20 DEF Stage
<1>3. CASE Failure
  <2> USE StagesAre, IdleIsJob, Bounds DEF Moved, ThePost, Fault, board, store, memory, process, history, budgets
  <2>1. CASE MirrorFails
    BY <2>1 DEF MirrorFails, Continue, Job, Phases
  <2>2. CASE StageFails
    BY <2>2 DEF StageFails
  <2>3. CASE QueueFails
    BY <2>3 DEF QueueFails
  <2>4. CASE Restart
    BY <2>4 DEF Restart
  <2> QED BY <1>3, <2>1, <2>2, <2>3, <2>4 DEF Failure
<1>4. CASE ListOpenIssues
  <2>1. handle' \in [Posts -> Nat] /\ lastHandle' \in Nat
    BY <1>4 DEF ListOpenIssues, NumberFor
  <2> QED BY <1>4, <2>1 DEF ListOpenIssues, board, store, process, history, budgets
<1>5. CASE Suggest
  <2>1. handle' \in [Posts -> Nat] /\ lastHandle' \in Nat
    BY <1>5 DEF Suggest, NumberFor
  <2>2. status' \in [Posts -> Statuses]
    BY <1>5 DEF Suggest, Statuses
  <2> QED BY <1>5, <2>1, <2>2 DEF Suggest, store, process, history, budgets
<1>6. CASE FounderActs
  <2>1. PICK p \in Posts : FounderActs!2!(p)
    BY <1>6 DEF FounderActs
  <2>2. status' \in [Posts -> Statuses]
    BY <2>1 DEF Statuses, ActiveLane
  <2>3. fresh' \in SUBSET Posts /\ touched' \in SUBSET Posts /\ asked' \in SUBSET Posts
    BY <2>1 DEF Touch
  <2>4. acts' \in 0..MaxActs
    BY <1>6, Bounds DEF FounderActs
  <2> QED BY <1>6, <2>2, <2>3, <2>4 DEF FounderActs, store, memory, process
<1>7. CASE PrEnds
  BY <1>7 DEF PrEnds, board, store, memory, process, history, budgets
<1>8. CASE UNCHANGED vars
  BY <1>8 DEF vars, board, store, memory, process, history, budgets
<1> QED BY <1>1, <1>2, <1>3, <1>4, <1>5, <1>6, <1>7, <1>8 DEF Next, Box

-----------------------------------------------------------------------------
(* What the steps leave alone                                              *)

LEMMA StageFrame ==
  Stage => UNCHANGED <<number, lastNumber, handle, lastHandle, mode, loopOn, asked, acts, failures>>
BY DEF Stage, Triage, TriagePark, Author, Deny, DenyUnread, ShadowHold, SpecPr, ResumeSpecOpened,
  StartImplement, Implement, Review, GateMerge, GateEscalate, AwaitMerged, AwaitClosed, AwaitOpen,
  MirrorRead, Drift, MirrorWrite, CompleteMerged, Park, store, memory, process, history, budgets

\* Only the push of an implementation changes a PR, only the mirror the board.
LEMMA StageBoard ==
  /\ Stage => Implement \/ pr' = pr
  /\ Stage => MirrorWrite \/ UNCHANGED <<status, fresh, amiss>>
BY DEF Stage, Triage, TriagePark, Author, Deny, DenyUnread, ShadowHold, SpecPr, ResumeSpecOpened,
  StartImplement, Implement, Review, GateMerge, GateEscalate, AwaitMerged, AwaitClosed, AwaitOpen,
  MirrorRead, Drift, MirrorWrite, CompleteMerged, Park, board, store, memory, process, history, budgets

\* A stage of the pipeline moves the row it has claimed, and never into the queue.
LEMMA StageMoves ==
  Stage =>
    /\ job.phase \notin {"idle", "mapping"}
    /\ \/ stage' = stage
       \/ \E s \in Stages \ {"queued"} : stage' = [stage EXCEPT ![job.post] = s]
<1> SUFFICES ASSUME Stage
             PROVE  /\ job.phase \notin {"idle", "mapping"}
                    /\ \/ stage' = stage
                       \/ \E s \in Stages \ {"queued"} : stage' = [stage EXCEPT ![job.post] = s]
  OBVIOUS
<1>1. job.phase \notin {"idle", "mapping"}
  BY DEF Stage, Triage, TriagePark, Author, Deny, DenyUnread, ShadowHold, SpecPr, ResumeSpecOpened,
    StartImplement, Implement, Review, GateMerge, GateEscalate, AwaitMerged, AwaitClosed, AwaitOpen,
    MirrorRead, Drift, MirrorWrite, CompleteMerged, At
<1>2. \/ stage' = stage
      \/ \E s \in {"triaged", "escalated", "specced", "spec_opened", "spec_ready", "implemented",
                   "reviewed", "awaiting_merge", "merged"} : Moved(s)
  BY DEF Stage, Triage, TriagePark, Author, Deny, DenyUnread, ShadowHold, SpecPr, ResumeSpecOpened,
    StartImplement, Implement, Review, GateMerge, GateEscalate, AwaitMerged, AwaitClosed, AwaitOpen,
    MirrorRead, Drift, MirrorWrite, CompleteMerged, Park, store
<1> QED BY <1>1, <1>2, StagesAre DEF Moved, ThePost

-----------------------------------------------------------------------------
(* Numbers and handles                                                     *)

LEMMA NumberedStep == LaneInv /\ [Next]_vars => NumberedInv'
<1> SUFFICES ASSUME LaneInv, [Next]_vars PROVE NumberedInv'
  OBVIOUS
<1> TypeOK /\ NumberedInv /\ JobInv
  BY DEF LaneInv
<1> USE DEF TypeOK, NumberedInv
<1>1. CASE Ingest
  <2>1. CASE ListAccepted \/ Claim
    BY <2>1 DEF ListAccepted, Claim, store, history
  <2>2. CASE MapPost
    <3>1. PICK p \in job.todo : MapPost!2!(p)
      BY <2>2 DEF MapPost
    <3>2. \A q \in Posts : number[q] # 0 => number'[q] = number[q]
      BY <3>1
    <3> QED BY <2>2, <3>2 DEF MapPost, history
  <2>3. CASE QueuePost
    BY <2>3 DEF QueuePost, JobInv
  <2> QED BY <1>1, <2>1, <2>2, <2>3 DEF Ingest
<1>2. CASE Stage
  BY <1>2, StageFrame, StageMoves DEF JobInv, Stages
<1>3. CASE Failure
  <2>1. CASE MirrorFails \/ QueueFails \/ Restart
    BY <2>1 DEF MirrorFails, QueueFails, Restart, store, history
  <2>2. CASE StageFails
    BY <2>2 DEF StageFails, Moved, ThePost, JobInv, history
  <2> QED BY <1>3, <2>1, <2>2 DEF Failure
<1>4. CASE ListOpenIssues \/ Suggest \/ FounderActs \/ PrEnds \/ UNCHANGED vars
  BY <1>4 DEF ListOpenIssues, Suggest, FounderActs, PrEnds, vars, store, history
<1> QED BY <1>1, <1>2, <1>3, <1>4 DEF Next, Box

\* A post without a handle gets one that no post has.
LEMMA NumberForKeepsUnique ==
  ASSUME TypeOK, HandleInv, loopOn, UNCHANGED loopOn,
         NEW p \in Posts, handle[p] = 0, NumberFor(p)
  PROVE  HandleInv'
<1>1. lastHandle' = lastHandle + 1 /\ handle' = [handle EXCEPT ![p] = lastHandle + 1]
  BY DEF NumberFor
<1> QED BY <1>1 DEF TypeOK, HandleInv

LEMMA HandleStep == LaneInv /\ [Next]_vars => HandleInv'
<1> SUFFICES ASSUME LaneInv, [Next]_vars PROVE HandleInv'
  OBVIOUS
<1> TypeOK /\ HandleInv
  BY DEF LaneInv
<1>1. CASE Ingest
  BY <1>1 DEF Ingest, ListAccepted, MapPost, QueuePost, Claim, memory, process, HandleInv
<1>2. CASE Stage
  BY <1>2, StageFrame DEF HandleInv
<1>3. CASE Failure
  <2>1. CASE MirrorFails \/ StageFails \/ QueueFails
    BY <2>1 DEF MirrorFails, StageFails, QueueFails, memory, process, HandleInv
  <2>2. CASE Restart
    BY <2>2 DEF Restart, HandleInv
  <2> QED BY <1>3, <2>1, <2>2 DEF Failure
<1>4. CASE ListOpenIssues \/ Suggest
  BY <1>4, NumberForKeepsUnique DEF ListOpenIssues, Suggest, process
<1>5. CASE FounderActs \/ PrEnds \/ UNCHANGED vars
  BY <1>5 DEF FounderActs, PrEnds, vars, memory, process, HandleInv
<1> QED BY <1>1, <1>2, <1>3, <1>4, <1>5 DEF Next, Box

\* A number that is not 0 names one post, its own when no in-memory id says else.
LEMMA ResolvesOne ==
  ASSUME HandleInv, NEW p \in Posts, number[p] # 0
  PROVE  /\ \A q, r \in Posts : Resolves(p, q) /\ Resolves(p, r) => q = r
         /\ ~loopOn => \A q \in Posts : Resolves(p, q) => q = p
BY DEF HandleInv, Resolves

-----------------------------------------------------------------------------
(* The tick                                                                *)

LEMMA ClaimPhase == Claim => job'.phase \in {"idle", "started"}
<1>1. ASSUME NEW p \in Posts,
             job' = [Idle EXCEPT !.phase = "started", !.post = p, !.stage = stage[p]]
      PROVE  job'.phase = "started"
  BY <1>1 DEF Idle
<1> QED BY <1>1, IdleIsJob DEF Claim

\* These leave nothing under way.
LEMMA StageEnds ==
  TriagePark \/ Author \/ Deny \/ DenyUnread \/ ShadowHold \/ SpecPr \/ ResumeSpecOpened
    \/ Implement \/ Review \/ GateEscalate \/ AwaitClosed \/ AwaitOpen \/ Drift \/ CompleteMerged
    => job' = Idle
BY DEF TriagePark, Author, Deny, DenyUnread, ShadowHold, SpecPr, ResumeSpecOpened, Implement,
  Review, GateEscalate, AwaitClosed, AwaitOpen, Drift, CompleteMerged, Park

LEMMA JobStep == LaneInv /\ [Next]_vars => JobInv'
<1> SUFFICES ASSUME LaneInv, [Next]_vars PROVE JobInv'
  OBVIOUS
<1> TypeOK /\ NumberedInv /\ JobInv
  BY DEF LaneInv
<1>a. job' = Idle => JobInv'
  BY IdleIsJob DEF JobInv, Mirroring
<1>b. UNCHANGED <<job, number, stage>> => JobInv'
  BY DEF JobInv
<1>1. CASE Ingest
  <2>1. CASE ListAccepted
    BY <2>1 DEF ListAccepted, Idle, JobInv, Mirroring
  <2>2. CASE MapPost
    <3>1. PICK p \in job.todo : MapPost!2!(p)
      BY <2>2 DEF MapPost
    <3>2. p \in Posts
      BY DEF TypeOK, Job
    <3>3. job \in Job /\ number \in [Posts -> Nat] /\ lastNumber \in Nat
      BY DEF TypeOK
    <3>4. CASE MarkerIsNew(p)
      <4>1. job'.phase = "queueing" /\ job'.post = p
        BY <3>1, <3>3, <3>4 DEF Job
      <4>2. number'[p] # 0
        BY <3>1, <3>2, <3>3, <3>4
      <4> QED BY <4>1, <4>2 DEF JobInv, Mirroring
    <3>5. CASE ~MarkerIsNew(p)
      BY <2>2, <3>1, <3>3, <3>5 DEF MapPost, Job, JobInv, Mirroring
    <3> QED BY <3>4, <3>5
  <2>3. CASE QueuePost
    <3>1. job'.phase = "mapping"
      BY <2>3 DEF QueuePost, TypeOK, Job
    <3> QED BY <3>1 DEF JobInv, Mirroring
  <2>4. CASE Claim
    <3>1. ASSUME NEW p \in Posts, Claimable(stage[p]),
                 job' = [Idle EXCEPT !.phase = "started", !.post = p, !.stage = stage[p]]
          PROVE  JobInv'
      <4>1. job'.phase = "started" /\ job'.post = p /\ job'.stage = stage[p]
        BY <3>1 DEF Idle
      <4>2. stage[p] \in ActionableStages \cup {"spec_opened"}
        BY <3>1 DEF Claimable
      <4> QED BY <2>4, <4>1, <4>2, StagesAre DEF Claim, store, JobInv, Mirroring, NumberedInv
    <3> QED BY <2>4, <3>1, <1>a DEF Claim
  <2> QED BY <1>1, <2>1, <2>2, <2>3, <2>4 DEF Ingest
<1>2. CASE Stage
  <2> USE DEF TypeOK, JobInv, Mirroring, MilestoneStage, Job, At, ThePost, Moved, Mirror
  <2>1. CASE Triage
    BY <2>1 DEF Triage
  <2>2. CASE StartImplement
    BY <2>2 DEF StartImplement, store
  <2>3. CASE GateMerge
    BY <2>3 DEF GateMerge
  <2>4. CASE AwaitMerged
    BY <2>4 DEF AwaitMerged, store
  <2>5. CASE MirrorRead
    BY <2>5 DEF MirrorRead, store
  <2>6. CASE MirrorWrite
    BY <2>6, <1>a DEF MirrorWrite, Continue, store
  <2> QED BY <1>2, <1>a, <2>1, <2>2, <2>3, <2>4, <2>5, <2>6, StageEnds DEF Stage
<1>3. CASE Failure
  <2>1. CASE MirrorFails
    BY <2>1, <1>a DEF MirrorFails, Continue, store, TypeOK, Job, JobInv, Mirroring
  <2> QED BY <1>3, <1>a, <2>1 DEF Failure, StageFails, QueueFails, Restart
<1>4. CASE ListOpenIssues \/ Suggest \/ FounderActs \/ PrEnds \/ UNCHANGED vars
  BY <1>4, <1>b DEF ListOpenIssues, Suggest, FounderActs, PrEnds, vars, store
<1> QED BY <1>1, <1>2, <1>3, <1>4 DEF Next, Box

\* A PR that is merged stays so.
LEMMA MergedStays ==
  TypeOK /\ [Next]_vars => \A p \in Posts : pr[p] = "merged" => pr'[p] = "merged"
<1> SUFFICES ASSUME TypeOK, [Next]_vars, NEW p \in Posts, pr[p] = "merged" PROVE pr'[p] = "merged"
  OBVIOUS
<1>1. CASE Implement
  BY <1>1 DEF Implement, TypeOK, Job
<1>2. CASE PrEnds
  BY <1>2 DEF PrEnds, TypeOK
<1>3. CASE Stage
  BY <1>1, <1>3, StageBoard
<1>4. CASE Ingest \/ Failure \/ ListOpenIssues \/ Suggest \/ FounderActs \/ UNCHANGED vars
  BY <1>4 DEF Ingest, ListAccepted, MapPost, QueuePost, Claim, Failure, MirrorFails, StageFails,
    QueueFails, Restart, ListOpenIssues, Suggest, FounderActs, vars
<1> QED BY <1>2, <1>3, <1>4 DEF Next, Box

LEMMA MergeStep == LaneInv /\ [Next]_vars => MergeInv'
<1> SUFFICES ASSUME LaneInv, [Next]_vars PROVE MergeInv'
  OBVIOUS
<1> TypeOK /\ NumberedInv /\ JobInv /\ MergeInv
  BY DEF LaneInv
<1>a. job'.phase \notin Mirroring => MergeInv'
  BY DEF MergeInv, Mirroring
<1>b. job' = Idle => job'.phase \notin Mirroring
  BY IdleIsJob DEF Mirroring
<1>c. ASSUME UNCHANGED <<job, amiss>>, job.phase \in Mirroring,
             status'[job.post] \in {"Building", "ReadyForReview"}
               => status[job.post] \in {"Building", "ReadyForReview"}
      PROVE  MergeInv'
  BY <1>c, MergedStays DEF MergeInv, TypeOK, Mirroring
<1>1. CASE Ingest
  <2>1. job'.phase \in {"idle", "mapping", "queueing", "started"}
    <3>1. CASE ListAccepted
      BY <3>1 DEF ListAccepted, Idle
    <3>2. CASE MapPost
      BY <3>2 DEF MapPost, TypeOK, Job
    <3>3. CASE QueuePost
      BY <3>3 DEF QueuePost, TypeOK, Job
    <3>4. CASE Claim
      BY <3>4, ClaimPhase
    <3> QED BY <1>1, <3>1, <3>2, <3>3, <3>4 DEF Ingest
  <2> QED BY <2>1, <1>a DEF Mirroring
<1>2. CASE Stage
  <2> USE DEF MergeInv, TypeOK, Job, ThePost, Mirroring
  <2>1. CASE Triage \/ StartImplement \/ GateMerge
    BY <2>1 DEF Triage, StartImplement, GateMerge, Mirror
  <2>2. CASE AwaitMerged
    BY <2>2 DEF AwaitMerged, Mirror, At
  <2>3. CASE MirrorRead
    BY <2>3 DEF MirrorRead
  <2>4. CASE MirrorWrite
    <3>1. PICK q \in Posts : MirrorWrite!2!(q)
      BY <2>4 DEF MirrorWrite
    <3>2. job.post \in Posts /\ pr' = pr
      BY <2>4 DEF MirrorWrite
    <3>3. CASE job.milestone = "merged"
      <4>1. pr'[job.post] = "merged" /\ job'.post = job.post /\ job'.phase = "mirrored"
        BY <2>4, <3>2, <3>3 DEF MirrorWrite, Continue
      <4>2. status'[job.post] = "Shipped" \/ job.post \in amiss'
        BY <3>1, <3>2, <3>3 DEF SetStatus, StatusFor
      <4> QED BY <4>1, <4>2
    <3>4. CASE job.milestone # "merged"
      <4>1. job' = Idle \/ job'.milestone # "merged"
        BY <2>4, <3>4 DEF MirrorWrite, Continue
      <4> QED BY <4>1, <1>a, <1>b
    <3> QED BY <3>3, <3>4
  <2> QED BY <1>2, <1>a, <1>b, <2>1, <2>2, <2>3, <2>4, StageEnds DEF Stage
<1>3. CASE Failure
  <2>1. CASE MirrorFails
    BY <2>1, <1>a, <1>b DEF MirrorFails, Continue, MergeInv, TypeOK, Job, ThePost, Mirroring
  <2> QED BY <1>3, <1>a, <1>b, <2>1 DEF Failure, StageFails, QueueFails, Restart
<1>4. CASE ListOpenIssues \/ Suggest
  BY <1>4, <1>a, <1>b DEF ListOpenIssues, Suggest
<1>5. CASE FounderActs
  BY <1>5, <1>a, <1>c DEF FounderActs, Out, TypeOK
<1>6. CASE PrEnds \/ UNCHANGED vars
  BY <1>6, <1>a, <1>c DEF PrEnds, vars, board, history
<1> QED BY <1>1, <1>2, <1>3, <1>4, <1>5, <1>6 DEF Next, Box

-----------------------------------------------------------------------------
(* The board                                                               *)

LEMMA ReadStep == LaneInv /\ [Next]_vars => ReadInv'
<1> SUFFICES ASSUME LaneInv, [Next]_vars PROVE ReadInv'
  OBVIOUS
<1> TypeOK /\ HandleInv /\ JobInv /\ ReadInv
  BY DEF LaneInv
<1>a. job'.phase # "writing" => ReadInv'
  BY DEF ReadInv
<1>b. Idle.phase # "writing"
  BY IdleIsJob
<1>1. CASE Ingest
  <2>1. CASE ListAccepted
    BY <2>1, <1>a DEF ListAccepted, Idle
  <2>2. CASE MapPost
    BY <2>2, <1>a DEF MapPost, TypeOK, Job
  <2>3. CASE QueuePost
    BY <2>3, <1>a DEF QueuePost, TypeOK, Job
  <2>4. CASE Claim
    BY <2>4, <1>a, ClaimPhase
  <2> QED BY <1>1, <2>1, <2>2, <2>3, <2>4 DEF Ingest
<1>2. CASE Stage
  <2>1. CASE Triage \/ StartImplement \/ GateMerge \/ AwaitMerged
    BY <2>1, <1>a DEF Triage, StartImplement, GateMerge, AwaitMerged, Mirror, TypeOK, Job
  <2>2. CASE MirrorRead
    <3>1. PICK q \in Posts : Resolves(job.post, q) /\ InLane(q)
      BY <2>2 DEF MirrorRead, ThePost
    <3>2. job.post \in Posts /\ number[job.post] # 0
      BY <2>2 DEF MirrorRead, TypeOK, JobInv
    <3>3. \A r \in Posts : Resolves(job.post, r) => InLane(r)
      BY <3>1, <3>2, ResolvesOne
    <3>4. UNCHANGED <<handle, number, status>> /\ job'.post = job.post
      BY <2>2 DEF MirrorRead, store, memory, TypeOK, Job
    <3> QED BY <3>3, <3>4 DEF ReadInv, Resolves, InLane
  <2>3. CASE MirrorWrite
    BY <2>3, <1>a, <1>b DEF MirrorWrite, Continue, TypeOK, Job
  <2> QED BY <1>2, <1>a, <1>b, <2>1, <2>2, <2>3, StageEnds DEF Stage
<1>3. CASE Failure
  <2>1. CASE MirrorFails
    BY <2>1, <1>a, <1>b DEF MirrorFails, Continue, TypeOK, Job
  <2> QED BY <1>3, <1>a, <1>b, <2>1 DEF Failure, StageFails, QueueFails, Restart
<1>4. CASE ListOpenIssues \/ Suggest
  BY <1>4, <1>a, <1>b DEF ListOpenIssues, Suggest
<1>5. CASE FounderActs
  <2>1. PICK p \in Posts : FounderActs!2!(p)
    BY <1>5 DEF FounderActs
  <2>2. \A q \in Posts : q \notin touched' => q \notin touched /\ status'[q] = status[q]
    BY <2>1 DEF Touch, TypeOK
  <2> QED BY <1>5, <2>2 DEF FounderActs, store, memory, ReadInv, Resolves, InLane
<1>6. CASE PrEnds \/ UNCHANGED vars
  BY <1>6 DEF PrEnds, vars, board, store, memory, ReadInv, Resolves, InLane
<1> QED BY <1>1, <1>2, <1>3, <1>4, <1>5, <1>6 DEF Next, Box

LEMMA QueueStep == LaneInv /\ [Next]_vars => QueueInv'
<1> SUFFICES ASSUME LaneInv, [Next]_vars PROVE QueueInv'
  OBVIOUS
<1> TypeOK /\ NumberedInv /\ QueueInv
  BY DEF LaneInv
<1>a. ASSUME job'.phase \notin {"mapping", "queueing"}, UNCHANGED asked,
             \A p \in Posts : Ingested(p)' /\ p \in fresh' => Ingested(p) /\ p \in fresh
      PROVE  QueueInv'
  BY <1>a DEF QueueInv
<1>1. CASE Ingest
  <2>1. CASE ListAccepted
    BY <2>1 DEF ListAccepted, Idle, QueueInv, Ingested, history
  <2>2. CASE MapPost
    <3>1. PICK p \in job.todo : MapPost!2!(p)
      BY <2>2 DEF MapPost
    <3>2. p \in Posts /\ job \in Job /\ job.phase = "mapping"
      BY <2>2 DEF MapPost, TypeOK, Job
    <3>3. UNCHANGED <<status, touched, asked>>
      BY <2>2 DEF MapPost, history
    <3>4. CASE MarkerIsNew(p)
      <4>1. p \in asked
        BY <3>2, <3>4 DEF MarkerIsNew, NumberedInv, QueueInv
      <4>2. /\ job'.phase = "queueing" /\ job'.post = p
            /\ job'.todo = job.todo \ {p} /\ job'.new = job.new
        BY <3>1, <3>2, <3>4 DEF Job
      <4>3. fresh' = (fresh \ {p}) \cup (touched \cap {p})
        BY <3>1, <3>4
      <4> QED BY <3>2, <3>3, <4>1, <4>2, <4>3 DEF QueueInv, Ingested
    <3>5. CASE ~MarkerIsNew(p)
      <4>1. job' = [job EXCEPT !.todo = @ \ {p}] /\ UNCHANGED fresh
        BY <3>1, <3>5
      <4>2. job'.phase = "mapping" /\ job'.todo = job.todo \ {p} /\ job'.new = job.new
        BY <3>2, <4>1 DEF Job
      <4> QED BY <3>2, <3>3, <4>1, <4>2 DEF QueueInv, Ingested
    <3> QED BY <3>4, <3>5
  <2>3. CASE QueuePost
    <3>1. job'.phase = "mapping" /\ UNCHANGED <<job.todo, job.new>>
      BY <2>3 DEF QueuePost, TypeOK, Job
    <3> QED BY <2>3, <3>1 DEF QueuePost, QueueInv, Ingested, board
  <2>4. CASE Claim
    <3>1. job'.phase \in {"idle", "started"}
      BY <2>4, ClaimPhase
    <3> QED BY <2>4, <3>1, <1>a DEF Claim, board, history, Ingested
  <2> QED BY <1>1, <2>1, <2>2, <2>3, <2>4 DEF Ingest
<1>2. CASE Stage
  <2>1. job'.phase \notin {"mapping", "queueing"}
    <3>1. CASE Triage \/ StartImplement \/ GateMerge \/ AwaitMerged
      BY <3>1 DEF Triage, StartImplement, GateMerge, AwaitMerged, Mirror, TypeOK, Job
    <3>2. CASE MirrorRead
      BY <3>2 DEF MirrorRead, TypeOK, Job
    <3>3. CASE MirrorWrite
      BY <3>3, IdleIsJob DEF MirrorWrite, Continue, TypeOK, Job
    <3> QED BY <1>2, <3>1, <3>2, <3>3, IdleIsJob, StageEnds DEF Stage
  <2>2. CASE MirrorWrite
    <3>1. PICK q \in Posts : MirrorWrite!2!(q)
      BY <2>2 DEF MirrorWrite
    <3>2. \A p \in Posts : Ingested(p)' /\ p \in fresh' => Ingested(p) /\ p \in fresh
      BY <3>1 DEF SetStatus, BoxSettable, Touch, Ingested, TypeOK
    <3> QED BY <1>2, <1>a, <2>1, <3>2, StageFrame
  <2> QED BY <1>2, <1>a, <2>1, <2>2, StageFrame, StageBoard DEF Ingested
<1>3. CASE Failure
  <2>1. CASE MirrorFails
    BY <2>1, <1>a, IdleIsJob DEF MirrorFails, Continue, TypeOK, Job, board, Ingested
  <2> QED BY <1>3, <1>a, <2>1, IdleIsJob DEF Failure, StageFails, QueueFails, Restart, board, history, Ingested
<1>4. CASE ListOpenIssues
  BY <1>4, <1>a, IdleIsJob DEF ListOpenIssues, board, history, Ingested
<1>5. CASE Suggest
  BY <1>5, <1>a, IdleIsJob DEF Suggest, history, Ingested, Out, TypeOK
<1>6. CASE FounderActs
  <2>1. PICK p \in Posts : FounderActs!2!(p)
    BY <1>6 DEF FounderActs
  <2>2. \A q \in Posts : q # p => (status'[q] = status[q] /\ (q \in fresh' => q \in fresh))
    BY <2>1 DEF Touch, TypeOK
  <2> QED BY <1>6, <2>1, <2>2 DEF FounderActs, Touch, QueueInv, Ingested
<1>7. CASE PrEnds \/ UNCHANGED vars
  BY <1>7 DEF PrEnds, vars, board, history, QueueInv, Ingested
<1> QED BY <1>1, <1>2, <1>3, <1>4, <1>5, <1>6, <1>7 DEF Next, Box

\* The mirror's write: Shipped to another post only with the control loop on,
\* and then both are on record as amiss.
LEMMA WriteReaches ==
  ASSUME LaneInv, MirrorWrite
  PROVE  \E q \in Posts :
           /\ status' = [status EXCEPT ![q] = StatusFor(job.milestone)]
           /\ InLane(q) \/ q \in touched
           /\ \/ q = job.post /\ amiss' = amiss \ {q}
              \/ loopOn /\ q # job.post /\ amiss' = amiss \cup {q, job.post}
<1>1. PICK q \in Posts : MirrorWrite!2!(q)
  BY DEF MirrorWrite
<1>2. job.post \in Posts /\ number[job.post] # 0 /\ job.phase = "writing"
  BY DEF MirrorWrite, LaneInv, TypeOK, JobInv
<1>3. InLane(q) \/ q \in touched
  BY <1>1, <1>2 DEF LaneInv, ReadInv, ThePost
<1>4. loopOn \/ q = job.post
  BY <1>1, <1>2, ResolvesOne DEF LaneInv, ThePost
<1> QED BY <1>1, <1>3, <1>4 DEF SetStatus, ThePost

\* Founders and suggestions never set a status of the box, and a restart or a
\* failed write forgets nothing.
LEMMA BoardElsewhere ==
  LaneInv /\ [Next]_vars /\ ~MirrorWrite =>
    /\ \A p \in Posts : status'[p] \in {"Building", "ReadyForReview", "Shipped"} => status'[p] = status[p]
    /\ amiss \subseteq amiss'
    /\ UNCHANGED loopOn
<1> SUFFICES ASSUME LaneInv, [Next]_vars, ~MirrorWrite
             PROVE  /\ \A p \in Posts : status'[p] \in {"Building", "ReadyForReview", "Shipped"} => status'[p] = status[p]
                    /\ amiss \subseteq amiss'
                    /\ UNCHANGED loopOn
  OBVIOUS
<1> TypeOK
  BY DEF LaneInv
<1>1. CASE Ingest
  BY <1>1 DEF Ingest, ListAccepted, MapPost, QueuePost, Claim, board, process, history
<1>2. CASE Stage
  BY <1>2, StageBoard, StageFrame
<1>3. CASE Failure
  BY <1>3 DEF Failure, MirrorFails, StageFails, QueueFails, Restart, board, process, history
<1>4. CASE Suggest
  BY <1>4 DEF Suggest, Out, process, history, TypeOK
<1>5. CASE FounderActs
  BY <1>5 DEF FounderActs, Out, process, TypeOK
<1>6. CASE ListOpenIssues \/ PrEnds \/ UNCHANGED vars
  BY <1>6 DEF ListOpenIssues, PrEnds, vars, board, process, history
<1> QED BY <1>1, <1>2, <1>3, <1>4, <1>5, <1>6 DEF Next, Box

LEMMA ShippedStep == LaneInv /\ [Next]_vars => ShippedOnlyIfMerged'
<1> SUFFICES ASSUME LaneInv, [Next]_vars PROVE ShippedOnlyIfMerged'
  OBVIOUS
<1> TypeOK /\ ShippedOnlyIfMerged
  BY DEF LaneInv
<1>1. CASE MirrorWrite
  <2>1. PICK q \in Posts :
          /\ status' = [status EXCEPT ![q] = StatusFor(job.milestone)]
          /\ \/ q = job.post /\ amiss' = amiss \ {q}
             \/ loopOn /\ amiss' = amiss \cup {q, job.post}
    BY <1>1, WriteReaches
  <2>2. UNCHANGED <<loopOn, pr>>
    BY <1>1 DEF MirrorWrite, process
  <2>3. ASSUME NEW p \in Posts, p # q, status'[p] = "Shipped"
        PROVE  pr'[p] = "merged" \/ (loopOn' /\ p \in amiss')
    BY <2>1, <2>2, <2>3 DEF ShippedOnlyIfMerged, TypeOK
  <2>4. ASSUME status'[q] = "Shipped"
        PROVE  pr'[q] = "merged" \/ (loopOn' /\ q \in amiss')
    <3>1. job.milestone = "merged"
      BY <2>1, <2>4 DEF TypeOK, StatusFor
    <3>2. pr[job.post] = "merged"
      BY <1>1, <3>1 DEF MirrorWrite, LaneInv, MergeInv, Mirroring
    <3> QED BY <2>1, <2>2, <3>2
  <2> QED BY <2>3, <2>4 DEF ShippedOnlyIfMerged
<1>2. CASE ~MirrorWrite
  BY <1>2, BoardElsewhere, MergedStays DEF ShippedOnlyIfMerged
<1> QED BY <1>1, <1>2

\* Only the end of an awaited merge makes a row merged.
LEMMA BecomesMerged ==
  LaneInv /\ [Next]_vars =>
    \A p \in Posts : stage'[p] = "merged" =>
      stage[p] = "merged" \/ (CompleteMerged /\ p = job.post)
<1> SUFFICES ASSUME LaneInv, [Next]_vars, NEW p \in Posts,
                    stage'[p] = "merged", stage[p] # "merged"
             PROVE  CompleteMerged /\ p = job.post
  OBVIOUS
<1> TypeOK
  BY DEF LaneInv
<1>1. CASE Ingest
  BY <1>1 DEF Ingest, ListAccepted, MapPost, QueuePost, Claim, store, TypeOK
<1>2. CASE Stage
  <2>1. CASE CompleteMerged
    BY <2>1 DEF CompleteMerged, Moved, ThePost, TypeOK
  <2>2. CASE ~CompleteMerged
    <3>1. \/ stage' = stage
          \/ \E s \in {"triaged", "escalated", "specced", "spec_opened", "spec_ready",
                       "implemented", "reviewed", "awaiting_merge"} : Moved(s)
      BY <1>2, <2>2 DEF Stage, Triage, TriagePark, Author, Deny, DenyUnread, ShadowHold, SpecPr,
        ResumeSpecOpened, StartImplement, Implement, Review, GateMerge, GateEscalate, AwaitMerged,
        AwaitClosed, AwaitOpen, MirrorRead, Drift, MirrorWrite, Park, store
    <3> QED BY <3>1 DEF Moved, TypeOK
  <2> QED BY <2>1, <2>2
<1>3. CASE Failure
  BY <1>3 DEF Failure, MirrorFails, StageFails, QueueFails, Restart, Moved, store, TypeOK
<1>4. CASE ListOpenIssues \/ Suggest \/ FounderActs \/ PrEnds \/ UNCHANGED vars
  BY <1>4 DEF ListOpenIssues, Suggest, FounderActs, PrEnds, vars, store
<1> QED BY <1>1, <1>2, <1>3, <1>4 DEF Next, Box

LEMMA MergedShippedStep == LaneInv /\ [Next]_vars => MergedIsShipped'
<1> SUFFICES ASSUME LaneInv, [Next]_vars, NEW p \in Posts,
                    stage'[p] = "merged", status'[p] \in {"Building", "ReadyForReview"}
             PROVE  p \in amiss'
  BY DEF MergedIsShipped
<1> TypeOK /\ MergedIsShipped
  BY DEF LaneInv
<1>1. CASE MirrorWrite
  <2>1. PICK q \in Posts :
          /\ status' = [status EXCEPT ![q] = StatusFor(job.milestone)]
          /\ \/ q = job.post /\ amiss' = amiss \ {q}
             \/ q # job.post /\ amiss' = amiss \cup {q, job.post}
    BY <1>1, WriteReaches
  <2>2. stage' = stage
    BY <1>1 DEF MirrorWrite, store
  <2>3. stage[job.post] # "merged"
    BY <1>1 DEF MirrorWrite, LaneInv, JobInv, MilestoneStage, Mirroring
  <2>4. p # job.post
    BY <2>2, <2>3
  <2>5. CASE p = q
    BY <2>1, <2>4, <2>5
  <2>6. CASE p # q
    BY <2>1, <2>2, <2>6 DEF MergedIsShipped, TypeOK
  <2> QED BY <2>5, <2>6
<1>2. CASE ~MirrorWrite
  <2>1. status[p] = status'[p] /\ (p \in amiss => p \in amiss')
    BY <1>2, BoardElsewhere
  <2>2. CASE stage[p] = "merged"
    BY <2>1, <2>2 DEF MergedIsShipped
  <2>3. CASE stage[p] # "merged"
    <3>1. CompleteMerged /\ p = job.post
      BY <2>3, BecomesMerged
    <3>2. job.post \in amiss
      BY <2>1, <3>1 DEF CompleteMerged, LaneInv, MergeInv, Mirroring
    <3> QED BY <2>1, <3>1, <3>2
  <2> QED BY <2>2, <2>3
<1> QED BY <1>1, <1>2

-----------------------------------------------------------------------------
(* Theorems                                                                *)

LEMMA LaneInvStep == LaneInv /\ [Next]_vars => LaneInv'
<1> SUFFICES ASSUME LaneInv, [Next]_vars PROVE LaneInv'
  OBVIOUS
<1>1. TypeOK' /\ NumberedInv' /\ HandleInv' /\ JobInv'
  BY TypeStep, NumberedStep, HandleStep, JobStep
<1>2. MergeInv' /\ ReadInv' /\ QueueInv'
  BY MergeStep, ReadStep, QueueStep
<1>3. ShippedOnlyIfMerged' /\ MergedIsShipped'
  BY ShippedStep, MergedShippedStep
<1> QED BY <1>1, <1>2, <1>3 DEF LaneInv

LEMMA LaneInvAlways == Spec => []LaneInv
BY InitInv, LaneInvStep, PTL DEF Spec

\* The types of the lane, the range of every counter included, hold however many
\* posts, founders' acts and failures there are.
THEOREM QuackbackTypeOK == Spec => []TypeOK
<1>1. LaneInv => TypeOK
  BY DEF LaneInv
<1> QED BY <1>1, LaneInvAlways, PTL

\* poller.py's await: a post is Shipped only when its own PR was merged, or when
\* an id the control loop handed out sent it another post's milestone.
THEOREM QuackbackShippedOnlyIfMerged == Spec => []ShippedOnlyIfMerged
<1>1. LaneInv => ShippedOnlyIfMerged
  BY DEF LaneInv
<1> QED BY <1>1, LaneInvAlways, PTL

\* A merged row and its post disagree only after a write the mirror lost or sent
\* to another post.
THEOREM QuackbackMergedIsShipped == Spec => []MergedIsShipped
<1>1. LaneInv => MergedIsShipped
  BY DEF LaneInv
<1> QED BY <1>1, LaneInvAlways, PTL

\* The drift guard: outside the window between the mirror's two requests nothing
\* the box does takes a post out of the founders' hands.
THEOREM QuackbackDecisionStands == Spec => DecisionStands
<1>1. LaneInv /\ [Next]_vars =>
        \A p \in Posts : status[p] = Out /\ status'[p] # Out /\ acts' = acts => p \in touched
  <2> SUFFICES ASSUME LaneInv, [Next]_vars, NEW p \in Posts,
                      status[p] = Out, status'[p] # Out, acts' = acts
               PROVE  p \in touched
    OBVIOUS
  <2> TypeOK
    BY DEF LaneInv
  <2>1. CASE Ingest
    BY <2>1 DEF Ingest, ListAccepted, MapPost, QueuePost, Claim, board
  <2>2. CASE Stage
    <3>1. CASE MirrorWrite
      <4>1. PICK q \in Posts : /\ status' = [status EXCEPT ![q] = StatusFor(job.milestone)]
                               /\ InLane(q) \/ q \in touched
        BY <3>1, WriteReaches
      <4>2. p = q
        BY <4>1 DEF TypeOK
      <4> QED BY <4>1, <4>2 DEF InLane, Out, ActiveLane
    <3> QED BY <2>2, <3>1, StageBoard
  <2>3. CASE Failure
    BY <2>3 DEF Failure, MirrorFails, StageFails, QueueFails, Restart, board
  <2>4. CASE Suggest
    BY <2>4 DEF Suggest, FindsDuplicate, TypeOK
  <2>5. CASE FounderActs
    BY <2>5 DEF FounderActs, TypeOK
  <2>6. CASE ListOpenIssues \/ PrEnds \/ UNCHANGED vars
    BY <2>6 DEF ListOpenIssues, PrEnds, vars, board
  <2> QED BY <2>1, <2>2, <2>3, <2>4, <2>5, <2>6 DEF Next, Box
<1> QED BY <1>1, LaneInvAlways, PTL DEF Spec, DecisionStands

\* Work starts over only at a founder's word: the box's own status writes, which
\* renew updatedAt too, never queue a post.
THEOREM QuackbackQueuedOnlyIfAsked == Spec => QueuedOnlyIfAsked
<1>1. LaneInv /\ [Next]_vars =>
        \A p \in Posts : stage[p] # "queued" /\ stage'[p] = "queued" => p \in asked
  <2> SUFFICES ASSUME LaneInv, [Next]_vars, NEW p \in Posts,
                      stage[p] # "queued", stage'[p] = "queued"
               PROVE  p \in asked
    OBVIOUS
  <2> TypeOK
    BY DEF LaneInv
  <2>1. CASE QueuePost
    <3>1. job.post \in asked
      BY <2>1 DEF QueuePost, LaneInv, QueueInv
    <3>2. p = job.post
      BY <2>1 DEF QueuePost, TypeOK
    <3> QED BY <3>1, <3>2
  <2>2. CASE Ingest
    BY <2>1, <2>2 DEF Ingest, ListAccepted, MapPost, Claim, store
  <2>3. CASE Stage
    BY <2>3, StageMoves DEF TypeOK
  <2>4. CASE Failure
    BY <2>4 DEF Failure, MirrorFails, StageFails, QueueFails, Restart, Moved, ThePost, store, TypeOK
  <2>5. CASE ListOpenIssues \/ Suggest \/ FounderActs \/ PrEnds \/ UNCHANGED vars
    BY <2>5 DEF ListOpenIssues, Suggest, FounderActs, PrEnds, vars, store
  <2> QED BY <2>1, <2>2, <2>3, <2>4, <2>5 DEF Next, Box
<1> QED BY <1>1, LaneInvAlways, PTL DEF Spec, QueuedOnlyIfAsked
=============================================================================
