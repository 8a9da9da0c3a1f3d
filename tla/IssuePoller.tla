---------------------------- MODULE IssuePoller ----------------------------
(***************************************************************************)
(* The poller of wgmesh_pipeline driving issues of the GitHub forge from   *)
(* queued to merged: reconcile_issues, claim_next, one stage per tick, the *)
(* graph node each stage runs, and what surrounds it, that is people and   *)
(* GitHub acting on issues, labels and PRs, the operator's one-shot        *)
(* commands, and restarts of the box.                                      *)
(*                                                                         *)
(* A tick is synchronous, so nothing else in the process runs inside it;   *)
(* its steps are cut where it waits on the outside: one action per group   *)
(* of forge writes, with the people, GitHub, the operator (another         *)
(* process) and a restart free to act in between.                          *)
(***************************************************************************)
EXTENDS IssueStore, FiniteSets

CONSTANTS
  Issues,           \* issue numbers
  NoIssue,          \* the issue of an idle poller
  Modes,            \* PIPELINE_MODE values a restart may come up with
  AcceptGateLive,   \* ACCEPT_GATE_LIVE
  RequeueTargets,   \* --target-stage values the operator uses
  MaxInterference   \* bound: acts of people and operators, and restarts

ASSUME PollerAssumption ==
  /\ NoIssue \notin Issues
  /\ Modes \subseteq {"shadow", "spec-only", "live"}
  /\ AcceptGateLive \in BOOLEAN
  /\ RequeueTargets \subseteq ActionableStages
  /\ MaxInterference \in Nat

VARIABLES
  row,        \* the store: Issues -> Row
  mode,       \* config.mode of the running process
  job,        \* where the current tick is
  scratch,    \* Poller.scratch: what the nodes left in memory, per issue
  issueOpen,  \* upstream issue is open
  labels,     \* upstream labels
  specPr,     \* spec PRs of the issue: whether one is open, whether one merged
  implPrs,    \* state of each implementation PR of the issue
  armed,      \* open implementation PRs with auto-merge enabled
  branch,     \* content of bot/impl-N: none, or what the gate would say of it
  specBranch, \* issues whose spec is on bot/spec-N
  worktree,   \* the spec file in the one clone every issue shares: an untracked
              \* draft, tracked by the checked-out branch, or not there
  granted,    \* history: issues the accept gate let through on an approval
  lost,       \* history: issues whose scratch a restart dropped after a push
  skipped,    \* history: issues an operator has requeued past implement
  budget      \* acts of people and operators, and restarts, still allowed

forge   == <<issueOpen, labels, specPr, implPrs, armed, branch, specBranch>>
history == <<granted, lost, skipped>>
vars == <<row, mode, job, scratch, forge, worktree, history, budget>>

-----------------------------------------------------------------------------
(* Values                                                                  *)

TriageLabels == {"needs-triage", "copilot-triaging"}
Labels == TriageLabels \cup {"needs-human", "approved-for-build", "needs-rework", "done"}

\* What decide_gate tells apart in a diff: risk tier, paywall and sanitise
\* all pass, or one of them does not.
Contents == {"safe", "risky"}

PrIds == 1..MaxPrs

\* The stages that work on an implementation PR.
LateStages == {"implemented", "reviewed", "awaiting_merge"}

\* spec: a spec_path is known; tested: tests, sanitise and findings all pass.
Memory == [spec : BOOLEAN, specPr : BOOLEAN, diff : {"none"} \cup Contents,
           impl : 0..MaxPrs, tested : BOOLEAN]

NoMemory == [spec |-> FALSE, specPr |-> FALSE, diff |-> "none",
             impl |-> 0, tested |-> FALSE]

Phases == {"idle", "started", "approved", "committed", "specPushed", "opened",
           "untagged", "building", "pushed", "built", "armed", "parking"}

\* stage, specPr and impl are the record claim_next returned.
Job == [phase : Phases, issue : Issues \cup {NoIssue}, stage : Stages \cup {Absent},
        specPr : BOOLEAN, impl : 0..MaxPrs]

Idle == [phase |-> "idle", issue |-> NoIssue, stage |-> Absent,
         specPr |-> FALSE, impl |-> 0]

TypeOK ==
  /\ row \in [Issues -> Row]
  /\ mode \in Modes
  /\ job \in Job /\ (job.phase # "idle" => job.issue \in Issues /\ job.stage \in Stages)
  /\ scratch \in [Issues -> Memory]
  /\ issueOpen \in [Issues -> BOOLEAN]
  /\ labels \in [Issues -> SUBSET Labels]
  /\ specPr \in [Issues -> SUBSET {"open", "merged"}]
  /\ implPrs \in [Issues -> [PrIds -> {"unused", "open", "merged", "closed"}]]
  /\ armed \in [Issues -> SUBSET PrIds]
  /\ branch \in [Issues -> {"none"} \cup Contents]
  /\ specBranch \in SUBSET Issues
  /\ worktree \in [Issues -> {"none", "draft", "tracked"}]
  /\ granted \in SUBSET Issues
  /\ lost \in SUBSET Issues
  /\ skipped \in SUBSET Issues
  /\ budget \in 0..MaxInterference

\* An empty store, and issues as people file them.
Init ==
  /\ row = [i \in Issues |-> NoRow]
  /\ mode \in Modes
  /\ job = Idle
  /\ scratch = [i \in Issues |-> NoMemory]
  /\ issueOpen = [i \in Issues |-> TRUE]
  /\ labels \in [Issues -> {{}, {"needs-triage"}, {"needs-triage", "approved-for-build"}}]
  /\ specPr = [i \in Issues |-> {}]
  /\ implPrs = [i \in Issues |-> [k \in PrIds |-> "unused"]]
  /\ armed = [i \in Issues |-> {}]
  /\ branch = [i \in Issues |-> "none"]
  /\ specBranch = {}
  /\ worktree = [i \in Issues |-> "none"]
  /\ granted = {}
  /\ lost = {}
  /\ skipped = {}
  /\ budget = MaxInterference

-----------------------------------------------------------------------------
(* Reconcile and claim                                                     *)

OpenImpl(i) == {k \in PrIds : implPrs[i][k] = "open"}

\* has_merged_resolution_pr: a merged spec PR counts as a resolution too.
Resolved(i) == "merged" \in specPr[i] \/ \E k \in PrIds : implPrs[i][k] = "merged"

Pipelined(i) == labels[i] \cap TriageLabels # {}

\* A terminal row only leaves its stage when a human sends a parked issue back.
Retriaged(i) == /\ row[i].stage = "escalated"
                /\ "needs-human" \notin labels[i]
                /\ Pipelined(i)

\* No row and no pipeline label: the resolution is looked up.
Unseen(i) == row[i].stage = Absent /\ labels[i] \cap (TriageLabels \cup {"done", "needs-human"}) = {}

\* The lookup says resolved, yet a human asks for more: the open PR decides.
Reworked(i) == Unseen(i) /\ Resolved(i) /\ "needs-rework" \in labels[i]

FirstSight(i) ==
  CASE ~Resolved(i)                     -> Upsert(row[i], "queued", TRUE)
    [] Resolved(i) /\ ~Reworked(i)      -> Upsert(row[i], "merged", TRUE)
    [] Reworked(i) /\ OpenImpl(i) # {}  -> row[i]
    [] Reworked(i) /\ OpenImpl(i) = {}  -> Upsert(row[i], "queued", TRUE)

\* What the pass makes of one issue of the listing; found: the lookup answered.
Listed(i, found) ==
  LET r == row[i] IN
  IF r.stage \in TerminalStages
    THEN IF Retriaged(i) THEN Upsert(r, "queued", TRUE) ELSE r
  ELSE IF "done" \in labels[i]        THEN Upsert(r, "merged", FALSE)
  ELSE IF "needs-human" \in labels[i] THEN Upsert(r, "escalated", TRUE)
  ELSE IF r.stage # Absent            THEN IF Pipelined(i) THEN r ELSE Upsert(r, r.stage, TRUE)
  ELSE IF Pipelined(i)                THEN Upsert(r, "queued", TRUE)
  ELSE IF found                       THEN FirstSight(i)
  ELSE r

\* An escalation whose issue is not in the listing is pruned.
Unlisted(i, found) ==
  IF row[i].stage = "escalated" /\ row[i].open /\ found
    THEN [SetStage(row[i], "merged") EXCEPT !.open = FALSE]
    ELSE row[i]

\* The labels the pass takes off an issue: an in-flight issue's needs-triage,
\* a requeued issue's needs-rework.
Cleared(i, found) ==
  LET inFlight == row[i].stage \notin TerminalStages \cup {Absent, "queued"} IN
  {l \in {"needs-triage"} : inFlight /\ labels[i] \cap {"done", "needs-human"} = {}}
    \cup {l \in {"needs-rework"} : found /\ Reworked(i) /\ OpenImpl(i) = {}}

\* reached: issues handled before the pass ended or raised; found: reads that
\* answered; cleared: label writes that succeeded (best effort, dry in shadow).
ReconcileIssues(reached, found, cleared) ==
  /\ row' = [i \in Issues |->
               IF i \notin reached THEN row[i]
               ELSE IF issueOpen[i] THEN Listed(i, i \in found)
               ELSE Unlisted(i, i \in found)]
  /\ labels' = [i \in Issues |->
                  IF i \in reached \cap cleared /\ issueOpen[i] /\ mode # "shadow"
                    THEN labels[i] \ Cleared(i, i \in found) ELSE labels[i]]
  /\ UNCHANGED <<mode, scratch, issueOpen, specPr, implPrs, armed, branch, specBranch,
                 worktree, history, budget>>

\* spec_opened is claimed too unless the process is spec-only.
Claimable(r) ==
  r.open /\ r.stage \in ActionableStages \cup (IF mode = "spec-only" THEN {} ELSE {"spec_opened"})

Started(i, r) == [phase |-> "started", issue |-> i, stage |-> r.stage,
                  specPr |-> r.specPr, impl |-> r.implPr]

\* A tick begins.  Which claimable row comes first depends on updated_at, which
\* ClaimQueue models; only a row that has failed before may be cooling down.
Tick ==
  /\ job = Idle
  /\ \E found, cleared \in SUBSET Issues :
       /\ ReconcileIssues(Issues, found, cleared)
       /\ \/ \E i \in Issues : Claimable(row'[i]) /\ job' = Started(i, row'[i])
          \/ /\ \A i \in Issues : Claimable(row'[i]) => row'[i].attempts > 0
             /\ job' = Idle

\* The open-PR read of a reworked issue is the one read the pass does not
\* guard: if it raises, the rest of the listing and the claim are skipped.
TickAborted ==
  /\ job = Idle
  /\ \E reached, found, cleared \in SUBSET Issues :
       /\ \E i \in Issues \ reached : issueOpen[i] /\ Reworked(i)
       /\ \A i \in reached : issueOpen[i]
       /\ ReconcileIssues(reached, found, cleared)
  /\ job' = Idle

-----------------------------------------------------------------------------
(* The rest of the tick: the stage the claimed issue is at                 *)

TheIssue == job.issue

\* The record's PR columns overlay what the scratch remembers.
KnownSpecPr == job.specPr \/ scratch[TheIssue].specPr
KnownImplPr == IF job.impl # 0 THEN job.impl ELSE scratch[TheIssue].impl

\* Every node leaves its whole input state in the scratch.
Remembered == [scratch[TheIssue] EXCEPT !.specPr = KnownSpecPr, !.impl = KnownImplPr]
Remember(m) == scratch' = [scratch EXCEPT ![TheIssue] = m]

At(phase, stage) == job.phase = phase /\ job.stage = stage
Enter(phase) == job' = [job EXCEPT !.phase = phase]

\* Writes of a stage that is done: transition alone, or an upsert that forces
\* the claimed stage first and so cannot miss.
Commit(to) ==
  /\ CanTransition(row[TheIssue], job.stage, to)
  /\ row' = [row EXCEPT ![TheIssue] = SetStage(@, to)]
  /\ job' = Idle
CommitUpsert(r, to) ==
  /\ row' = [row EXCEPT ![TheIssue] = Upsert(r, to, TRUE)]
  /\ job' = Idle

\* Adding needs-human is the one write every mode but shadow makes.
AskHuman == labels' = IF mode = "shadow" THEN labels
                      ELSE [labels EXCEPT ![TheIssue] = @ \cup {"needs-human"}]

Park ==
  /\ AskHuman
  /\ Enter("parking")
  /\ UNCHANGED <<row, mode, issueOpen, specPr, implPrs, armed, branch, specBranch,
                 worktree, history, budget>>

CommitPark ==
  /\ job.phase = "parking"
  /\ Commit("escalated")
  /\ UNCHANGED <<mode, scratch, forge, worktree, history, budget>>

\* queued: triage goes by the title, which the model leaves open.
TriageBuild ==
  /\ At("started", "queued")
  /\ CommitUpsert(row[TheIssue], "triaged")
  /\ Remember(Remembered)
  /\ UNCHANGED <<mode, forge, worktree, history, budget>>

TriagePark == At("started", "queued") /\ Park /\ Remember(Remembered)

\* triaged: the accept gate.  A failed read denies like a missing approval.
Approved == "approved-for-build" \in labels[TheIssue]

AcceptGateAllow ==
  /\ At("started", "triaged")
  /\ Approved \/ ~AcceptGateLive
  /\ Enter("approved")
  /\ granted' = IF Approved THEN granted \cup {TheIssue} ELSE granted
  /\ UNCHANGED <<row, mode, scratch, forge, worktree, lost, skipped, budget>>

AcceptGateDeny ==
  At("started", "triaged") /\ AcceptGateLive /\ Park /\ UNCHANGED scratch

\* spec_node: a remembered spec_path means no new spec is written.
AuthorSpec ==
  /\ At("approved", "triaged")
  /\ worktree' = IF scratch[TheIssue].spec THEN worktree
                 ELSE [worktree EXCEPT ![TheIssue] = "draft"]
  /\ Remember([Remembered EXCEPT !.spec = TRUE])
  /\ Commit("specced")
  /\ UNCHANGED <<mode, forge, history, budget>>

\* Stages shadow mode hands back untouched.
Held == /\ mode = "shadow"
        /\ job.stage \in {"specced", "spec_ready", "implemented", "reviewed", "awaiting_merge"}

ShadowHold ==
  /\ job.phase = "started" /\ Held
  /\ job' = Idle
  /\ UNCHANGED <<row, mode, scratch, forge, worktree, history, budget>>

\* A checkout of another branch drops the files the current one tracks.
AfterCheckout == [j \in Issues |-> IF worktree[j] = "tracked" THEN "none" ELSE worktree[j]]

\* specced: spec_pr_node cuts bot/spec-N from main, commits the draft, pushes,
\* opens the PR (or finds the open one), and moves the labels.
CommitSpec ==
  /\ At("started", "specced") /\ mode # "shadow" /\ ~KnownSpecPr
  /\ worktree[TheIssue] = "draft"
  /\ worktree' = [AfterCheckout EXCEPT ![TheIssue] = "tracked"]
  /\ Enter("committed")
  /\ UNCHANGED <<row, mode, scratch, forge, history, budget>>

PushSpec ==
  /\ At("committed", "specced")
  /\ specBranch' = specBranch \cup {TheIssue}
  /\ Enter("specPushed")
  /\ UNCHANGED <<row, mode, scratch, issueOpen, labels, specPr, implPrs, armed, branch,
                 worktree, history, budget>>

OpenSpecPr ==
  /\ At("specPushed", "specced")
  /\ specPr' = [specPr EXCEPT ![TheIssue] = @ \cup {"open"}]
  /\ Enter("opened")
  /\ UNCHANGED <<row, mode, scratch, issueOpen, labels, implPrs, armed, branch, specBranch,
                 worktree, history, budget>>

UntagSpec ==
  /\ At("opened", "specced")
  /\ labels' = [labels EXCEPT ![TheIssue] = @ \ {"needs-triage"}]
  /\ Enter("untagged")
  /\ UNCHANGED <<row, mode, scratch, issueOpen, specPr, implPrs, armed, branch, specBranch,
                 worktree, history, budget>>

AfterSpecPr == IF mode = "spec-only" THEN "spec_opened" ELSE "spec_ready"

TagSpec ==
  /\ At("untagged", "specced")
  /\ labels' = [labels EXCEPT ![TheIssue] = @ \cup {"copilot-triaging"}]
  /\ Remember([Remembered EXCEPT !.spec = TRUE, !.specPr = TRUE])
  /\ CommitUpsert([row[TheIssue] EXCEPT !.specPr = TRUE], AfterSpecPr)
  /\ UNCHANGED <<mode, issueOpen, specPr, implPrs, armed, branch, specBranch, worktree,
                 history, budget>>

SkipSpecPr ==
  /\ At("started", "specced") /\ mode # "shadow" /\ KnownSpecPr
  /\ Remember([Remembered EXCEPT !.spec = TRUE])
  /\ CommitUpsert([row[TheIssue] EXCEPT !.specPr = TRUE], AfterSpecPr)
  /\ UNCHANGED <<mode, forge, worktree, history, budget>>

ResumeSpecOpened ==
  /\ At("started", "spec_opened")
  /\ Commit("spec_ready")
  /\ UNCHANGED <<mode, scratch, forge, worktree, history, budget>>

\* spec_ready: implement_node.  A diff in the scratch is reused as it is.
HasDiff == scratch[TheIssue].diff # "none"

ReuseDiff ==
  /\ At("started", "spec_ready") /\ mode # "shadow" /\ HasDiff
  /\ Enter("pushed")
  /\ UNCHANGED <<row, mode, scratch, forge, worktree, history, budget>>

\* Fault: implement goes ahead without a spec.
SpecNotNeeded == TRUE

\* _materialize_spec finds the spec on bot/spec-N or in the clone.
SpecAvailable ==
  \/ TheIssue \in specBranch
  \/ worktree[TheIssue] # "none"
  \/ "merged" \in specPr[TheIssue]

\* _prepare_impl_workspace resets and cleans the clone, whoever's files are in it.
PrepareImpl ==
  /\ At("started", "spec_ready") /\ mode # "shadow" /\ ~HasDiff
  /\ SpecAvailable
  /\ worktree' = [j \in Issues |-> "none"]
  /\ Enter("building")
  /\ UNCHANGED <<row, mode, scratch, forge, history, budget>>

\* Goose writes anything; the push replaces the branch.  Only live may push.
PushImpl ==
  /\ At("building", "spec_ready") /\ mode = "live"
  /\ \E c \in Contents : branch' = [branch EXCEPT ![TheIssue] = c]
  /\ Enter("pushed")
  /\ UNCHANGED <<row, mode, scratch, issueOpen, labels, specPr, implPrs, armed, specBranch,
                 worktree, history, budget>>

\* create_pr: GitHub refuses a second open PR for the branch.
CreateImplPr ==
  /\ At("pushed", "spec_ready") /\ mode = "live"
  /\ KnownImplPr = 0 /\ OpenImpl(TheIssue) = {}
  /\ \E k \in PrIds :
       /\ implPrs[TheIssue][k] = "unused" /\ \A m \in 1..(k - 1) : implPrs[TheIssue][m] # "unused"
       /\ implPrs' = [implPrs EXCEPT ![TheIssue][k] = "open"]
  /\ UNCHANGED <<row, mode, job, scratch, issueOpen, labels, specPr, armed, branch, specBranch,
                 worktree, history, budget>>

\* The PR already on record, open or not; else the open one of the branch,
\* be it the one just created or one that create_pr's 422 points to.
EnsureImplPr ==
  /\ At("pushed", "spec_ready")
  /\ \E k \in PrIds :
       /\ \/ k = KnownImplPr
          \/ KnownImplPr = 0 /\ mode = "live" /\ k \in OpenImpl(TheIssue)
       /\ Remember([Remembered EXCEPT !.spec = TRUE, !.impl = k,
                        !.diff = IF HasDiff THEN @ ELSE branch[TheIssue]])
  /\ Enter("built")
  /\ UNCHANGED <<row, mode, forge, worktree, history, budget>>

\* Fault: the stage advances, the PR is not recorded.
CommitImplementedOnly ==
  /\ At("built", "spec_ready")
  /\ Commit("implemented")
  /\ UNCHANGED <<mode, scratch, forge, worktree, history, budget>>

CommitImplemented ==
  /\ At("built", "spec_ready")
  /\ CommitUpsert([row[TheIssue] EXCEPT !.implPr = scratch[TheIssue].impl], "implemented")
  /\ UNCHANGED <<mode, scratch, forge, worktree, history, budget>>

\* implemented: review_node builds and tests the pushed branch, and sanitises
\* the remembered diff.
Review ==
  /\ At("started", "implemented") /\ mode # "shadow"
  /\ \E ok \in BOOLEAN :
       /\ ok => branch[TheIssue] # "none"
       /\ Remember([Remembered EXCEPT !.tested = ok])
  /\ worktree' = AfterCheckout
  /\ Commit("reviewed")
  /\ UNCHANGED <<mode, forge, history, budget>>

\* Fault: the gate asks for green tests and nothing else.
DecideMergeOnTests == scratch[TheIssue].tested

\* reviewed: decide_gate.  No diff in the scratch is a diff with nothing in it.
DecideMerge == scratch[TheIssue].tested /\ scratch[TheIssue].diff # "risky"

\* Fault: the transition comes before the side effect, which then fails.
GateMergeWithoutArming ==
  /\ At("started", "reviewed") /\ mode = "live" /\ DecideMerge
  /\ KnownImplPr # 0
  /\ Enter("armed")
  /\ UNCHANGED <<row, mode, scratch, forge, worktree, history, budget>>

\* enable_auto_merge: an open PR is armed, or merged at once when nothing is
\* pending on it; "already merged" is tolerated; a closed PR is an error.
GateMerge ==
  /\ At("started", "reviewed") /\ mode = "live" /\ DecideMerge
  /\ KnownImplPr # 0
  /\ LET k == KnownImplPr IN
     \/ /\ implPrs[TheIssue][k] = "open"
        /\ armed' = [armed EXCEPT ![TheIssue] = @ \cup {k}]
        /\ UNCHANGED implPrs
     \/ /\ implPrs[TheIssue][k] = "open"
        /\ implPrs' = [implPrs EXCEPT ![TheIssue][k] = "merged"]
        /\ armed' = [armed EXCEPT ![TheIssue] = @ \ {k}]
     \/ /\ implPrs[TheIssue][k] = "merged"
        /\ UNCHANGED <<implPrs, armed>>
  /\ Enter("armed")
  /\ UNCHANGED <<row, mode, scratch, issueOpen, labels, specPr, branch, specBranch,
                 worktree, history, budget>>

GateEscalate ==
  /\ At("started", "reviewed") /\ mode # "shadow" /\ ~DecideMerge
  /\ Park /\ Remember(Remembered)

CommitAwaiting ==
  /\ At("armed", "reviewed")
  /\ Remember(Remembered)
  /\ Commit("awaiting_merge")
  /\ UNCHANGED <<mode, forge, worktree, history, budget>>

\* awaiting_merge: poll the PR on record.
Awaits(state) == /\ At("started", "awaiting_merge") /\ mode # "shadow"
                 /\ job.impl # 0 /\ implPrs[TheIssue][job.impl] = state

AwaitWithoutPr ==
  /\ At("started", "awaiting_merge") /\ mode # "shadow" /\ job.impl = 0
  /\ Park /\ UNCHANGED scratch

AwaitClosed == Awaits("closed") /\ Park /\ UNCHANGED scratch

\* Fault: a PR that is no longer open counts as merged.
AwaitGone ==
  /\ Awaits("merged") \/ Awaits("closed")
  /\ Commit("merged")
  /\ UNCHANGED <<mode, scratch, forge, worktree, history, budget>>

AwaitMerged ==
  /\ Awaits("merged")
  /\ Commit("merged")
  /\ UNCHANGED <<mode, scratch, forge, worktree, history, budget>>

AwaitOpen ==
  /\ Awaits("open")
  /\ CommitUpsert([row[TheIssue] EXCEPT !.specPr = @ \/ job.specPr, !.implPr = job.impl],
                  "awaiting_merge")
  /\ UNCHANGED <<mode, scratch, forge, worktree, history, budget>>

-----------------------------------------------------------------------------
(* A stage that raises                                                     *)

\* Any call of the stage may raise; the attempt is counted.
Fail ==
  /\ job.phase # "idle" /\ ~Held /\ row[TheIssue].stage # Absent
  /\ row' = [row EXCEPT ![TheIssue] = BumpAttempt(@)]
  /\ job' = Idle
  /\ UNCHANGED <<mode, scratch, forge, worktree, history, budget>>

\* git add finds no spec file, after the checkout has moved the clone.
SpecFileMissing ==
  /\ At("started", "specced") /\ mode # "shadow" /\ ~KnownSpecPr
  /\ worktree[TheIssue] # "draft" /\ row[TheIssue].stage # Absent
  /\ worktree' = AfterCheckout
  /\ row' = [row EXCEPT ![TheIssue] = BumpAttempt(@)]
  /\ job' = Idle
  /\ UNCHANGED <<mode, scratch, forge, history, budget>>

\* The process goes: the job and the scratch with it.  It may come back in
\* another mode.
ProcessRestarts ==
  /\ mode' \in Modes
  /\ job' = Idle
  /\ scratch' = [i \in Issues |-> NoMemory]
  /\ lost' = lost \cup {i \in Issues : branch[i] # "none"}
  /\ UNCHANGED <<row, forge, worktree, granted, skipped>>

\* bump_attempt of a row that a reset has deleted raises out of the tick.
Crash ==
  /\ job.phase # "idle" /\ row[TheIssue].stage = Absent
  /\ ProcessRestarts
  /\ UNCHANGED budget

-----------------------------------------------------------------------------
(* Everybody else                                                          *)

Interfere == budget > 0 /\ budget' = budget - 1

Restart == Interfere /\ ProcessRestarts

\* The operator's one-shot commands run as processes of their own.
RequeueFailedMain ==
  /\ Interfere
  /\ \E i \in Issues, target \in RequeueTargets :
       /\ row[i].stage = "failed"
       /\ row' = [row EXCEPT ![i] = RequeueFailed(@, target)]
       /\ skipped' = IF target \in LateStages THEN skipped \cup {i} ELSE skipped
  /\ UNCHANGED <<mode, job, scratch, forge, worktree, granted, lost>>

ResetQueueMain ==
  /\ Interfere
  /\ row' = [i \in Issues |-> NoRow]
  /\ UNCHANGED <<mode, job, scratch, forge, worktree, history>>

\* People: labels put on and taken off, issues closed and reopened, PRs closed
\* or merged by hand.
Relabel ==
  /\ Interfere
  /\ \E i \in Issues, l \in Labels :
       labels' = [labels EXCEPT ![i] = IF l \in @ THEN @ \ {l} ELSE @ \cup {l}]
  /\ UNCHANGED <<row, mode, job, scratch, issueOpen, specPr, implPrs, armed, branch, specBranch,
                 worktree, history>>

CloseOrReopenIssue ==
  /\ Interfere
  /\ \E i \in Issues : issueOpen' = [issueOpen EXCEPT ![i] = ~@]
  /\ UNCHANGED <<row, mode, job, scratch, labels, specPr, implPrs, armed, branch, specBranch,
                 worktree, history>>

LeavesOpen(i, k, state) ==
  /\ implPrs[i][k] = "open"
  /\ implPrs' = [implPrs EXCEPT ![i][k] = state]
  /\ armed' = [armed EXCEPT ![i] = @ \ {k}]
  /\ UNCHANGED <<row, mode, job, scratch, issueOpen, labels, specPr, branch, specBranch,
                 worktree, history>>

HumanEndsPr ==
  /\ Interfere
  /\ \E i \in Issues, k \in PrIds, state \in {"merged", "closed"} : LeavesOpen(i, k, state)

\* GitHub merges an armed PR once its checks pass.
AutoMerge ==
  /\ \E i \in Issues, k \in PrIds : k \in armed[i] /\ LeavesOpen(i, k, "merged")
  /\ UNCHANGED budget

\* impl-merged-close: the target repository's workflow closes a delivered issue.
CloseDelivered ==
  /\ \E i \in Issues :
       /\ issueOpen[i] /\ \E k \in PrIds : implPrs[i][k] = "merged"
       /\ issueOpen' = [issueOpen EXCEPT ![i] = FALSE]
  /\ UNCHANGED <<row, mode, job, scratch, labels, specPr, implPrs, armed, branch, specBranch,
                 worktree, history, budget>>

MergeSpecPr ==
  /\ \E i \in Issues : "open" \in specPr[i] /\ specPr' = [specPr EXCEPT ![i] = {"merged"}]
  /\ UNCHANGED <<row, mode, job, scratch, issueOpen, labels, implPrs, armed, branch, specBranch,
                 worktree, history, budget>>

-----------------------------------------------------------------------------

Advance ==
  \/ CommitPark \/ TriageBuild \/ TriagePark
  \/ AcceptGateAllow \/ AcceptGateDeny \/ AuthorSpec
  \/ ShadowHold
  \/ CommitSpec \/ PushSpec \/ OpenSpecPr \/ UntagSpec \/ TagSpec \/ SkipSpecPr
  \/ ResumeSpecOpened
  \/ ReuseDiff \/ PrepareImpl \/ PushImpl \/ CreateImplPr \/ EnsureImplPr \/ CommitImplemented
  \/ Review
  \/ GateMerge \/ GateEscalate \/ CommitAwaiting
  \/ AwaitWithoutPr \/ AwaitClosed \/ AwaitMerged \/ AwaitOpen
  \/ SpecFileMissing \/ Fail \/ Crash

Poller == Tick \/ TickAborted \/ Advance

Outside ==
  \/ Restart \/ RequeueFailedMain \/ ResetQueueMain
  \/ Relabel \/ CloseOrReopenIssue \/ HumanEndsPr
  \/ AutoMerge \/ CloseDelivered \/ MergeSpecPr

Next == Poller \/ Outside

Spec == Init /\ [][Next]_vars

-----------------------------------------------------------------------------
(* Properties                                                              *)

\* An issue is out of attempts exactly when its row says failed: no path leaves
\* a spent row claimable, and none brings a failed row back with a spent budget
\* (bump_attempt, requeue_failed, and every upsert that keeps attempts).
BudgetIffFailed ==
  \A i \in Issues : row[i].attempts = MaxAttempts <=> row[i].stage = "failed"

\* With the accept gate live no implementation is ever pushed for an issue that
\* the gate has not let through on a founder's approval, whatever stages the
\* operator's requeue skips (poller.py accept gate, implement.py spec lookup).
BuiltOnlyIfApproved ==
  AcceptGateLive => \A i \in Issues : branch[i] # "none" => i \in granted

\* A row at a stage past implement names the PR that stage works on, so neither
\* the gate nor the merge poll is ever left without one, unless an operator has
\* put the issue there by hand.
PastImplementHasPr ==
  \A i \in Issues \ skipped : row[i].stage \in LateStages => row[i].implPr # 0

\* A row parked in awaiting_merge waits for something: if its PR is open, GitHub
\* has been told to merge it (side effect before transition, poller.py:199-219).
ParkedIsArmed ==
  \A i \in Issues \ skipped :
    LET k == row[i].implPr IN
    row[i].stage = "awaiting_merge" /\ k # 0 /\ implPrs[i][k] = "open" => k \in armed[i]

\* Content the gate would refuse is never on an open PR that merges by itself,
\* as decide_gate means it.  The code only keeps to it without restarts.
RiskyNeverArmed == \A i \in Issues : branch[i] = "risky" => armed[i] = {}

\* What the code does guarantee of it: refused content is armed only where a
\* restart has dropped the diff the gate judges.
RiskyArmedOnlyIfLost ==
  \A i \in Issues : branch[i] = "risky" /\ armed[i] # {} => i \in lost

\* A spec PR that a partial run left open can be picked up by a retry, as the
\* comment at spec_pr.py:45 says: the node still finds the spec it has to commit.
PartialSpecPrRetries ==
  \A i \in Issues :
    row[i].stage = "specced" /\ job = Idle /\ specPr[i] = {"open"} /\ ~row[i].specPr
      => worktree[i] = "draft"

\* The poller keeps the promises IssueLifecycle makes about a row's stage, in
\* particular which fact of the forge each way into merged takes.
FactHolds(i, f) ==
  CASE f = "delivered" -> row[i].implPr # 0 /\ implPrs[i][row[i].implPr] = "merged"
    [] f = "done"      -> "done" \in labels[i]
    [] f = "resolved"  -> Resolved(i)
    [] f = "closed"    -> ~issueOpen[i]
Lifecycle == INSTANCE IssueLifecycle
  WITH stage <- [i \in Issues |-> row[i].stage],
       facts <- [i \in Issues |->
                  {f \in {"delivered", "done", "resolved", "closed"} : FactHolds(i, f)}]
ImplementsLifecycle == Lifecycle!Spec
=============================================================================
