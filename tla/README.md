# A verified model of the wgmesh pipeline

This directory holds TLA+ modules, TLC configurations and TLAPS proofs about
`src/pipeline/wgmesh_pipeline`, the Python service that takes an issue from a
forge, has a model write a spec and an implementation, gates the result, merges
it, and keeps a decision board and a strategy loop beside it. Paths below are
relative to `src/pipeline/wgmesh_pipeline/` unless they say otherwise.

`PROJECT.json` maps every definition to the lines it stands for, and lists runs,
mutants, hazards, findings and theorems.

## 1. Inventory

### The parts

| component | code | state it keeps | operations |
|---|---|---|---|
| Issue store | `state/store.py` | SQLite `issues`: stage, status, attempts, PR columns, `updated_at`; post-id map with accept markers; `decision_posts`; control-loop documents | `upsert_issue`, `transition`, `set_stage`, `claim_next`, `bump_attempt`, `requeue_failed`, `reset_queue`, `map_quackback_post`, `save_control_state` |
| Poller | `poller.py` | `scratch`: what the nodes left in memory, per issue | `tick` (reconcile, claim, one stage), `_advance_one_stage`, `_accept_gate_decision`, `_mirror_quackback` |
| Reconcile | `github/reconcile.py` | none: it compares the listing with the store | `reconcile_issues`, `reconcile_quackback` |
| Graph nodes | `graph/nodes/*.py` | labels, branches and PRs on the forge; the one clone all issues share | triage, surface gate, spec, spec_pr, implement, review, gate |
| Graph build | `graph/build.py`, `build_lg.py`, `state.py` | the graph state | `CompiledGraph.invoke`, the ladder of models; the langgraph build |
| Runners, verification | `goose/`, `langchain_agent/`, `verification.py` | none | run a recipe or raise; check out a PR's head and test it |
| Scanners | `risk.py`, `paywall.py`, `secret_scan.py` | none | a verdict on a diff |
| Forge client | `github/client.py` | none (mode gate in `_write`) | list issues, labels, PRs, push, `enable_auto_merge` |
| Operator commands | `main.py` | the same database, from another process | `--requeue-failed`, `--reset-queue-and-exit`; restart of the service |
| Quackback forge | `forge/quackback*.py` | `_id_map`: post-to-number map in memory | ingest listing, status read and write with an allowlist, `create_issue` |
| Decision lane | `decision_lane/` | `decision_posts`: last comment answered, iterations | `run_decision_cycle`: draft, revise, finalize |
| Merge lane | `selfheal/merge_lane.py`, `conflict.py`, `stale_base.py`, `rearm.py`, `retry_policy.py`, `src/company/scripts/conflict-heal/rebase.sh` | one retry tracker per repository, shared by the passes | gather, plan, rebase or escalate PR by PR, save |
| Self-heal sweeps | `selfheal/sweeps.py`, `runner.py`, `signals.py` | retry tracker and `last_dispatch_at`, saved and never loaded | three sweeps, needs-human close, breaker, idle dispatch |
| Supervisor | `supervisor.py` | the last ranking that was materially new | classify, score, order, fingerprint |
| Observation | `observation.py`, `observation_gather.py` | none | gather, assess, vet, open and close issues |
| Strategy audit | `strategy_audit.py`, `strategy_gather.py` | baseline metrics, last reported drift | measure, compare, save, open an issue |
| Control loop | `control_loop/` | none of its own | six module tasks on intervals, `execute_actions` |

The rest (the other forge, dedup and embeddings, configuration, tracing, company
scripts and workflows, deployment) is in `PROJECT.json` with its reason.

### How the parts interact

* `Poller.tick` is one synchronous call: reconcile the store with a listing of
  the forge, claim one row, run one stage. The control loop's modules are asyncio
  tasks in the same process; a synchronous cycle of theirs or of the poller is not
  interleaved with another *inside the process*.
* Everything outside is free to act between any two requests: people label, close
  and reopen issues, merge and close PRs; founders move posts; GitHub merges an
  armed PR; the target repository's workflow closes a delivered issue; an operator
  runs a one-shot command on the same database; the service is restarted.
* The store has one writer of in-flight stages, the poller. Requeue and reset are
  the exceptions, and run in other processes.
* The scratch and the Quackback forge's `_id_map` are what a restart loses. The
  gate depends on the first, and every board write on the second.
* The poller, all graph nodes and both runners share one clone of the target
  repository: what one issue leaves in its tree or index the next one meets.
* The control loop and the poller share one forge object, and so `_id_map`.
* Each control-loop module has a row of its own in the store and is flipped from
  shadow to live on its own; they meet on the forge only.

### What is hard here, and what makes each part correct

* *Poller*: a stage is several forge writes and then one database write. Any of
  them may fail, a retry finds what the earlier attempt left, and the outside
  moves in between. Correct means: nothing is built without an approval; nothing
  merges by itself that the gate would refuse; a parked row is parked on
  something that will end; `merged` is written only on a fact of the forge;
  attempts are spent once and end in `failed`.
* *Claim order*: fairness rests on `updated_at`, which many other writes renew.
  Correct means: no row is overtaken for ever, a claimable issue settles.
* *Clone*: git carries staged and untracked changes across checkouts, and falls
  back silently. Correct means: what is pushed is the issue's own, what the gate
  judged is what is armed, and a green test ran on the PR's head.
* *Quackback*: two id maps and a status that is read and written in two requests.
  Correct means: the board says Shipped of merged work, a founder's decision
  stands, an accept is acted on once.
* *Decision lane*: the thread is read twice and written once before the store is.
  Correct means: revisions are capped, comments are answered in order and not
  twice, a decision is final only after a proposal and then once.
* *Merge lane*: a plan made from one gather is executed PR by PR while authors
  push, main moves and checks report; the counts are saved only at the end of the
  cycle. Correct means: a push of the author is never lost; the cap bounds what is
  tried; people are asked once per cooldown; a broken PR is rebased or handed over;
  all of it up to the trackers that a failed load or a lost cycle wipes.
* *Self-heal*: a label is toggled in two requests, and every run starts from a blank
  tracker. Correct means: no item drops out of every lane.
* *Observation, strategy audit, supervisor*: a decision of this cycle is made
  against what an earlier one saved or opened, as far as the forge lists it. Correct
  means: nothing is opened twice, what is saved as reported was reported, a change
  is told.

## 2. Modules

| module | what it is |
|---|---|
| `IssueStore` | a row of the store and the writes of it, as operators |
| `IssueLifecycle` | abstract: what the pipeline promises about an issue's stage |
| `IssuePoller` | detailed: reconcile, claim, every stage step by step, people, GitHub, operator, restarts |
| `ClaimQueue` | the order of claims: `updated_at`, back-off, and all that renews it |
| `BuildGraph` | the nodes on the shared clone, git command by git command, under both drivers, builds and runners |
| `QuackbackLane` | the pipeline on the board: ingest, id maps, mirror, founders |
| `DecisionLane` | the consent loop request by request, with founders, failures, restarts |
| `MergeLane` | conflict and stale-base rebases of the open bot PRs, with authors, GitHub, failures |
| `SelfHeal` | sweeps, breaker, idle dispatch: plan, execute, save, with people and time |
| `Observation` | gather, assessment, guards, execution |
| `StrategyAudit` | drift, baseline, report |
| `Supervisor` | ranking and its persisted state |
| `ControlLoop` | composes the six modules of the control loop |
| `MCIssuePoller`, `MCClaimQueue`, `MCBuildGraph`, `MCQuackbackLane`, `MCDecisionLane`, `MCMergeLane`, `MCControlLoop` | instances for TLC |
| `IssuePollerProofs`, `DecisionLaneProofs`, `MergeLaneProofs`, `QuackbackLaneProofs`, `SelfHealProofs`, `BuildGraphProofs`, `ClaimQueueProofs`, `ControlLoopProofs` (observation, strategy audit, supervisor and the loop over all six tasks) | theorems |

`IssuePoller`, `ClaimQueue` and `QuackbackLane` extend `IssueStore`; `IssuePoller`
instantiates `IssueLifecycle`; `ControlLoop` extends the modules of its tasks.
`IssuePoller` has what a stage does to the forge and the row, `BuildGraph` what it
does to the clone, `QuackbackLane` what it does to the board and `ClaimQueue` in
which order rows get their turn; each keeps the others' part as a choice.

### IssuePoller and the code

`row` is the issue row (stage, open flag, attempts, the PR columns), `scratch` is
`Poller.scratch`, and `issueOpen`, `labels`, `specPr`, `implPrs`, `armed`,
`branch`, `specBranch` are what the forge holds. `worktree` is the spec file in
the shared clone: an untracked draft that the next `git clean -fd` removes, a
tracked file, or nothing. `granted` and `lost` are history variables that only
properties read. `job` is the program counter of a tick: the claimed record
(`claim_next` returns a copy, so `job.stage` can be stale) and the phase.

A tick is cut at its groups of forge writes. `Tick` is reconcile and claim in one
step, against one listing. Then, stage by stage:

| stage | actions | code |
|---|---|---|
| queued | `TriageBuild`, `TriagePark`, `CommitPark` | `poller.py` 116-133 |
| triaged | `AcceptGateAllow`, `AcceptGateDeny`, `AuthorSpec` | 135-146, 285-330, `spec.py` |
| specced | `ShadowHold`, `CommitSpec`, `PushSpec`, `OpenSpecPr`, `UntagSpec`, `TagSpec`, `SkipSpecPr` | 148-169, `spec_pr.py` |
| spec_opened | `ResumeSpecOpened` | 171-174 |
| spec_ready | `ReuseDiff`, `PrepareImpl`, `PushImpl`, `CreateImplPr`, `EnsureImplPr`, `CommitImplemented` | 176-193, `implement.py` |
| implemented | `Review` | 195-197, `review.py` |
| reviewed | `GateMerge`, `GateEscalate`, `CommitAwaiting` | 199-230, `gate.py` |
| awaiting_merge | `AwaitWithoutPr`, `AwaitClosed`, `AwaitMerged`, `AwaitOpen` | 232-281 |
| any | `Fail` (an exception, then `bump_attempt`), `Crash` (a reset took the row: `KeyError` ends the process) | 84-95 |

Abstractions, and why they are sound for the properties: a diff is *safe* or
*risky*, what `decide_gate` tells apart; a recipe's result is a choice; payloads,
pagination and wording are left out; a database write that fails right after
the scratch was updated is folded into `Fail` of the phase before, except after
`implement`, where the pushed branch makes it a state of its own (`built`). Which
row is claimed is a choice here; the order is `ClaimQueue`'s subject.

`skipped` is a history variable too: the issues an operator has requeued to a stage
past implement, for which `PastImplementHasPr` and `ParkedIsArmed` promise nothing.
Not in this module: somebody disabling auto-merge by hand or reopening a closed PR.

### ClaimQueue and the code

`older` is the order of `updated_at` as a set of pairs of rows, `age` the minutes since a row was renewed
(counted only while its back-off runs), `tags` the pipeline labels, `filed` the
issues of the listing, `pr` the implementation PR. A reconcile pass renews the
rows it upserts, in listing order, newest issue first; a claim takes the claimable
row that is older than all others. `claiming`, `claimed` and `passed` record the tick: `passed` holds,
for each issue, those claimed ahead of it since its row was last written.

### BuildGraph and the code

What a working tree holds is a set of changes over `origin/main`, each in one of
three places: `head` (committed where the clone stands), `index` (staged), `tree`
(only in the tree). `local` and `remote` are the branches, `job` the node that runs
and the commit its branch started from. A change has its issue, its kind (code,
spec, stray file, the recipe's output, the brief, a push by somebody else) and its
run. `setup` is the configuration: legacy or langgraph build, goose or langchain,
the poller's one node per tick or `invoke` to the end.

| action | code |
|---|---|
| `Triage`, `ParkAtTriage` | `triage.py`; under `invoke` also `surface_gate.py` 85-108, with what it writes on the issue (`Persist`) |
| `Spec` | `spec.py` and the runner: `GooseRun`, `LangchainRun` say when a run succeeds given what the agent left, and what the runner adds |
| `AddSpec`, `CommitSpec`, `OpenSpecPr` | `spec_pr.py` |
| `Prepare`, `Run`, `AddAll`, `ResetLitter`, `CommitImpl`, `Push`, `Implemented`, `ImplementAgain` | `implement.py`: checkout with its fallback, clean, recipe, add, reset of litter, commit, force-push, PR |
| `Review` | `verification.py`: fetch and checkout of the PR's head, with both fallbacks |
| `Gate`, `GateWritten` | `gate.py` and the ladder of `build.py` 60-92 (`Decide`, `Retries`): the side effect of the verdict that counts, and then the write of the row, `poller.py` 216-219, with a cut or a restart possible in between |
| `Cut`, `Restart`, `OthersPush`, `InvokeAgain` | an exception between any two commands, a restart of the box, a push of others, invoke called for a parked issue |

`StartBranch` is the crux: `git checkout -B bot/impl-N origin/main` may be refused
over a dirty tree, and the code then branches from wherever the clone stands. Left
out: `origin/main` moving, merges, agents that run git themselves, failing jobs
that change nothing. A write of the row that fails after the node has returned is in
`Implemented`. Parking at triage is one step: triage reads only the title, so what
a lost write leaves is done again with the same verdict.

`wall` says of an issue's spec whether it describes a component paywall in its
excerpt, beyond it, or not at all: `spec_content` is the first 6000 characters of
the file, and empty when it cannot be read. `memory` is what the state remembers:
the diff, that excerpt's paywall, whether the diff was found safe (`sanitise.sh` and
`classify_risk`) and whether tests passed. A restart drops it, and nothing in it is
then safe or tested. `forgot` and `astray` are history: issues whose diff a restart
lost, and issues that were armed and lost their state before the row was written, to
a restart or to a second call of `invoke`.

### QuackbackLane and the code

`status` is the board; `fresh` the posts whose `updatedAt` is not the accept marker
on record; `number` the store's map and `handle` the forge's `_id_map`, each with
its own counter; `stage`, `pr` the row and its PR; `job` the tick, cut where it
waits on the board. `Resolves(p, q)` is `_lookup_post_id`: the post `q` that the
number of `p` names.

| action | code |
|---|---|
| `ListAccepted`, `MapPost`, `QueuePost`, `Claim` | `reconcile.py` 167-199, `store.py` 460-497, `poller.py` tick |
| `Triage` ... `AwaitOpen` | `_advance_one_stage`, one step each |
| `MirrorRead`, `Drift`, `MirrorWrite`, `MirrorFails` | `poller.py` 332-403, `quackback_status.py` |
| `ListOpenIssues`, `Suggest` | `quackback.py`, as the control loop calls it between ticks |
| `StageFails`, `QueueFails`, `Restart`, `FounderActs`, `PrEnds` | failures, founders, GitHub |

Abstractions: every status outside the box's lane is `Out`; attempts, the scratch,
the spec PR and arming are `IssuePoller`'s; a comment does not renew `updatedAt`;
founders move a post out, accept it, or edit it.

### DecisionLane and the code

`asked`, `newest`, `votes`, `proposals`, `finals`, `superseded` are the board;
`record` is `decision_posts`; `point`, `post`, `heard`, `toCome` are where
`run_decision_cycle` stands. Co-founder comments are numbered in the order they
are made and a proposal is the number of the comment it answers, which is all
`is_unprocessed` and the reader of a thread tell apart. Every request is a step,
so `ReadThread` (plan) and `ReadFeedback` (revise) may see different threads, as
the two `list_comments` calls do. `FailPost` is an exception at any of them.

### MergeLane and the code

`pr` is what GitHub holds of each bot PR; `tracker` is the saved `retry_tracker`,
`work` the cycle's `tracker_out`, `lanePlan` the actions still to be executed, `clone`
the throwaway clone of `rebase.sh`. `pushed`, `attempts`, `notices` are history
variables that only properties read, and `lapses` counts the trackers lost, at a load
that failed or in a cycle cut short before its save.

| action | code |
|---|---|
| `PlanLane`, `PlanForgotten` | the load, `control_loop/__init__.py` 349-363 and 618: the saved tracker, or an empty one when the load fails; then `PlanFrom`, the gather and the planners of passes A and C, `merge_lane.py` 127-232; `Gate` is `apply_retry_gate` |
| `EscalatePr` | 249-252: label, comment; the cooldown was written by the planner |
| `Clone`, then `Rebased`, `EmptyRebase`, `RebaseConflict` | `rebase.sh` up to its clone, then its outcome and what 261-277 do with it |
| `LeaseLost` | the push is refused, the script exits non-zero, `check=True` raises |
| `Fail` | any other exception, or the end of the process |
| `SaveTracker` | `control_loop/__init__.py` 629-633 |
| `Expire` | `now` has reached `cooldown_until` |
| `MainMoves`, `Compute`, `ChecksReport`, `AuthorPush`, `Close` | the world, between any two of these |

Abstractions: one repository, because the seed and the meta repository have
trackers of their own and one's exception does not reach the other; bot branches
only, the planners skip all others; the cooldown is a flag, since the code
compares it with `now` and no more; the gather is one step. Pass B is left out: it
wants a title that starts with `fix: Issue #`, and the listing carries no title.
In shadow mode a cycle changes nothing. A branch is never reopened.

### SelfHeal and the code

`label`, `open`, `working`, `merged`, `age` are the items; `plan` is the state of the
run in progress, which its save writes to `saved`, and `pending` its actions.
`Cycle` is `run_self_heal` as one step: `Sweep` is a sweep with the breaker before
it, `Swept` its tracker, `Resolved` the needs-human close, `DispatchDue` the idle
signal. `Toggle` and `AddBack` are the two requests of `_h_retrigger`. Time is what
passes between two runs.

`Begin` is blank: `_cycle_selfheal` passes `SelfHealInputs(now)`, and no other caller
in the package loads what was saved. So nothing in a tracker outlives its run: the
cap and the escalation cooldown matter only between the sweeps of one run, and no
bound on heals over several runs is stated. `Feed` says where the label-filtered
lists come from: `"lists"`, a caller that gathers them as the package describes, or
`"scheduler"`, the box's, which passes none. The run uses `"lists"`: with the other one
no sweep ever sees an item, and what a sweep does to a label is not met (see
section 5). The theorems hold for both.

### Observation, StrategyAudit, Supervisor and the code

*Observation.* `issue` and `prs` are the board and the PRs, `seen` the snapshot, `todo`
what is still to execute. `forge` is `forge_kind`: GitHub's issues or Quackback's
posts. A title is a value with the keywords that are found in it (`Contains`) and the
few that `extract_keywords` takes from it, in order (`Keywords`), which is all
`is_duplicate` looks at: `Duplicate` has a direction, the later text's first keywords
against the earlier title. `Plan` has `plan_actions` with its three guards
(`Vetted`, `MayClose`, the routing of `RepoOf`); the assessment is a choice of
proposals. The executor ignores `action.repo`, and so does the model. On Quackback
`Listed` is the posts in Accepted for Build, which founders move in and out
(`Accepts`); a create is a comment when a post of that title exists in any status
(`HasPost`, `CommentInstead`); closing does nothing. Left out: GitHub's limit of
listing pages, Quackback's 500-post scan, the semantic deduper, which is off unless
configured, and gitea.

*StrategyAudit.* `row` is the persisted baseline with the last reported fingerprint;
`Audit` is a cycle up to its executor (load, measure, compare, save), `OpenIssue`
and `IssueFails` what follows. Two metrics stand for six: one that must not drop and
may be unreadable, one that must not grow and counts the audit's own issues.

*Supervisor.* `items` carry the stage `classify_stage` gives them, and their times;
`Order` is `rank_clogs`, `Fingerprint` is `material_fingerprint` and `Rank` a cycle:
load, rank, compare, save. `Action` is what the taxonomy recommends for a stage.
`Snapshot` says whether items carry their times and review states, as those of
`snapshot-clogs.sh` do, or not, as those of `snapshot_from_forge` on the box: with
`FALSE` every score is 0 and the ranking is the lowest numbers first. The run has
`TRUE`, in which rankings also change as time passes; `RankChangeIsTold` does not
depend on how the ranking came about, and is proved for both.

### ControlLoop and the code

`live` is the module that has been flipped live. A module in shadow plans and logs
and saves nothing, cycles are synchronous, and the modules share no state, so the
composition runs each of the six, live, over its own world while the others look at
a world at rest. The decision lane and the merge lane have theorems for any bounds;
here they are checked as the scheduler runs them.

## 3. Runs

| run | size | shows |
|---|---|---|
| `poller` | 1 issue, 2 PRs, 3 acts of people, operator or restart, all modes, requeue to any actionable stage; 2.8 million states | the six safety invariants; `IssuePoller` implements `IssueLifecycle` |
| `queue` | 2 issues, all modes, 1 requeue | no claimable row is overtaken twice while nothing writes it; a tagged issue settles |
| `build` | 2 issues, all 4 setups, 2 runs, ladder of 3 with 1 climb, 1 fault; 8.1 million states | what is pushed, tested, judged and armed belong together |
| `quackback` | 1 post, all modes, loop on or off, 3 acts of founders, 2 failures | the board's Shipped, founders' decisions, accepts |
| `control_loop` | each of six modules live in turn; 360 thousand states | the properties of all of them, below |
| `poller_risky`, `poller_spec_retry`, `queue_starvation`, `decision_finals`, `merge_lane_red`, `quackback_ids`, `build_spec_lost` | small | the findings of section 5 |

What `control_loop` checks of each module:

| module | properties | bounds |
|---|---|---|
| self-heal | `StageLabelKept` | 1 issue, 1 PR, cap 1, 1 loss, 1 move |
| observation | `OneOpenIssuePerTitle` | both boards, 3 words, 2 titles, 2 keywords looked for, 3 proposals of which an assessment makes 2, 3 issue numbers, 1 act, 1 failed request |
| strategy audit | `ReportedHasIssue`, `NotReportedTwice` | 2 customers, 1 stuck issue, 2 changes, 1 fault |
| supervisor | `RankChangeIsTold` | 3 items, 1 hour, 3 changes, 1 fault |
| merge lane | `CountIsExact`, `AttemptsBounded`, `NoticesSpaced`, `NoPushLost`, `BrokenIsHandled` | 1 PR, cap 2, 2 lost trackers, 2 pushes |
| decision lane | `CapHolds`, `AnswersInOrder`, `NeverTwiceUnlessFailed`, `FinalFollowsProposal`, `FeedbackIsAnswered`, `ApprovalIsDecided` | 1 decision, 3 comments, cap 3, 2 failures |

### Bounds

* `MaxPrs` = 2: the second PR exists only if the first was closed, so two
  distinguish "the PR on record" from "the open PR of the branch".
* `MaxInterference` = 3: the deepest scenario met needs a restart, a requeue and
  a label. Auto-merge, spec-PR merges and the close-on-merge workflow are outside
  the bound and always possible.
* One issue in `poller`: issues share only the clone's working tree and the
  claim. The first is `BuildGraph`'s subject, which has two issues, and the second
  `ClaimQueue`'s; the theorems hold for any set of issues.
* `MaxAttempts` is the code's 3.
* `BuildGraph` bounds the runs of recipes over all issues (`RecipesRun`), which needs
  `Issues` to be finite; the theorems hold for any finite set and any bound.
* `ClaimQueue`: two issues suffice for one row to starve another; `MaxRequeues`
  bounds the operator.
* `BuildGraph`: two issues, so that each can be the other's leftover; two runs of
  implementation, one of each issue or one and a retry of the same; the ladder is
  longer than the climbs allowed and the faults that do not cut a job short are
  counted in `MaxFaults`. Of `Setups` only langchain under langgraph and goose under
  legacy are taken, with both drivers. The theorems hold for any number of each.
* `QuackbackLane`: the promises are about one post and its interleavings; two posts
  matter to the id maps alone, and the theorems cover any number. With two posts,
  one act and one failure in live mode the properties hold over 5.9 million states.
* `MaxFinals` stops the count of finals, not the finals; three comments and a cap
  of three make the cap, one revision beyond it and a comment during each request
  all reachable.
* Merge lane: with one PR the cap of 2 (the code's `MAX_RETRIES_BEFORE_ESCALATE`),
  two racing pushes and two lost trackers make every outcome follow every other.
  Two PRs share nothing but the cycle; the theorems cover any number of PRs.
  `MaxLaneLost` matters for liveness: a PR whose script failed in every cycle would
  hold up those after it for ever, and nothing in the code prevents that.
* Self-heal: the cap is 1 where the code has 2: a run starts from no retries and two
  sweeps can heal an item, so with 2 no run escalates, and with 1 the second sweep
  does; `MaxCreates` = 1 makes the breaker trip with one item (the code has 10); the
  cutoffs differ, so that an item is stale in one lane before the other.
* Observation: `MaxKeywords` is 2 where the code has 5: titles of three keywords of which
  two are looked for are enough for a duplicate in one direction and not the other.

### Fairness

`IssuePoller` and `BuildGraph` are safety models and assume none. In `ClaimQueue`,
`WF(Reconcile)` says that a tick whose forge reads answer comes around in the end
(an aborted pass is possible at any time and not forced), `WF(ClaimNext)` that
`run_forever` goes on, `WF(Elapse)` that time passes. Failing of a stage is never
required and never excluded; what happens to PRs and issues outside is not fair.
In `QuackbackLane`, `WF` of ingest and stage steps together, a raised exception
being one way for a stage to end: `run_forever` never stops ticking. In
`DecisionLane`, `WF(DecisionCycle)`: the control loop runs the cycle on its interval
and a step that can be taken is taken, or fails, `MaxFailures` times in all. In
`MergeLane`, `WF` of `PlanLane`, `LaneExecute`, `SaveTracker` and `LeaseLost`: a cycle
goes on until it is saved or cut short; `WF(Expire)`: time passes. A load that fails
(`PlanForgotten`) is never required. `SelfHeal`, `Observation`, `StrategyAudit` and
`Supervisor` are safety models and assume none. Founders, people, GitHub, authors and
checks are nowhere fair.

Deadlock is checked in every run but `build`: an `invoke` process
that is done with its issues, or has used its bounded runs, stops.

## 4. Proofs

All theorems hold for every value of the constants within the named assumptions.

| theorem | says | argument |
|---|---|---|
| `PollerTypeOK`, `PollerBudget` | types; attempts are spent exactly when the row is `failed` | `IInv` = types, budget, and `JobOnRow`: the row a tick works on is at the claimed stage or gone. Without `JobOnRow` a tick could write over a failed row, so neither part is inductive alone |
| `PollerBuildsOnlyApproved` | gate live: no implementation is pushed without an approval the gate read | `ApprovalInv`: every trace (draft, spec branch, memory, phase past the gate) goes back to `granted`. Requeues past the gate find no spec and leave no trace, so no condition on targets is needed |
| `PollerKeepsPr`, `PollerParksArmed` | a row past implement names its PR; a parked open PR is armed | `PrInv`: every PR number held in store, memory or claimed record exists, the claimed record agrees with the row, and a row about to park has its PR armed, for issues no operator has skipped ahead. No condition on requeue targets |
| `PollerArmsRiskyOnlyIfLost` | refused content is armed only where a restart dropped the diff | `DiffInv`: as long as nothing is lost, what is remembered of the diff is what the branch has |
| `PollerImplementsLifecycle` | the refinement: every step of the poller is a step of `IssueLifecycle` on that issue's stage, or none | with `IInv` and `PrInv` each action is one of the abstract moves: a stage goes one further only from the stage the record says, into `merged` by the fact its way needs, and the ways back are named. Without `IInv` a tick could move a row an operator has requeued meanwhile |
| `QueueTypeOK` | types; of two rows one always has the earlier `updated_at` | a renewal, of one row or of a whole pass, leaves a strict total order (`RenewedIsOrder`, from the listing having each issue once). `SpentInv`: only a failed row has spent its attempts, so a back-off is one of the first two cooldowns |
| `QueueNoOvertaking` | outside shadow mode no row is claimed twice over the head of a claimable one that nothing wrote in between | `PassedInv`: whatever was claimed since `i` was last written was itself written later than `i` |
| `BuildGraphTypeOK`, `BuildPushedIsOwn`, `BuildArmedIsJudged`, `BuildParkedOrArmed`, `BuildBarredNeverArmed`, `BuildGreenIsOfTheHead` | types; what is pushed is the issue's own; what is armed was judged; one end of the ladder; what is barred is not armed; green is of the PR's head | one inductive invariant `BuildInv`, for any number of issues on the one clone. `PlaceInv` says, phase by phase, where the changes of the running job and of those before it may lie; it carries `PushedIsOwn` from `git add` to the push. `JudgedInv`: the diff that stands for an implementation covers the branch. `CodeInv`: the code of an implemented issue is in a commit and nowhere else, which makes a green result one of the head. `EndInv`, `BarInv`: the ends of the ladder, with the side effect that is not yet written, and what the gate knows. Where the state is lost between the arm and the write (`astray`) an issue may be both armed and parked, and the theorem says it is nowhere else |
| `DecisionLaneTypeOK` | types; iterations on record never exceed the cap | `PhaseInv`: a proposal is under way only below the cap, and everything but a first draft starts from a recorded proposal |
| `LaneCap` | proposals shown <= iterations + the one being recorded + failures | inductive given types: a post moves one unit to "being recorded", a record moves it on, a failure pays for it |
| `LaneAnswersInOrder` | answers follow the comments' order; the store claims none the thread lacks | `ThreadInv` (a thread answers comments that exist, only drafts before the first record) and `HeardInv` (the proposal under way answers a comment no older than any answered) |
| `LaneFinalFollowsProposal` | no final before a recorded and visible proposal | `FinalInv` with the above |
| `LaneNeverTwice` | without a failure no comment is answered twice | `FreshInv`: while nothing has failed, the last answer in a thread is the recorded one, or is being recorded, and what is being answered is newer; order makes that enough |
| `MergeLaneTypeOK`, `LaneAttempts`, `LaneCountIsExact`, `LaneNotices`, `LaneKeepsPushes` | types with the count below the cap; tries bounded by the cap, once over for each tracker lost; exact counts while none is; one notice per cooldown and one more for each tracker lost; no push lost | one inductive invariant `LaneInv`. `IdleClean`: between cycles nothing is pending. `PendingSound`: what is still to be executed was planned from an entry no one has touched since, so a rebase starts below the cap. `CloneSound`: a clone belongs to a planned rebase. `CountSound` and `NoticeSound` relate history, cycle and store, and say by how much a lost tracker, at the load or before the save, may set them apart |
| `QuackbackTypeOK`, `QuackbackShippedOnlyIfMerged`, `QuackbackMergedIsShipped`, `QuackbackDecisionStands`, `QuackbackQueuedOnlyIfAsked` | types; what Shipped and merged say of each other; the founders' decisions; no accept is queued twice | one inductive invariant over the two id maps (numbers and handles are distinct and below their counters; without the control loop no handle is given), the mirror in progress (the milestone agrees with the row and the PR), the marker (a listed post that is new, or was touched since, is one a founder asked for) |
| `AuditTypeOK`, `AuditReportedHasIssue`, `AuditNotReportedTwice` | types; unless something failed, a drift on record as reported had its issue, and no drift is reported twice in a row | `StoredInv`: the stored fingerprint is no drift or the one reported last, whatever was lost. `NewsInv`: while nothing failed, the two agree, so an unchanged drift is no news |
| `HealTypeOK`, `HealStageLabelKept` | types, with the count of a run within the cap; no heal that runs to its end hides its item from the sweeps | `StagedInv`: an item nobody moved has a stage label or the request that puts it back is pending, which with an empty queue between runs is the property; `KindInv` (issues and PRs keep to their lanes) makes a request put back the right one |
| `ObservationTypes`, `ObservationOpensOnce` | types; on GitHub nothing is opened that `is_duplicate` finds in an older issue the loop has open, on Quackback no title is posted twice | the plan is vetted against a snapshot and executed later, so the property is not inductive. On GitHub, `SnapshotInv`: while a model assesses, what the loop has open is in the snapshot, since nobody else opens in its name; `PendingInv`: what is still to be created duplicates neither what the loop has open nor what is to be created before it, which each create, failure, close and restart keeps. `NumberedInv`: numbers are given in order, so what is created is the later one, the direction `is_duplicate` looks in. On Quackback the snapshot is of no use, and `HasPost` at the create decides |
| `SupervisorTypes`, `RankingIsSorted`, `SupervisorChangeIsTold` | types; the ranking lists each rankable item once, best first; a new top three is saved and marked as changed unless a load or a save failed | `RankInv`: the top three of the last cycle is the saved one, and the saved fingerprint contains it, so a state that is dropped as immaterial has lost nothing. That `Order` is a ranking is not by construction: it chooses an item by the number of items before it, and `PlacesAreFilled` shows by counting that a finite strict total order gives every place to one item |
| `LoopImplementsModules`, `LoopTypes`, `LoopSafe` | every run of the loop is a run of each task's module; so their types and safety hold in the loop | a task's step leaves the variables of the others alone |

Assumptions are those of the modules (`PollerAssumption` and so on): bounds are
naturals, kinds and proposals are of the shape the code parses; no theorem needs the
sets of items, PRs, posts or decisions to be more than finite. What `Rank` and `Plan` choose from is
bounded by `MaxItem` and `MaxProposals`, of any value.

Only model-checked: everything under fairness (`TaggedSettles`, `AcceptIsQueued`,
`FeedbackIsAnswered`, `ApprovalIsDecided`, `BrokenIsHandled`),
which the provers do not reach. Every safety property of a passing run is a theorem.

## 5. Findings

1. `poller_risky`: the gate judges a diff that is only in memory. After a restart
   between implement and gate it judges an empty one and arms a risky PR.
   `RiskyArmedOnlyIfLost` shows that a lost scratch is the only way.
2. `poller_spec_retry`: a spec PR run that fails after its commit cannot be
   retried, against the comment at `spec_pr.py` 45: the next checkout of the branch
   from main drops the spec file.
3. `queue_starvation`: every reconcile pass renews the rows of unlabelled
   issues, so a parked PR, polled every tick, keeps them from ever being claimed.
4. `decision_finals`: finalizing records nothing, so each cycle opens another final.
5. `merge_lane_red`: a stale-base rebase that goes through clears the count, and
   whether the checks are red afterwards is never counted. A branch that is red by
   its own diff is rebased after every commit on main, for ever, against
   `selfheal/models.py` 37-39; and the comment of `stale_base.py` 87-91 ("rebased N
   times and its checks still fail") is posted when N rebases have *conflicted*.
6. `quackback_ids`: `_lookup_post_id` asks `_id_map` before the store, and the two
   number posts in different orders: with the control loop on, the merge of one post
   is written to another as Shipped. `ShippedOnlyIfMerged` shows that this is the
   only way.
7. `build_spec_lost`: preparing one issue's workspace deletes the untracked spec of
   another that waits for its spec PR; nothing has failed, and the issue fails.

### Observed without a run

*Poller.* The comment at `poller.py` 209-212 says that a crash between the gate's side
effect and its transition "would re-attempt the merge on retry". A failed write does
that; a crash loses the scratch, so the gate judges a state without tests and hands
the armed PR to a person (`astray` in `BuildGraph`), and may yet see it merge. In shadow mode a specced row is handed back untouched for ever, while the
pipeline's README has the graph go on; an issue closed by people while in flight
goes on being built, since it is no longer listed.

*Clone.* Nothing but tests calls `invoke`: the poller runs nodes one by one and
never climbs the ladder. `_materialize_spec` writes a brief into the tree, so the
langchain runner's "did anything change" check passes without a change unless the
target repository ignores it; the litter directories are spared by the clean, so
goose's check finds the deliverable of an earlier run; a spec left by a run that was
cut short is accepted as the next run's. The commit of a spec takes the whole index.
A low-confidence guess is written on the issue as its surface label although it
blocks the build, so a second call builds what the first parked, against "low
confidence ... never build" of `surface_gate.py`. `spec_content` is no channel of
`GraphState`: under langgraph the paywall in a spec is not seen by the gate; nor is one
beyond the first 6000 characters under either build, or any after a failed read of the
file.

*Quackback.* Shadow writes Building to the board though `pipeline/README.md` 51 says
it performs no network writes; a Cancel during a build may still end in an armed PR;
a re-accept keeps the attempts and the old PR; a crash between the marker and the
row loses an accept; the final Shipped is written once; a post cancelled in
awaiting_merge is not checked for drift; a status of None escalates; needs-human goes
to the GitHub issue that happens to have the store's number; `list_accepted_posts`
reads one page; the embedding cache is keyed by post and keeps a stale vector.

*Decision lane.* At the cap the votes are not read while a newer comment stands, so
that decision is never finalized; the final's text is drafted anew and is not the
text that was voted on; votes belong to the post, not to a proposal.

*Merge lane.* A load that fails is an empty tracker, and the save of that cycle writes
it over every PR's count and cooldown: a branch is tried its full number of times
again, and people are asked again within the cooldown.

*Self-heal.* On the box the sweeps see nothing, since the scheduler passes no lists.
It passes no previous state either: what a live cycle saves is read by none, so the
idle dispatch fires in every live cycle in spite of its six-hour cooldown, and were
the lists gathered, retry counts and escalation cooldowns would begin anew in every
run: with the code's cap an overdue item is toggled for ever and reaches no person.
Items that need a human count against the breaker, so they can starve the later
sweeps; triage and copilot share a tracker entry; a toggle does not renew
`createdAt`; a toggle that stops half way leaves an issue in no lane; a heal may put
back a label a worker has just taken off; the breaker's error count is never
incremented.

*Observation, strategy audit, supervisor.* `is_duplicate` takes five keywords of the
new text and none of the old one's, so a longer restatement of an open issue, with its
own words first, is opened beside it. On Quackback the snapshot has only accepted
posts, so the guard does not see what the loop itself suggested, and only an equal
title stops it. The executor ignores `action.repo`, so
an issue for the service is opened in the forge's own repository and never
deduplicated; needs-human added after the gather does not keep an issue open; a
`ValueError` in the plan skips the whole cycle. The audit's own issue counts among
the stuck issues it measures; a drift is saved as reported before its issue is
opened; the baseline is not updated while the fingerprint stands. `_MATCH_ORDER`
lacks "merge"; on the box all scores are 0; a failed load resets the run counter and
hides a change of rank; the counter counts changes, not runs.

## 6. Not modelled

The second forge (Gitea), similarity of titles and vectors, configuration, tracing
and scoring, the installer: text, numbers or plain I/O without a state the
pipeline's promises rest on. Of what is modelled, the rest is a choice: what a model
writes, what tests say, what a scanner finds, what people do. `rearm.py` plans
nothing on the box. LangGraph's recursion limit, message compaction and tool calls
of the runners, the run log and the remaining metrics of the audit are left out.

## 7. Plan

1. (done) `IssueStore`, `IssuePoller`, `IssueLifecycle`, `ClaimQueue`.
2. (done) `DecisionLane`, `MergeLane`, `QuackbackLane`, with their safety theorems.
3. (done) `BuildGraph`; `SelfHeal`, `Observation`, `StrategyAudit`, `Supervisor`
   and their composition `ControlLoop`.
4. (done) The refinement of `IssueLifecycle`; the safety of `ClaimQueue`,
   `BuildGraph`, `Observation` and `Supervisor`; the tasks under `ControlLoop`.
   Next: lemmas on the pure operators (routing, staging, drift) against what the
   code's docstrings promise.
5. Two posts with the loop on in `quackback`, two items in self-heal, once the state
   space allows it.
