----------------------------- MODULE BuildGraph ------------------------------
(***************************************************************************)
(* The nodes of the build graph on the box's one clone of the target       *)
(* repository: spec, spec_pr, implement, review and gate (graph/nodes/),   *)
(* the recipe runners they call (goose/runner.py, langchain_agent/), and   *)
(* the verification of a branch (verification.py).                         *)
(*                                                                         *)
(* Two drivers run them.  The poller runs one node of one issue per tick,  *)
(* so the nodes of several issues alternate on the same clone.  invoke     *)
(* (graph/build.py, graph/build_lg.py) takes one issue through all of them *)
(* and climbs the ladder of models when the gate's refusal is retryable.   *)
(*                                                                         *)
(* What a working tree holds is a set of changes over origin/main, which   *)
(* stands still; mode is live.  Of the three places a change can be in --  *)
(* committed, staged, only in the tree -- git commands move it between     *)
(* them as they do in the code.                                            *)
(***************************************************************************)
EXTENDS Integers, FiniteSets

CONSTANTS
    Issues, NoIssue,
    LadderLength,       \* ladder_length_for(stage_routing, "implement")
    MaxEscalations,     \* config.max_escalation_attempts
    Setups,             \* [graph, executor, driver] a process may be configured with
    MaxRuns,            \* bound: implementation recipes run, over all issues
    MaxFaults           \* bound: jobs cut short, restarts of the box, commits others
                        \* push to a PR's branch, and invoke called once more

ASSUME BuildAssumption ==
    /\ IsFiniteSet(Issues) /\ NoIssue \notin Issues
    /\ Setups \subseteq [graph: {"legacy", "langgraph"},      \* config.graph_impl
                         executor: {"goose", "langchain"},   \* config.executor
                         driver: {"poller", "invoke"}]
    /\ LadderLength \in Nat \ {0} /\ MaxEscalations \in Nat
    /\ MaxRuns \in Nat /\ MaxFaults \in Nat

VARIABLES
    setup,      \* the configuration of this process
    head,       \* changes in the commit that is checked out
    index,      \* changes staged on top of it
    tree,       \* changes in the working tree only
    local,      \* [Issues -> changes in the local branch bot/impl-N]
    remote,     \* [Branches -> changes in the branch on GitHub]
    stage,      \* the issue's stage
    memory,     \* what the graph state remembers of the issue
    tier,       \* escalation_tier
    runs,       \* implementation recipes run so far
    wall,       \* whether the issue's spec describes a component paywall, and where
    surface,    \* [Issues -> what the issue's surface label says, if it has one]
    unsure,     \* history: issues labelled from a guess below MIN_CONFIDENCE
    again,      \* history: issues invoke was called for once more
    tested,     \* history, from review to gate: the changes the verification ran on
    armed,      \* issues whose PR has auto-merge enabled
    parked,     \* issues with needs-human
    job,        \* the node that is running, and the commit its branch started from
    base,       \* history: [Branches -> the commit the pushed branch started from]
    leaked,     \* history: changes a job that was cut short left staged
    forgot,     \* history: issues a restart lost the memory of
    astray,     \* history: issues armed, and forgotten before that was written
    blind,      \* history, from review to gate: verified without reaching the PR's head
    faults

config == <<setup, surface, unsure, again>>
clone == <<head, index, tree, local>>
github == <<remote, base, armed, parked>>
progress == <<stage, tier, runs>>
learned == <<memory, wall, tested, blind>>
past == <<leaked, forgot, astray, faults>>
buildVars == <<config, clone, github, progress, learned, past, job>>

-----------------------------------------------------------------------------
(* Changes, and the places they are in *)

Kinds == {"code", "spec", "stray", "output", "brief", "pushed"}
Change == [of: Issues, kind: Kinds, run: 0..MaxRuns]
Code(i, n) == [of |-> i, kind |-> "code", run |-> n]
SpecFile(i) == [of |-> i, kind |-> "spec", run |-> 0]     \* specs/issue-N-spec.md
Stray(i) == [of |-> i, kind |-> "stray", run |-> 0]       \* another file, by the spec's agent
Output(i) == [of |-> i, kind |-> "output", run |-> 0]     \* pipeline-output/issue-N.diff
Brief(i) == [of |-> i, kind |-> "brief", run |-> 0]       \* pipeline-output/issue-N-spec.md
Pushed(i) == [of |-> i, kind |-> "pushed", run |-> 0]     \* a commit by somebody else

\* MODEL_LITTER_DIRS: git clean is told to spare them.
IsLitter(c) == c.kind \in {"output", "brief"}
Litter(s) == {c \in s : IsLitter(c)}
Branches == Issues \X {"spec", "impl"}
Present == head \union index \union tree

NoMemory == [diff |-> {}, wall |-> FALSE, safe |-> FALSE, tests |-> FALSE]
NoJob == [issue |-> NoIssue, at |-> "idle", from |-> {}]
Surfaces == {"product", "service"}
Stages == {"queued", "triaged", "specced", "spec_ready", "implemented",
           "reviewed", "awaiting_merge", "escalated", "failed"}
Points == {"idle", "next", "spec_added", "spec_committed", "prepared", "ran",
           "added", "staged", "committed", "pushed", "armed", "parked"}

\* A paywall in the first _SPEC_EXCERPT_LIMIT characters of a spec that can be
\* read back is in the excerpt; any other is beyond it.
Walls == {"none", "excerpt", "beyond"}

Init ==
    /\ setup \in Setups
    /\ head = {} /\ index = {} /\ tree = {}
    /\ local = [i \in Issues |-> {}]
    /\ base = [b \in Branches |-> {}] /\ remote = [b \in Branches |-> {}]
    /\ stage = [i \in Issues |-> "queued"]
    /\ memory = [i \in Issues |-> NoMemory]
    /\ tier = [i \in Issues |-> 0] /\ runs = [i \in Issues |-> 0]
    /\ wall = [i \in Issues |-> "none"]
    /\ surface \in [Issues -> Surfaces \union {"none"}]
    /\ setup.driver = "poller" => \A i \in Issues : surface[i] = "none"   \* not asked
    /\ unsure = {} /\ again = {}
    /\ tested = [i \in Issues |-> {}]
    /\ armed = {} /\ parked = {} /\ job = NoJob
    /\ leaked = {} /\ forgot = {} /\ astray = {} /\ blind = {} /\ faults = 0

-----------------------------------------------------------------------------
(* The drivers *)

\* A node may start: the poller claims any issue whose node is not running
\* (ClaimQueue has the order), invoke goes on with the issue it was called for.
MayStart(i, s) ==
    /\ stage[i] = s
    /\ \/ job = NoJob /\ (setup.driver = "invoke" => s = "queued")
       \/ job.issue = i /\ job.at = "next"

At(i, point) == job.issue = i /\ job.at = point
StartAt(i, point) == job' = [issue |-> i, at |-> point, from |-> head']
GoTo(point) == job' = [job EXCEPT !.at = point]
GoOn(i, point) == job' = [NoJob EXCEPT !.issue = i, !.at = point]

\* The node has returned: the poller writes the stage and the tick is over,
\* invoke calls the next node.
Done(i, s) ==
    /\ stage' = [stage EXCEPT ![i] = s]
    /\ IF setup.driver = "invoke" /\ s \notin {"awaiting_merge", "escalated"}
       THEN GoOn(i, "next") ELSE job' = NoJob

\* The node has raised: the poller leaves the stage for a later tick, the
\* call of invoke is over.
Raise(i) ==
    /\ job' = NoJob
    /\ stage' = IF setup.driver = "invoke" THEN [stage EXCEPT ![i] = "failed"] ELSE stage

-----------------------------------------------------------------------------
(* git on the shared clone *)

\* checkout -B of a branch at a commit: what is staged or only in the tree
\* comes along, and git refuses where it would overwrite it.
MayRefuse(target) == index \union tree # {} /\ head # target

\* checkout -B branch origin/main, or checkout -B branch where HEAD is when
\* git refuses.
StartBranch == head' = {} \/ (MayRefuse({}) /\ head' = head)

\* Fault: the workspace of the last job is taken over as it is.
CleanedNot(t) == t

\* checkout -- . and clean -fd: the tree is taken back to the index, untracked
\* files go, litter stays.
Cleaned(t) == Litter(t)

-----------------------------------------------------------------------------
(* triage_node, run_surface_gate *)

\* resolve_issue_surface: the label decides; without one the classifier guesses,
\* and a classifier that fails, or is not there, knows nothing.
Resolutions(i) ==
    IF surface[i] # "none" THEN {[surface |-> surface[i], sure |-> TRUE]}
    ELSE [surface: Surfaces \union {"unknown"}, sure: BOOLEAN]

\* decide_surface_gate: only what is a product for sure is built.
Builds(r) == r.surface = "product" /\ r.sure

\* What is classified is written on the issue, sure or not: the next time the
\* label decides.
Persist(i, r) ==
    /\ surface' = IF r.surface \in Surfaces THEN [surface EXCEPT ![i] = r.surface]
                                           ELSE surface
    /\ unsure' = IF r.surface = "product" /\ ~r.sure THEN unsure \union {i} ELSE unsure

\* The poller runs triage alone; invoke asks the surface gate too.
Triage(i) ==
    /\ MayStart(i, "queued")
    /\ IF setup.driver = "poller" THEN UNCHANGED <<surface, unsure>>
       ELSE \E r \in Resolutions(i) : Builds(r) /\ Persist(i, r)
    /\ Done(i, "triaged")
    /\ UNCHANGED <<setup, again, clone, github, learned, tier, runs, past>>

\* wont-do or needs-info at triage, or not for this builder: the issue is a
\* human's.
ParkAtTriage(i) ==
    /\ MayStart(i, "queued")
    /\ \/ UNCHANGED <<surface, unsure>>
       \/ /\ setup.driver = "invoke"
          /\ \E r \in Resolutions(i) : ~Builds(r) /\ Persist(i, r)
    /\ parked' = parked \union {i}
    /\ Done(i, "escalated")
    /\ UNCHANGED <<setup, again, clone, remote, base, armed, learned, tier, runs, past>>

\* A person takes needs-human off, and invoke is called with a new state.
InvokeAgain(i) ==
    /\ setup.driver = "invoke" /\ job = NoJob /\ faults < MaxFaults
    /\ stage[i] \in {"escalated", "failed"}
    /\ stage' = [stage EXCEPT ![i] = "queued"]
    /\ memory' = [memory EXCEPT ![i] = NoMemory] /\ tier' = [tier EXCEPT ![i] = 0]
    /\ parked' = parked \ {i}
    /\ again' = again \union {i} /\ faults' = faults + 1
    /\ astray' = astray \union ({i} \intersect armed)
    /\ UNCHANGED <<setup, surface, unsure, clone, remote, base, armed, wall, tested,
                   blind, runs, leaked, forgot, job>>

-----------------------------------------------------------------------------
(* run_recipe: what a runner makes of the tree its agent has left *)

Failed(t) == [tree |-> t, ok |-> FALSE]

\* goose: an exit code or the time limit fails the run.  With exit code 0 the
\* deliverable has to be there, whoever wrote it; where it is not, what the
\* agent printed is saved in its place when there is enough of it.
GooseRun(t, deliverable) ==
    {Failed(t)} \union
    IF deliverable \in head \union index \union t
    THEN {[tree |-> t, ok |-> TRUE]}
    ELSE {[tree |-> t \union {deliverable}, ok |-> TRUE]}

\* langchain: the time limit, the provider or the last iteration fails the run.
\* An implementation that ends, or runs out of iterations, is one when git
\* status finds anything, untracked files included; any other recipe when the
\* deliverable is there.
LangchainRun(t, deliverable, implementing) ==
    {Failed(t)} \union
    IF IF implementing THEN index \union t # {}
                       ELSE deliverable \in head \union index \union t
    THEN {[tree |-> t, ok |-> TRUE]} ELSE {}

RunRecipe(t, deliverable, implementing) ==
    IF setup.executor = "goose" THEN GooseRun(t, deliverable)
    ELSE LangchainRun(t, deliverable, implementing)

-----------------------------------------------------------------------------
(* spec_node, spec_pr_node *)

\* spec_content: an excerpt of the file, and no channel of the langgraph state,
\* which drops it.
Kept(w) == w = "excerpt" /\ setup.graph = "legacy"

\* A run that went well may still have left a transcript for a spec: that is
\* an error too, and the file stays.
Spec(i) ==
    /\ MayStart(i, "triaged")
    /\ \E written \in SUBSET {SpecFile(i), Stray(i)} :
       \E result \in RunRecipe(tree \union (written \ (head \union index)), SpecFile(i), FALSE) :
          /\ tree' = result.tree
          /\ \/ /\ result.ok
                /\ \E w \in Walls :
                      /\ wall' = [wall EXCEPT ![i] = w]
                      /\ memory' = [memory EXCEPT ![i].wall = Kept(w)]
                /\ Done(i, "specced")
             \/ UNCHANGED <<memory, wall>> /\ Raise(i)
    /\ UNCHANGED <<config, head, index, local, github, tested, blind, tier, runs,
                   past>>

\* _prepare_spec_branch up to git add, which fails when the file is gone.
AddSpec(i) ==
    /\ MayStart(i, "specced")
    /\ StartBranch
    /\ LET there == SpecFile(i) \in head' \union index \union tree
       IN  /\ index' = IF there THEN index \union ({SpecFile(i)} \intersect tree) ELSE index
           /\ tree' = IF there THEN tree \ {SpecFile(i)} ELSE tree
           /\ IF there THEN StartAt(i, "spec_added") /\ UNCHANGED stage ELSE Raise(i)
    /\ UNCHANGED <<config, local, github, learned, tier, runs, past>>

\* git commit takes the whole index, whatever is in it.
CommitSpec(i) ==
    /\ At(i, "spec_added")
    /\ head' = head \union index /\ index' = {}
    /\ GoTo("spec_committed")
    /\ UNCHANGED <<config, tree, local, github, learned, progress, past>>

\* push --force, then the PR and the labels.
OpenSpecPr(i) ==
    /\ At(i, "spec_committed")
    /\ remote' = [remote EXCEPT ![<<i, "spec">>] = head]
    /\ base' = [base EXCEPT ![<<i, "spec">>] = job.from]
    /\ Done(i, "spec_ready")
    /\ UNCHANGED <<config, clone, armed, parked, learned, tier, runs, past>>

-----------------------------------------------------------------------------
(* implement_node *)

\* On tier 0 a diff that is remembered stands for a run: no recipe, no push.
Remembers(i) == tier[i] = 0 /\ memory[i].diff # {}

\* The implementation recipes run so far, by issue and number.
RecipesRun == {r \in Issues \X (1..MaxRuns) : r[2] <= runs[r[1]]}

\* _materialize_spec and _prepare_impl_workspace.
Prepare(i) ==
    /\ MayStart(i, "spec_ready")
    /\ ~Remembers(i)
    /\ Cardinality(RecipesRun) < MaxRuns
    /\ StartBranch
    /\ local' = [local EXCEPT ![i] = head']
    /\ tree' = Cleaned(tree) \union {Brief(i)}
    /\ runs' = [runs EXCEPT ![i] = @ + 1]
    /\ StartAt(i, "prepared")
    /\ UNCHANGED <<config, index, github, learned, stage, tier, past>>

\* What the agent may leave in the tree; only goose's recipe asks for the diff
\* as a file.
Writable(i) ==
    {Code(i, runs[i])} \union IF setup.executor = "goose" THEN {Output(i)} ELSE {}

Run(i) ==
    /\ At(i, "prepared")
    /\ \E written \in SUBSET Writable(i) :
       \E result \in RunRecipe(tree \union (written \ index), Output(i), TRUE) :
          /\ tree' = result.tree
          /\ IF result.ok THEN GoTo("ran") /\ UNCHANGED stage ELSE Raise(i)
    /\ UNCHANGED <<config, head, index, local, github, learned, tier, runs, past>>

\* git add -A.
AddAll(i) ==
    /\ At(i, "ran")
    /\ index' = index \union tree /\ tree' = {}
    /\ GoTo("added")
    /\ UNCHANGED <<config, head, local, github, learned, progress, past>>

\* git reset of the litter directories; a tree without changes is an error.
Unstaged(s) == Litter(s)
ResetLitter(i) ==
    /\ At(i, "added")
    /\ index' = index \ Unstaged(index) /\ tree' = tree \union Unstaged(index)
    /\ IF index' = {} THEN Raise(i) ELSE GoTo("staged") /\ UNCHANGED stage
    /\ UNCHANGED <<config, head, local, github, learned, tier, runs, past>>

CommitImpl(i) ==
    /\ At(i, "staged")
    /\ head' = head \union index /\ index' = {}
    /\ local' = [local EXCEPT ![i] = head']
    /\ GoTo("committed")
    /\ UNCHANGED <<config, tree, github, learned, progress, past>>

\* Fault: a branch that is there already is not forced.
PushOnce(i) ==
    /\ At(i, "committed")
    /\ remote' = IF remote[<<i, "impl">>] = {}
                 THEN [remote EXCEPT ![<<i, "impl">>] = local[i]] ELSE remote
    /\ base' = [base EXCEPT ![<<i, "impl">>] = job.from]
    /\ GoTo("pushed")
    /\ UNCHANGED <<config, clone, armed, parked, learned, progress, past>>

\* git push --force.
Push(i) ==
    /\ At(i, "committed")
    /\ remote' = [remote EXCEPT ![<<i, "impl">>] = local[i]]
    /\ base' = [base EXCEPT ![<<i, "impl">>] = job.from]
    /\ GoTo("pushed")
    /\ UNCHANGED <<config, clone, armed, parked, learned, progress, past>>

\* _ensure_impl_pr, and the state the node returns: the diff that was staged.
\* The poller keeps the state before it writes the row: when that write fails
\* the next tick finds the diff remembered.
Implemented(i) ==
    /\ At(i, "pushed")
    /\ memory' = [memory EXCEPT ![i].diff = local[i] \ job.from]
    /\ \/ Done(i, "implemented") /\ UNCHANGED faults
       \/ /\ setup.driver = "poller" /\ faults < MaxFaults
          /\ faults' = faults + 1 /\ Raise(i)
    /\ UNCHANGED <<config, clone, github, wall, tested, blind, tier, runs, leaked, forgot,
                   astray>>

ImplementAgain(i) ==
    /\ MayStart(i, "spec_ready")
    /\ Remembers(i)
    /\ Done(i, "implemented")
    /\ UNCHANGED <<config, clone, github, learned, tier, runs, past>>

-----------------------------------------------------------------------------
(* review_node *)

\* Fault: the local branch vouches for the PR.
LocalHead(i) == local[i]

PrHead(i) == remote[<<i, "impl">>]

\* run_verification: fetch the PR's head and check it out; when GitHub is not
\* reached or git refuses, the local branch; when git refuses that too, the
\* tests have failed.
CheckedOut(i, reached, refused) ==
    IF reached /\ ~refused THEN PrHead(i) ELSE local[i]

\* go build, go test and go vet decide; what does not run, or not in time, is red.
Verdicts(stuck) == IF stuck THEN {FALSE} ELSE BOOLEAN

\* sanitise.sh is run on the diff here (and may time out on any), classify_risk at
\* the gate: together they are what the state remembers as safe.
Review(i) ==
    /\ MayStart(i, "implemented")
    /\ \E reached, refused, stuck, safe \in BOOLEAN : \E green \in Verdicts(stuck) :
          /\ refused => reached /\ MayRefuse(PrHead(i))
          /\ stuck => (~reached \/ refused) /\ MayRefuse(local[i])
          /\ head' = IF stuck THEN head ELSE CheckedOut(i, reached, refused)
          /\ local' = IF reached /\ ~refused THEN [local EXCEPT ![i] = PrHead(i)] ELSE local
          /\ tested' = [tested EXCEPT ![i] =
                           IF stuck THEN {} ELSE head' \union index \union tree]
          /\ memory' = [memory EXCEPT ![i].tests = green, ![i].safe = safe]
          /\ blind' = IF reached /\ ~refused THEN blind \ {i} ELSE blind \union {i}
    /\ Done(i, "reviewed")
    /\ UNCHANGED <<config, index, tree, github, wall, tier, runs, past>>

-----------------------------------------------------------------------------
(* gate_node, the ladder *)

\* Fault: the paywall is looked for in the diff alone.
DecideOnDiff(i) ==
    IF ~memory[i].safe THEN "refuse"
    ELSE IF memory[i].tests THEN "merge" ELSE "retryable"

\* detect_component_paywall, on what the state remembers of the spec.
Paywalled(i) == memory[i].wall

\* decide_gate: risk, sanitise and the paywall refuse for good, red tests may
\* be tried again.  A state that was lost is not sanitised and not tested.
Decide(i) ==
    IF ~memory[i].safe \/ Paywalled(i) THEN "refuse"
    ELSE IF memory[i].tests THEN "merge" ELSE "retryable"

\* Fault: the climb is counted one too few.
CanRetryOnce(i) ==
    /\ setup.driver = "invoke"
    /\ tier[i] + 1 <= LadderLength
    /\ tier[i] <= MaxEscalations

\* can_retry.
CanRetry(i) ==
    /\ setup.driver = "invoke"
    /\ tier[i] + 1 < LadderLength
    /\ tier[i] < MaxEscalations         \* the attempts count the same climbs

\* Fault: every pass of the gate acts on its verdict.
EffectOfEveryPass(i) == parked \union {i}

\* Only the verdict that ends the ladder has an effect outside.
EffectOfRetry(i) == parked

Retries(i) == Decide(i) = "retryable" /\ CanRetry(i)

\* apply_gate_side_effects of the last verdict: auto-merge is enabled, or
\* needs-human is put on the issue.  The row is written after it.
Gate(i) ==
    /\ MayStart(i, "reviewed")
    /\ \/ /\ Decide(i) = "merge"
          /\ armed' = armed \union {i} /\ UNCHANGED parked
          /\ GoOn(i, "armed") /\ UNCHANGED <<stage, tier>>
       \/ /\ Retries(i)
          /\ parked' = EffectOfRetry(i) /\ UNCHANGED armed
          /\ tier' = [tier EXCEPT ![i] = @ + 1]
          /\ Done(i, "spec_ready")
       \/ /\ Decide(i) # "merge" /\ ~Retries(i)
          /\ parked' = parked \union {i} /\ UNCHANGED armed
          /\ GoOn(i, "parked") /\ UNCHANGED <<stage, tier>>
    /\ tested' = [tested EXCEPT ![i] = {}] /\ blind' = blind \ {i}
    /\ UNCHANGED <<config, clone, remote, base, memory, wall, runs, past>>

\* The poller's transition; invoke returns to its caller.
GateWritten(i) ==
    /\ \/ At(i, "armed") /\ Done(i, "awaiting_merge")
       \/ At(i, "parked") /\ Done(i, "escalated")
    /\ UNCHANGED <<config, clone, github, learned, tier, runs, past>>

-----------------------------------------------------------------------------
(* What goes wrong, and what others do *)

\* A git command times out, a call to GitHub fails, the disk is full: the node
\* raises where it is.
Cut ==
    /\ job # NoJob /\ faults < MaxFaults
    /\ faults' = faults + 1
    /\ leaked' = leaked \union index
    /\ Raise(job.issue)
    /\ UNCHANGED <<config, clone, github, learned, tier, runs, forgot, astray>>

\* The box restarts: the clone is on the disk, what the graph remembers is not.
Restart ==
    /\ faults < MaxFaults
    /\ faults' = faults + 1
    /\ leaked' = leaked \union index
    /\ memory' = [i \in Issues |-> NoMemory]
    /\ forgot' = forgot \union {i \in Issues : memory[i] # NoMemory}
    /\ astray' = astray \union {i \in armed : stage[i] # "awaiting_merge"}
    /\ IF job = NoJob THEN UNCHANGED <<job, stage>> ELSE Raise(job.issue)
    /\ UNCHANGED <<config, clone, github, wall, tested, blind, tier, runs>>

\* A person, or the merge lane, pushes to the PR's branch.
OthersPush(i) ==
    /\ remote[<<i, "impl">>] # {} /\ faults < MaxFaults
    /\ faults' = faults + 1
    /\ remote' = [remote EXCEPT ![<<i, "impl">>] = @ \union {Pushed(i)}]
    /\ UNCHANGED <<config, clone, base, armed, parked, learned, progress, leaked,
                   forgot, astray, job>>

Node(i) ==
    \/ Triage(i) \/ ParkAtTriage(i)
    \/ Spec(i) \/ AddSpec(i) \/ CommitSpec(i) \/ OpenSpecPr(i)
    \/ Prepare(i) \/ Run(i) \/ AddAll(i) \/ ResetLitter(i) \/ CommitImpl(i)
    \/ Push(i) \/ Implemented(i) \/ ImplementAgain(i)
    \/ Review(i) \/ Gate(i) \/ GateWritten(i)
Next ==
    \/ \E i \in Issues : Node(i) \/ InvokeAgain(i) \/ OthersPush(i)
    \/ Cut \/ Restart
BuildSpec == Init /\ [][Next]_buildVars

-----------------------------------------------------------------------------
(* Properties *)

Memory == [diff: SUBSET Change, wall: BOOLEAN, safe: BOOLEAN, tests: BOOLEAN]
BuildTypeOK ==
    /\ setup \in Setups
    /\ head \subseteq Change /\ index \subseteq Change /\ tree \subseteq Change
    /\ local \in [Issues -> SUBSET Change]
    /\ base \in [Branches -> SUBSET Change] /\ remote \in [Branches -> SUBSET Change]
    /\ stage \in [Issues -> Stages]
    /\ memory \in [Issues -> Memory]
    /\ tier \in [Issues -> 0..(LadderLength - 1)]
    /\ \A i \in Issues : tier[i] <= MaxEscalations
    /\ runs \in [Issues -> 0..MaxRuns]
    /\ wall \in [Issues -> Walls]
    /\ surface \in [Issues -> Surfaces \union {"none"}]
    /\ unsure \subseteq Issues /\ again \subseteq Issues
    /\ tested \in [Issues -> SUBSET Change]
    /\ armed \subseteq Issues /\ parked \subseteq Issues
    /\ job \in [issue: Issues \union {NoIssue}, at: Points, from: SUBSET Change]
    /\ leaked \subseteq Change
    /\ forgot \subseteq Issues /\ astray \subseteq Issues /\ blind \subseteq Issues
    /\ faults \in 0..MaxFaults

\* implement.py: "none of it may ever reach an impl commit" (model litter), and
\* a clean workspace for every implementation.  A branch that is pushed has
\* another issue's change only where a job that was cut short had left it
\* staged, or with the commit the branch had to start from because git refused
\* origin/main; and no litter but with that commit.
PushedIsOwn ==
    \A b \in Branches : \A c \in remote[b] \ base[b] :
        /\ c.of = b[1] \/ c \in leaked
        /\ b[2] = "impl" => ~IsLitter(c)

\* What auto-merge is enabled on is what the gate has judged: every change of
\* the PR was in the diff, unless it came with the commit the branch started
\* from, somebody else pushed it, or the diff was lost, by a restart or by a
\* second call of invoke on a PR the first had armed and not written.
ArmedIsJudged ==
    \A i \in armed \ (forgot \union astray) :
        remote[<<i, "impl">>] \ (base[<<i, "impl">>] \union {Pushed(i)})
            \subseteq memory[i].diff

\* poller.py:209-212, a side effect whose transition is lost is done again: the
\* verdict after a failed write is the one before it, and the ladder acts on its
\* last verdict only.  No issue is both handed to a person and set to merge by
\* itself, unless its state was lost between the arm and the write: then the
\* gate judges a state that has no tests, and hands the armed PR to a person.
ParkedOrArmed == armed \intersect parked \subseteq astray

\* A spec whose excerpt describes a component paywall is not merged unseen, nor,
\* by invoke, anything that is not a product: the paywall is missed only where
\* the excerpt was lost, by a restart, by the langgraph state or by a second
\* call of invoke, and what was a product by a guess below MIN_CONFIDENCE is
\* built by a second call only.  A paywall beyond the excerpt is nobody's.
BarredNeverArmed ==
    \A i \in armed :
        /\ wall[i] = "excerpt" => i \in forgot \union astray \/ setup.graph = "langgraph"
        /\ setup.driver = "invoke" => surface[i] = "product"
        /\ i \in unsure => i \in again

\* A green verification is one of the PR's head: everything on it was there
\* when the tests ran, and of its own issue no code that is not on it; leftovers
\* of other issues and litter may have been in the tree.
GreenIsOfTheHead ==
    [][\A i \in Issues :
          stage[i] = "implemented" /\ stage'[i] = "reviewed" /\ memory'[i].tests
          /\ i \notin blind' =>
             /\ remote[<<i, "impl">>] \subseteq tested'[i]
             /\ \A c \in tested'[i] \ remote[<<i, "impl">>] :
                   c.of = i => c.kind # "code"]_buildVars

\* docs/plans/2026-06-07-001-feat-langgraph-hetzner-pipeline-plan.md:144, "each
\* issue advances one stage per tick, with state persisted between ticks": the
\* spec of an issue that waits for its spec PR is still there when its turn
\* comes, as long as nothing has gone wrong with a job of its own.
SpecPersists ==
    \A i \in Issues : stage[i] = "specced" /\ faults = 0 => SpecFile(i) \in Present
=============================================================================
