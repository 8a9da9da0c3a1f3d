------------------------------- MODULE SelfHeal -------------------------------
(***************************************************************************)
(* The self-heal module of the control loop: selfheal/runner.py with its   *)
(* sweeps (sweeps.py), idle signal (signals.py), tracker and breaker, run  *)
(* by _cycle_selfheal of control_loop/__init__.py, whose actions go        *)
(* through control_loop/executor.py and whose state goes to the box store. *)
(*                                                                         *)
(* A run is planned from a snapshot in one step, then executed one forge   *)
(* request at a time, then saved; people and the workers that own the      *)
(* lanes move labels in between, requests fail, and the box may restart.   *)
(*                                                                         *)
(* Feed says who calls the planner.  "scheduler" is the caller the box     *)
(* has: _cycle_selfheal passes SelfHealInputs(now) and no lists.  "lists"  *)
(* is a caller that gathers the label-filtered lists, as the package's     *)
(* docstring describes.  Neither passes a previous state: the state a run  *)
(* saves is read by no later run, so every run starts from a blank tracker *)
(* and a cooldown runs only if the run at hand has set it.                 *)
(*                                                                         *)
(* Time is the age of an item, which stops growing once the item is stale. *)
(***************************************************************************)
EXTENDS Integers, FiniteSets

CONSTANTS
    Issues, Prs,        \* what the sweeps look at
    TheRepo,            \* the target of an action that has no number
    MaxRetries,         \* MAX_RETRIES_BEFORE_ESCALATE
    MaxCreates,         \* CIRCUIT_MAX_CREATES
    Cutoff,             \* the age at which a sweep calls an item stale
    Feed,               \* "lists" or "scheduler"
    MaxLost,            \* bound: failed requests, failed saves and restarts
    MaxMoves            \* bound: moves of people and workers

Items == Issues \cup Prs
Sweeps == {"triage", "copilot", "approved"}
From == [triage |-> "needs-triage", copilot |-> "copilot-triaging",
         approved |-> "approved-for-build"]
To == [triage |-> "needs-triage", copilot |-> "needs-triage",
       approved |-> "approved-for-build"]
StageLabels == {"needs-triage", "copilot-triaging", "approved-for-build"}
Labels == StageLabels \cup {"needs-human", "manual-only", "needs-info"}

ASSUME SelfHealAssumption ==
    /\ Issues \cap Prs = {} /\ TheRepo \notin Items /\ IsFiniteSet(Items)
    /\ MaxRetries \in Nat /\ MaxCreates \in Nat \ {0}
    /\ Cutoff \in [Sweeps -> Nat]
    /\ Feed \in {"lists", "scheduler"}
    /\ MaxLost \in Nat /\ MaxMoves \in Nat

VARIABLES
    label,      \* the labels of each item
    open,       \* the items that are open
    working,    \* items a spec or implementation PR is in progress for
    merged,     \* issues whose implementation PR is merged
    age,        \* time since an issue's createdAt, a PR's updatedAt
    saved,      \* pipeline-health-state in the box store: written, never read
    phase,      \* "idle" between two runs, "running" while actions execute
    plan,       \* the state the run in progress will save
    pending,    \* the actions of the run still to execute
    handled,    \* history: items a person or a worker moved
    cut,        \* history: items whose label toggle stopped half way
    lost,       \* history: failures and restarts so far
    moves       \* moves of people and workers so far

world == <<label, open, working, merged>>
run == <<phase, plan, pending>>
healVars == <<label, open, working, merged, age, saved, phase, plan, pending,
              handled, cut, lost, moves>>

Oldest(i) ==
    IF i \in Prs THEN Cutoff["approved"] + 1
    ELSE IF Cutoff["triage"] > Cutoff["copilot"] THEN Cutoff["triage"] + 1
    ELSE Cutoff["copilot"] + 1

\* The state of a run: the retry tracker, with the items whose escalation
\* cooldown is running, and whether it has dispatched.
Blank == [retries |-> [i \in Items |-> 0], cool |-> {}, dispatched |-> FALSE]

Actions == [sweep: Sweeps, kind: {"heal", "add", "escalate"}, item: Items]
             \cup [sweep: {"humans"}, kind: {"close"}, item: Items]
             \cup [sweep: {"breaker", "idle"}, kind: {"repo"}, item: {TheRepo}]

HealInit ==
    /\ label \in [Items -> {{"needs-triage"}, {"copilot-triaging"},
                            {"needs-triage", "copilot-triaging"},
                            {"needs-triage", "needs-human"},
                            {"approved-for-build"}}]
    /\ \A i \in Items : i \in Prs <=> label[i] = {"approved-for-build"}
    /\ open \in SUBSET Items /\ working \in SUBSET open /\ merged = {}
    /\ age = [i \in Items |-> 0]
    /\ saved = Blank /\ plan = Blank /\ phase = "idle" /\ pending = {}
    /\ handled = {} /\ cut = {}
    /\ lost = 0 /\ moves = 0

-----------------------------------------------------------------------------
(* The planner *)

\* What a sweep lists and counts as stale, and what it then acts upon.
Stale(s) ==
    IF Feed = "scheduler" THEN {}
    ELSE {i \in open :
            /\ From[s] \in label[i]
            /\ age[i] > Cutoff[s]
            /\ "manual-only" \notin label[i]
            /\ s = "triage" => "needs-info" \notin label[i] /\ i \notin merged}
Due(s, t) == {i \in Stale(s) : /\ s # "triage" => i \notin working
                               /\ i \notin t.cool}
Up(s, t) == {i \in Due(s, t) : t.retries[i] >= MaxRetries}
Heal(s, t) == Due(s, t) \ Up(s, t)

\* The tracker after a sweep.
Swept(s, t) ==
    [t EXCEPT !.retries = [i \in Items |-> IF i \in Heal(s, t) THEN @[i] + 1
                                           ELSE @[i]],
              !.cool = (@ \ Heal(s, t)) \cup Up(s, t)]

Acts(s, t) == [sweep: {s}, kind: {"heal"}, item: Heal(s, t)]
                \cup [sweep: {s}, kind: {"escalate"}, item: Up(s, t)]

\* run_self_heal: the breaker is looked at after each sweep and skips all of
\* the run that is left; only the first look announces it.
Begin == [acts |-> {}, created |-> 0, tracker |-> Blank]
Tripped(r) == r.created >= MaxCreates
Sweep(s, r) ==
    IF Tripped(r) THEN r
    ELSE [acts |-> r.acts \cup Acts(s, r.tracker),
          created |-> r.created + Cardinality(Up(s, r.tracker)),
          tracker |-> Swept(s, r.tracker)]

\* sweep_needs_human closes what a merged PR has resolved.
Resolved(r) ==
    IF Tripped(r) \/ Feed = "scheduler" THEN {}
    ELSE {i \in open \cap merged : /\ "needs-human" \in label[i]
                                  /\ "manual-only" \notin label[i]}

\* check_idle_signal and decide_idle_dispatch, which knows of no dispatch before.
NothingToDo(r) ==
    /\ r.acts = {} /\ Resolved(r) = {}
    /\ \/ Feed = "scheduler"
       \/ /\ open \cap Prs = {} /\ working = {}
          /\ \A i \in open : label[i] \cap StageLabels = {}
DispatchDue(r) ==
    ~Tripped(r) /\ NothingToDo(r) /\ ~r.tracker.dispatched

When(cond, s, k, items) == IF cond THEN [sweep: {s}, kind: {k}, item: items] ELSE {}
Planned(first, r) ==
    [acts |-> r.acts \cup When(Tripped(first), "breaker", "repo", {TheRepo})
                \cup When(TRUE, "humans", "close", Resolved(r))
                \cup When(DispatchDue(r), "idle", "repo", {TheRepo}),
     tracker |-> IF DispatchDue(r) THEN [r.tracker EXCEPT !.dispatched = TRUE]
                                   ELSE r.tracker]

Cycle ==
    /\ phase = "idle"
    /\ \E first \in {Sweep("triage", Begin)} :
       \E second \in {Sweep("copilot", first)} :
       \E p \in {Planned(first, Sweep("approved", second))} :
         /\ pending' = p.acts
         /\ plan' = p.tracker
         /\ phase' = IF p.acts = {} THEN "idle" ELSE "running"
    /\ UNCHANGED <<world, age, saved, handled, cut, lost, moves>>

-----------------------------------------------------------------------------
(* The executor: one request at a time, sweep after sweep *)

Before == [triage |-> {}, breaker |-> {"triage"},
           copilot |-> {"triage", "breaker"},
           approved |-> {"triage", "breaker", "copilot"},
           humans |-> Sweeps \cup {"breaker"},
           idle |-> Sweeps \cup {"breaker", "humans"}]
\* A toggle that has begun is finished before another action starts.
Next1(a) == /\ a \in pending
            /\ \A b \in pending : b.sweep \notin Before[a.sweep]
            /\ a.kind # "add" => \A b \in pending : b.kind # "add"

Done(a) == pending' = pending \ {a}
Written(i) == age' = IF i \in Prs THEN [age EXCEPT ![i] = 0] ELSE age
Kept == UNCHANGED <<saved, phase, plan, handled, moves>>

\* _h_retrigger: remove one label, then add the other.
Toggle(a) ==
    /\ Next1(a) /\ a.kind = "heal"
    /\ label' = [label EXCEPT ![a.item] = @ \ {From[a.sweep]}]
    /\ pending' = (pending \ {a}) \cup {[a EXCEPT !.kind = "add"]}
    /\ Written(a.item)
    /\ UNCHANGED <<open, working, merged, cut, lost>> /\ Kept

\* Fault: the toggle adds first and removes last.
AddBackThenRemove(a) ==
    /\ Next1(a) /\ a.kind = "add"
    /\ label' = [label EXCEPT ![a.item] = (@ \cup {To[a.sweep]}) \ {From[a.sweep]}]
    /\ Done(a) /\ Written(a.item)
    /\ UNCHANGED <<open, working, merged, cut, lost>> /\ Kept

AddBack(a) ==
    /\ Next1(a) /\ a.kind = "add"
    /\ label' = [label EXCEPT ![a.item] = @ \cup {To[a.sweep]}]
    /\ Done(a) /\ Written(a.item)
    /\ UNCHANGED <<open, working, merged, cut, lost>> /\ Kept

\* _h_escalate: a comment, then needs-human.
Escalate(a) ==
    /\ Next1(a) /\ a.kind = "escalate"
    /\ label' = [label EXCEPT ![a.item] = @ \cup {"needs-human"}]
    /\ Done(a) /\ Written(a.item)
    /\ UNCHANGED <<open, working, merged, cut, lost>> /\ Kept

CloseNeedsHuman(a) ==
    /\ Next1(a) /\ a.kind = "close"
    /\ open' = open \ {a.item}
    /\ Done(a)
    /\ UNCHANGED <<label, working, merged, age, cut, lost>> /\ Kept

\* A breaker issue or a workflow dispatch.
OnRepo(a) ==
    /\ Next1(a) /\ a.kind = "repo"
    /\ Done(a)
    /\ UNCHANGED <<world, age, cut, lost>> /\ Kept

\* execute_action records the error and the batch goes on.  A heal whose
\* first request fails does nothing; one whose second fails is left half done.
ActionFails(a) ==
    /\ Next1(a) /\ lost < MaxLost
    /\ Done(a)
    /\ cut' = IF a.kind = "add" THEN cut \cup {a.item} ELSE cut
    /\ lost' = lost + 1
    /\ UNCHANGED <<world, age>> /\ Kept

\* The run had actions, so it is material: its state is saved, or the save
\* fails and is only logged.
Save ==
    /\ phase = "running" /\ pending = {}
    /\ saved' = plan
    /\ phase' = "idle"
    /\ UNCHANGED <<world, age, plan, pending, handled, cut, lost, moves>>

SaveFails ==
    /\ phase = "running" /\ pending = {} /\ lost < MaxLost
    /\ phase' = "idle" /\ lost' = lost + 1
    /\ UNCHANGED <<world, age, saved, plan, pending, handled, cut, moves>>

Restart ==
    /\ phase = "running" /\ lost < MaxLost
    /\ phase' = "idle" /\ pending' = {} /\ lost' = lost + 1
    /\ cut' = cut \cup {a.item : a \in {b \in pending : b.kind = "add"}}
    /\ UNCHANGED <<world, age, saved, plan, handled, moves>>

-----------------------------------------------------------------------------
(* Time, people and the workers that own the lanes *)

\* Fault: an age grows past what a sweep tells apart.
MorePast(n, top) == IF n <= top THEN n + 1 ELSE top

More(n, top) == IF n < top THEN n + 1 ELSE top

\* Time passes between two runs.
Tick ==
    /\ phase = "idle"
    /\ age' = [i \in Items |-> More(age[i], Oldest(i))]
    /\ UNCHANGED <<world, saved, phase, plan, pending, handled, cut, lost, moves>>

Moved(i) ==
    /\ i \in open /\ moves < MaxMoves
    /\ moves' = moves + 1
    /\ handled' = handled \cup {i}
    /\ UNCHANGED <<age, saved, phase, plan, pending, cut, lost>>

\* A worker takes the item on: out of its lane, or from triage to the next.
TakesOn(i) ==
    \E lane \in {{}} \cup (IF i \in Issues THEN {{"copilot-triaging"}} ELSE {}) :
        /\ label' = [label EXCEPT ![i] = (@ \ StageLabels) \cup lane]
        /\ Moved(i) /\ UNCHANGED <<open, working, merged>>

Holds(i) ==
    \E l \in {"manual-only", "needs-info"} :
        /\ label' = [label EXCEPT ![i] = @ \cup {l}]
        /\ Moved(i) /\ UNCHANGED <<open, working, merged>>

OpensPr(i) ==
    /\ i \notin merged
    /\ working' = working \cup {i}
    /\ Moved(i) /\ UNCHANGED <<label, open, merged>>

MergesPr(i) ==
    /\ i \in Issues \cap working
    /\ working' = working \ {i} /\ merged' = merged \cup {i}
    /\ Moved(i) /\ UNCHANGED <<label, open>>

Closes(i) ==
    /\ open' = open \ {i}
    /\ Moved(i) /\ UNCHANGED <<label, working, merged>>

Others == \E i \in Items : \/ TakesOn(i) \/ Holds(i) \/ Closes(i)
                          \/ OpensPr(i) \/ MergesPr(i)

Execute == \E a \in pending : \/ Toggle(a) \/ AddBack(a) \/ Escalate(a)
                              \/ CloseNeedsHuman(a) \/ OnRepo(a)
Fails == \/ \E a \in pending : ActionFails(a)
         \/ SaveFails \/ Restart

HealNext == Cycle \/ Execute \/ Save \/ Tick \/ Fails \/ Others
HealSpec == HealInit /\ [][HealNext]_healVars

-----------------------------------------------------------------------------
(* Properties *)

States == [retries: [Items -> 0 .. MaxRetries], cool: SUBSET Items, dispatched: BOOLEAN]
SelfHealTypeOK ==
    /\ label \in [Items -> SUBSET Labels]
    /\ open \subseteq Items /\ working \subseteq Items /\ merged \subseteq Issues
    /\ age \in [Items -> Nat] /\ \A i \in Items : age[i] <= Oldest(i)
    /\ saved \in States /\ plan \in States
    /\ phase \in {"idle", "running"} /\ pending \subseteq Actions
    /\ handled \subseteq Items /\ cut \subseteq Items
    /\ lost \in 0 .. MaxLost /\ moves \in 0 .. MaxMoves

\* Between runs an open item has its stage label unless a person or worker
\* moved it or a toggle stopped half way: a heal that runs to its end leaves
\* the item where a sweep will find it.
StageLabelKept ==
    phase = "idle" =>
        \A i \in open \ (handled \cup cut) : label[i] \cap StageLabels # {}
=============================================================================
