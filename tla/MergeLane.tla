----------------------------- MODULE MergeLane -----------------------------
(***************************************************************************)
(* The merge lane of the control loop, live, on one repository: each cycle *)
(* lists the open bot pull requests, plans pass A (CONFLICTING: rebase)    *)
(* and pass C (MERGEABLE, behind main and red: rebase), executes the plan  *)
(* action by action, and saves the retry tracker at the end.  The world    *)
(* goes on between the gather and each push.                               *)
(*                                                                         *)
(* Pass B (re-arm) plans nothing here: it wants a title that starts with   *)
(* "fix: Issue #" and the client's listing carries none.  In shadow mode   *)
(* a cycle changes nothing.                                                *)
(***************************************************************************)
EXTENDS Naturals

CONSTANTS
  N,             \* number of bot pull requests; 1..N is the order of the listing
  LaneRetries,   \* MAX_RETRIES_BEFORE_ESCALATE
  MaxLaneLost,   \* bound: trackers lost, by a load that fails or by an exception or
                 \* a restart before the save
  MaxPushes      \* bound: pushes of the author to each branch

ASSUME LaneAssumption ==
  /\ N \in Nat
  /\ LaneRetries \in Nat \ {0}
  /\ MaxLaneLost \in Nat
  /\ MaxPushes \in Nat

VARIABLES
  pr,        \* external: the pull requests
  tracker,   \* retry_tracker in the store; cooling: cooldown_until is ahead
  running,   \* a cycle is between its gather and its save
  lanePlan,  \* actions of the cycle that are still to be executed
  work,      \* tracker_out of the cycle
  clone,     \* rebase.sh has cloned: the branch as it was, main as it was
  lapses,    \* trackers lost so far: at the load, or before the save
  pushed,    \* history: commits the author has pushed to the branch
  attempts,  \* history: rebases that ended in a conflict since one went through
  notices    \* history: escalations since the cooldown last ran out

laneVars == <<pr, tracker, running, lanePlan, work, clone, lapses, pushed, attempts, notices>>

-----------------------------------------------------------------------------
(* Values                                                                  *)

LanePrs == 1..N

Nothing == [pass |-> "none", act |-> "none"]
PlannedActions == [pass : {"conflict", "stale"}, act : {"rebase", "escalate"}]

NoClone == [of |-> 0, head |-> 0, behind |-> FALSE, fresh |-> FALSE]

NoEntry == [retries |-> 0, cooling |-> FALSE]
Entries == [retries : 0..LaneRetries, cooling : BOOLEAN]

PullRequests == [open : BOOLEAN, mergeable : {"CONFLICTING", "MERGEABLE", "unknown"},
                 behind : BOOLEAN, failing : BOOLEAN, human : BOOLEAN, head : Nat]

Clones == [of : 0..N, head : Nat, behind : BOOLEAN, fresh : BOOLEAN]

LaneTypeOK ==
  /\ pr \in [LanePrs -> PullRequests]
  /\ tracker \in [LanePrs -> Entries]
  /\ running \in BOOLEAN
  /\ lanePlan \in [LanePrs -> PlannedActions \cup {Nothing}]
  /\ work \in [LanePrs -> Entries]
  /\ clone \in Clones
  /\ lapses \in Nat
  /\ pushed \in [LanePrs -> Nat]
  /\ attempts \in [LanePrs -> Nat]
  /\ notices \in [LanePrs -> Nat]

LaneInit ==
  /\ pr = [p \in LanePrs |-> [open |-> TRUE, mergeable |-> "unknown", behind |-> FALSE,
                          failing |-> FALSE, human |-> FALSE, head |-> 0]]
  /\ tracker = [p \in LanePrs |-> NoEntry]
  /\ running = FALSE
  /\ lanePlan = [p \in LanePrs |-> Nothing]
  /\ work = tracker
  /\ clone = NoClone
  /\ lapses = 0
  /\ pushed = [p \in LanePrs |-> 0]
  /\ attempts = [p \in LanePrs |-> 0]
  /\ notices = [p \in LanePrs |-> 0]

-----------------------------------------------------------------------------
(* Gather and plan                                                         *)

Conflicting(p) == pr[p].open /\ pr[p].mergeable = "CONFLICTING"

StaleAndRed(p) ==
  pr[p].open /\ pr[p].mergeable = "MERGEABLE" /\ pr[p].behind /\ pr[p].failing

Broken(p) == Conflicting(p) \/ StaleAndRed(p)

\* Fault: the cooldown is not tested.
GateWithoutCooldown(entry) == IF entry.retries >= LaneRetries THEN "escalate" ELSE "rebase"

\* Fault: at the cap nothing is said.
GateGivesUp(entry) == IF entry.cooling \/ entry.retries >= LaneRetries THEN "skip" ELSE "rebase"

\* apply_retry_gate
Gate(entry) ==
  IF entry.cooling THEN "skip"
  ELSE IF entry.retries >= LaneRetries THEN "escalate" ELSE "rebase"

PlannedFor(p, entry) ==
  IF ~Broken(p) \/ Gate(entry) = "skip" THEN Nothing
  ELSE [pass |-> IF Conflicting(p) THEN "conflict" ELSE "stale", act |-> Gate(entry)]

\* A cycle plans from the tracker it has loaded, and works on from it.  A cycle
\* that plans nothing changes nothing.
PlanFrom(loaded) ==
  /\ ~running
  /\ \E p \in LanePrs : PlannedFor(p, loaded[p]) # Nothing
  /\ running' = TRUE
  /\ lanePlan' = [p \in LanePrs |-> PlannedFor(p, loaded[p])]
  /\ work' = [p \in LanePrs |-> IF lanePlan'[p].act = "escalate"
                              THEN [loaded[p] EXCEPT !.cooling = TRUE]
                              ELSE loaded[p]]
  /\ UNCHANGED <<pr, tracker, clone, pushed, attempts, notices>>

PlanLane == PlanFrom(tracker) /\ UNCHANGED lapses

\* _load_state has failed and is None: the cycle starts from an empty tracker,
\* which its save writes over the counts and cooldowns of every pull request.
Forgotten == [p \in LanePrs |-> NoEntry]
PlanForgotten ==
  /\ tracker # Forgotten
  /\ lapses < MaxLaneLost
  /\ lapses' = lapses + 1
  /\ PlanFrom(Forgotten)

-----------------------------------------------------------------------------
(* Execute: pass A before pass C, each in the order of the listing         *)

GoesBefore(q, p) ==
  /\ lanePlan[q] # Nothing
  /\ \/ lanePlan[q].pass = "conflict" /\ lanePlan[p].pass = "stale"
     \/ lanePlan[q].pass = lanePlan[p].pass /\ q < p

Turn(p, act) ==
  /\ running
  /\ lanePlan[p].act = act
  /\ \A q \in LanePrs : ~GoesBefore(q, p)

TakenOff(p) == lanePlan' = [lanePlan EXCEPT ![p] = Nothing]

\* _escalate: the label and the comment.
Notify(p) == notices' = [notices EXCEPT ![p] = @ + 1]

EscalatePr(p) ==
  /\ Turn(p, "escalate")
  /\ TakenOff(p)
  /\ Notify(p)
  /\ pr' = [pr EXCEPT ![p].human = TRUE]
  /\ UNCHANGED <<tracker, running, work, clone, lapses, pushed, attempts>>

\* rebase.sh clones the repository and fetches main.
Clone(p) ==
  /\ Turn(p, "rebase")
  /\ clone = NoClone
  /\ clone' = [of |-> p, head |-> pr[p].head, behind |-> pr[p].behind, fresh |-> TRUE]
  /\ UNCHANGED <<pr, tracker, running, lanePlan, work, lapses, pushed, attempts, notices>>

\* What follows a clone of p's branch: a rebase that ends this way.
Rebasing(p) ==
  /\ clone.of = p
  /\ clone' = NoClone
  /\ TakenOff(p)
  /\ UNCHANGED <<tracker, running, lapses, pushed>>

\* Fault: the entry is kept when the rebase has gone through.
EntryKept(entry) == entry

\* tracker_out.pop(key, None)
EntryReset(entry) == NoEntry

\* Fault: bare --force.
PushAnyway(p) == TRUE

\* push --force-with-lease finds the branch as it was cloned.
LeaseHolds(p) == pr[p].head = clone.head

\* The commits of the clone, on main as it was cloned, are pushed; a branch
\* that was not behind is pushed as it is.
Pushed(p) ==
  IF clone.behind
    THEN pr' = [pr EXCEPT ![p].head = clone.head,
                          ![p].behind = ~clone.fresh,
                          ![p].mergeable = "unknown",
                          ![p].failing = FALSE]
    ELSE pr' = [pr EXCEPT ![p].head = clone.head]

\* OUTCOME=rebased
Rebased(p) ==
  /\ Rebasing(p)
  /\ LeaseHolds(p)
  /\ Pushed(p)
  /\ work' = [work EXCEPT ![p] = EntryReset(@)]
  /\ attempts' = [attempts EXCEPT ![p] = 0]
  /\ UNCHANGED notices

\* OUTCOME=empty: the content is in main, nothing is pushed.
EmptyRebase(p) ==
  /\ Rebasing(p)
  /\ pr' = [pr EXCEPT ![p].human = TRUE]
  /\ work' = [work EXCEPT ![p].cooling = TRUE]
  /\ Notify(p)
  /\ UNCHANGED attempts

\* Fault: the conflict is not counted.
EntryUncounted(entry) == entry

EntryAfterConflict(entry) == [entry EXCEPT !.retries = @ + 1]

\* OUTCOME=conflict: the rebase is aborted, nothing is pushed.
RebaseConflict(p) ==
  /\ Rebasing(p)
  /\ clone.behind
  /\ work' = [work EXCEPT ![p] = EntryAfterConflict(@)]
  /\ attempts' = [attempts EXCEPT ![p] = @ + 1]
  /\ UNCHANGED <<pr, notices>>

\* The tracker of the cycle is saved.
SaveTracker ==
  /\ running
  /\ \A p \in LanePrs : lanePlan[p] = Nothing
  /\ running' = FALSE
  /\ tracker' = work
  /\ UNCHANGED <<pr, lanePlan, work, clone, lapses, pushed, attempts, notices>>

\* What is left of a cycle that does not reach its save: its pushes, labels
\* and comments, and none of its counts and cooldowns.
CutShort ==
  /\ running
  /\ running' = FALSE
  /\ lanePlan' = [p \in LanePrs |-> Nothing]
  /\ work' = tracker
  /\ clone' = NoClone
  /\ lapses' = lapses + 1
  /\ UNCHANGED <<pr, tracker, pushed, attempts, notices>>

\* The lease is gone: git push fails, and with it the script and the cycle.
LeaseLost ==
  /\ \E p \in LanePrs : clone.of = p /\ ~LeaseHolds(p)
  /\ CutShort

\* A request fails, the branch has been deleted, the script or the save
\* fails, or the process ends.
Fail ==
  /\ lapses < MaxLaneLost
  /\ CutShort

-----------------------------------------------------------------------------
(* The world                                                               *)

\* now reaches cooldown_until.
Expire(p) ==
  /\ ~running
  /\ tracker[p].cooling
  /\ tracker' = [tracker EXCEPT ![p].cooling = FALSE]
  /\ work' = tracker'
  /\ notices' = [notices EXCEPT ![p] = 0]
  /\ UNCHANGED <<pr, running, lanePlan, clone, lapses, pushed, attempts>>

OfWorld == <<tracker, running, lanePlan, work, lapses, attempts, notices>>

\* A commit lands on main: every branch is behind, mergeable is recomputed.
MainMoves ==
  /\ pr' = [p \in LanePrs |-> [pr[p] EXCEPT !.behind = TRUE, !.mergeable = "unknown"]]
  /\ clone' = [clone EXCEPT !.fresh = FALSE]
  /\ UNCHANGED <<OfWorld, pushed>>

\* GitHub has computed whether the branch merges.
Compute(p) ==
  /\ pr[p].open /\ pr[p].mergeable = "unknown"
  /\ \E m \in {"CONFLICTING", "MERGEABLE"} :
       /\ m = "CONFLICTING" => pr[p].behind
       /\ pr' = [pr EXCEPT ![p].mergeable = m]
  /\ UNCHANGED <<OfWorld, clone, pushed>>

\* The checks of the head commit have run, again perhaps.
ChecksReport(p) ==
  /\ pr[p].open
  /\ \E f \in BOOLEAN : pr' = [pr EXCEPT ![p].failing = f]
  /\ UNCHANGED <<OfWorld, clone, pushed>>

\* The author pushes, on the same base or on main as it is.
AuthorPush(p) ==
  /\ pr[p].open
  /\ pushed[p] < MaxPushes
  /\ pushed' = [pushed EXCEPT ![p] = @ + 1]
  /\ \E b \in {FALSE, pr[p].behind} :
       pr' = [pr EXCEPT ![p].head = @ + 1, ![p].behind = b,
                        ![p].mergeable = "unknown", ![p].failing = FALSE]
  /\ UNCHANGED <<OfWorld, clone>>

\* The pull request is merged or closed; nothing is computed for it any more.
Close(p) ==
  /\ pr[p].open
  /\ pr' = [pr EXCEPT ![p].open = FALSE, ![p].mergeable = "unknown"]
  /\ UNCHANGED <<OfWorld, clone, pushed>>

-----------------------------------------------------------------------------
LaneExecute(p) ==
  \/ EscalatePr(p)
  \/ Clone(p)
  \/ Rebased(p)
  \/ EmptyRebase(p)
  \/ RebaseConflict(p)

World(p) ==
  \/ Expire(p)
  \/ Compute(p)
  \/ ChecksReport(p)
  \/ AuthorPush(p)
  \/ Close(p)

LaneNext ==
  \/ PlanLane
  \/ PlanForgotten
  \/ \E p \in LanePrs : LaneExecute(p)
  \/ SaveTracker
  \/ LeaseLost
  \/ Fail
  \/ \E p \in LanePrs : World(p)
  \/ MainMoves

LaneSpec == LaneInit /\ [][LaneNext]_laneVars

\* The scheduler runs a cycle every interval and finishes it, and time passes.
LaneFairness ==
  /\ WF_laneVars(PlanLane)
  /\ WF_laneVars(\E p \in LanePrs : LaneExecute(p))
  /\ WF_laneVars(SaveTracker)
  /\ WF_laneVars(LeaseLost)
  /\ \A p \in LanePrs : WF_laneVars(Expire(p))

LaneFairSpec == LaneSpec /\ LaneFairness

-----------------------------------------------------------------------------
(* Properties                                                              *)

\* The cap bounds what is done, not only what is counted: a branch on which
\* every rebase ends in a conflict is tried at most max_retries times, and as
\* often again for each tracker that was lost, at the load or before the save.
AttemptsBounded == \A p \in LanePrs : attempts[p] <= LaneRetries * (1 + lapses)

\* As long as every cycle has loaded its tracker and reached its save, the saved
\* count is the number of conflicts in a row: an escalation for "2 consecutive
\* rebase failures" follows that many, and a rebase that went through clears it
\* (R5).
CountIsExact == ~running /\ lapses = 0 => \A p \in LanePrs : tracker[p].retries = attempts[p]

\* People are not nagged: until its cooldown has run out a pull request is
\* escalated once, and once more for each tracker that was lost.
NoticesSpaced == \A p \in LanePrs : notices[p] <= 1 + lapses

\* The force-push never drops a commit that the author pushed while the lane
\* was rebasing.
NoPushLost == \A p \in LanePrs : pr[p].head = pushed[p]

\* A broken pull request is rebased, or a person is asked, or it stops being
\* broken; no run of conflicts and cooldowns goes on for ever unnoticed.
BrokenIsHandled == \A p \in LanePrs : Broken(p) ~> (~Broken(p) \/ pr[p].human)

\* models.py:37-39 and stale_base.py:87-91: a branch that is red again after the
\* capped number of rebases is red by its own diff, and a person is told; it is
\* not rebased for ever.
StaleRebasesEnd ==
  \A p \in LanePrs : []<>(clone.of = p /\ lanePlan[p].pass = "stale") => <>pr[p].human
=============================================================================
