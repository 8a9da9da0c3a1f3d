----------------------------- MODULE IssueStore -----------------------------
(***************************************************************************)
(* The durable issue row of wgmesh_pipeline/state/store.py: the stage      *)
(* table and the writes the rest of the pipeline makes through it.  Every  *)
(* write is one committed SQL statement, so each is one operator here.     *)
(* Title, body, classification, risk tier and last error are data no       *)
(* property tells apart and are left out; updated_at is modelled in        *)
(* ClaimQueue, where the claim order matters.                              *)
(***************************************************************************)
EXTENDS Naturals

CONSTANT MaxPrs  \* bound: implementation PRs one issue may ever have

ASSUME MaxPrsAssumption == MaxPrs \in Nat \ {0}

MaxAttempts == 3   \* bump_attempt's default max_attempts

Stages == {"queued", "triaged", "specced", "spec_opened", "spec_ready",
           "implemented", "reviewed", "awaiting_merge",
           "merged", "escalated", "failed"}

TerminalStages == {"merged", "escalated", "failed"}

\* ACTIONABLE_STAGES: spec_opened is added by the poller outside spec-only.
ActionableStages == {"queued", "triaged", "specced", "spec_ready",
                     "implemented", "reviewed", "awaiting_merge"}

\* The stage a stage hands over to when its work is done.
Successors ==
  [s \in Stages |->
     CASE s = "queued"         -> {"triaged"}
       [] s = "triaged"        -> {"specced"}
       [] s = "specced"        -> {"spec_ready", "spec_opened"}
       [] s = "spec_opened"    -> {"spec_ready"}
       [] s = "spec_ready"     -> {"implemented"}
       [] s = "implemented"    -> {"reviewed"}
       [] s = "reviewed"       -> {"awaiting_merge"}
       [] s = "awaiting_merge" -> {"merged"}
       [] OTHER                -> {}]

\* ALLOWED_TRANSITIONS: forward, or out of the pipeline.  spec_opened has no
\* way out but spec_ready.
AllowedTransitions(s) ==
  Successors[s] \cup (IF s \in ActionableStages THEN {"escalated", "failed"} ELSE {})

Absent == "absent"   \* the store holds no row for the issue

Row == [stage : Stages \cup {Absent}, open : BOOLEAN, attempts : 0..MaxAttempts,
        specPr : BOOLEAN, implPr : 0..MaxPrs]

\* Absent, with the column defaults an INSERT gives.
NoRow == [stage |-> Absent, open |-> FALSE, attempts |-> 0,
          specPr |-> FALSE, implPr |-> 0]

\* upsert_issue: stage and status are overwritten; attempts and the PR columns
\* (COALESCE) survive a conflict.
Upsert(r, s, isOpen) == [r EXCEPT !.stage = s, !.open = isOpen]

\* transition: a compare-and-set on the stage the caller claimed.
CanTransition(r, from, to) == r.stage = from /\ to \in AllowedTransitions(from)

SetStage(r, s) == [r EXCEPT !.stage = s]

\* Fault: the limit is tested before this failure is counted.
BumpAttemptLate(r) ==
  [r EXCEPT !.attempts = @ + 1,
            !.stage = IF r.attempts >= MaxAttempts THEN "failed" ELSE @]

\* bump_attempt: one more failure, terminal at the limit whatever the stage.
BumpAttempt(r) ==
  [r EXCEPT !.attempts = @ + 1,
            !.stage = IF r.attempts + 1 >= MaxAttempts THEN "failed" ELSE @]

\* Fault: the requeued row keeps its spent attempts.
RequeueFailedKeepsAttempts(r, target) == [r EXCEPT !.stage = target]

\* requeue_failed: only a failed row moves; its attempts start again and its
\* PR columns stay.
RequeueFailed(r, target) == [r EXCEPT !.stage = target, !.attempts = 0]
=============================================================================
