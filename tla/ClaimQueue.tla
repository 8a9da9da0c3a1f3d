----------------------------- MODULE ClaimQueue -----------------------------
(***************************************************************************)
(* Which issue the next tick works on.  claim_next takes the row that has  *)
(* waited longest since its updated_at, among the open, actionable rows    *)
(* whose back-off is over; every write of a row renews its updated_at, and *)
(* so does the reconcile pass for an issue that carries no pipeline label. *)
(*                                                                         *)
(* What a stage does is reduced here to what it writes to the row, the     *)
(* pipeline labels and the PR; IssuePoller has the rest, and the issues    *)
(* that people park, resolve or close.                                     *)
(***************************************************************************)
EXTENDS IssueStore, SequencesExt

CONSTANTS
  Issues,       \* issue numbers
  NoIssue,      \* what a tick claims that claims nothing
  Listing,      \* the order in which list_open_issues returns the issues
  Modes,        \* PIPELINE_MODE values the process may run in
  MaxRequeues   \* bound: requeue_failed commands

ASSUME QueueAssumption ==
  /\ NoIssue \notin Issues
  /\ Listing \in Seq(Issues) /\ IsInjective(Listing) /\ ToSet(Listing) = Issues
  /\ Modes \subseteq {"shadow", "spec-only", "live"}
  /\ MaxRequeues \in Nat

VARIABLES
  mode,      \* config.mode
  row,       \* the store: stage and attempts of each issue
  older,     \* pairs of issues with rows: the first one's updated_at is the earlier
  age,       \* minutes since updated_at, counted while the row backs off
  tags,      \* pipeline labels the issue carries upstream
  filed,     \* issues that exist upstream
  pr,        \* state of the issue's implementation PR
  claiming,  \* the tick has reconciled and is about to claim
  claimed,   \* history: what the tick that has just ended claimed
  passed,    \* history: issues claimed since this row was last written
  requeues   \* requeue_failed commands still allowed

vars == <<mode, row, older, age, tags, filed, pr, claiming, claimed, passed, requeues>>

-----------------------------------------------------------------------------
(* Values                                                                  *)

Tags == {"needs-triage", "copilot-triaging"}

\* _cooldown, in minutes: 2^(attempts - 1).
Cooldown(attempts) == IF attempts = 0 THEN 0 ELSE <<1, 2, 4>>[attempts]

ClaimStages == ActionableStages \cup (IF mode = "spec-only" THEN {} ELSE {"spec_opened"})

InFlight(i) == row[i].stage \notin TerminalStages \cup {Absent}

\* Shadow mode hands these back untouched.
Held(i) ==
  /\ mode = "shadow"
  /\ row[i].stage \in {"specced", "spec_ready", "implemented", "reviewed", "awaiting_merge"}

\* Its last failure was less than a cooldown ago.
BacksOff(i) == InFlight(i) /\ age[i] < Cooldown(row[i].attempts)

\* The issues the store has a row of.
Rows == {i \in Issues : row[i].stage # Absent}

\* R is a strict total order of S.
Orders(R, S) ==
  /\ R \subseteq S \X S
  /\ \A i \in S : <<i, i>> \notin R
  /\ \A i, j \in S : i # j => <<i, j>> \in R \/ <<j, i>> \in R
  /\ \A i, j, k \in S : <<i, j>> \in R /\ <<j, k>> \in R => <<i, k>> \in R

TypeOK ==
  /\ mode \in Modes
  /\ row \in [Issues -> [stage : Stages \cup {Absent}, attempts : 0..MaxAttempts]]
  /\ Orders(older, Rows)
  /\ age \in [Issues -> 0..Cooldown(MaxAttempts - 1)]
  /\ tags \in [Issues -> SUBSET Tags]
  /\ filed \in SUBSET Issues
  /\ pr \in [Issues -> {"none", "open", "merged", "closed"}]
  /\ claiming \in BOOLEAN
  /\ claimed \in Issues \cup {NoIssue}
  /\ passed \in [Issues -> SUBSET Issues]
  /\ requeues \in 0..MaxRequeues

Init ==
  /\ mode \in Modes
  /\ row = [i \in Issues |-> [stage |-> Absent, attempts |-> 0]]
  /\ older = {}
  /\ age = [i \in Issues |-> 0]
  /\ tags \in [Issues -> SUBSET {"needs-triage"}]
  /\ filed = {}
  /\ pr = [i \in Issues |-> "none"]
  /\ claiming = FALSE
  /\ claimed = NoIssue
  /\ passed = [i \in Issues |-> {}]
  /\ requeues = MaxRequeues

\* The order in which one pass writes two issues.
Before(i, j) == \E k, m \in DOMAIN Listing : k < m /\ Listing[k] = i /\ Listing[m] = j

\* The rows of the issues in new are written, one after the other: their
\* updated_at is later than that of all other rows.
RenewedOrder(R, S, new) ==
  {p \in R : p[1] \notin new /\ p[2] \notin new}
    \cup ((S \ new) \X new)
    \cup {p \in new \X new : Before(p[1], p[2])}

Renew(new) ==
  /\ older' = RenewedOrder(older, Rows, new)
  /\ age' = [i \in Issues |-> IF i \in new THEN 0 ELSE age[i]]

-----------------------------------------------------------------------------
(* reconcile_issues                                                        *)

\* Written by the pass: new rows, and in-flight ones without a pipeline label.
Renews(i) == row[i].stage = Absent \/ (InFlight(i) /\ tags[i] = {})

\* A pass over the first n issues of the listing.  found: issues whose
\* resolution lookup answered; cleared: label writes that succeeded.
Pass(n, found, cleared) ==
  LET met     == filed \cap {Listing[k] : k \in 1..n}
      written == {i \in met : Renews(i) /\ (row[i].stage = Absent /\ tags[i] = {} => i \in found)}
      beyond  == {i \in met : InFlight(i) /\ row[i].stage # "queued"}
  IN  /\ row' = [i \in Issues |-> IF i \in written /\ row[i].stage = Absent
                                    THEN SetStage(row[i], "queued") ELSE row[i]]
      /\ Renew(written)
      /\ passed' = [i \in Issues |-> IF i \in written THEN {} ELSE passed[i]]
      /\ tags' = [i \in Issues |-> IF i \in beyond \cap cleared /\ mode # "shadow"
                                     THEN tags[i] \ {"needs-triage"} ELSE tags[i]]
      /\ claimed' = NoIssue
      /\ UNCHANGED <<mode, filed, pr, requeues>>

\* The issues for which the lookup is asked, and those with a label to clear.
LookedUp == {i \in filed : row[i].stage = Absent /\ tags[i] = {}}
Labelled == {i \in filed : row[i].stage # Absent /\ "needs-triage" \in tags[i]}

Reconcile ==
  /\ ~claiming
  /\ \E found \in SUBSET LookedUp, cleared \in SUBSET Labelled : Pass(Len(Listing), found, cleared)
  /\ claiming' = TRUE

\* The listing fails, or a read the pass does not guard: nothing is claimed.
ReconcileAborted ==
  /\ ~claiming
  /\ \E n \in 0..(Len(Listing) - 1), found \in SUBSET LookedUp, cleared \in SUBSET Labelled :
       Pass(n, found, cleared)
  /\ UNCHANGED claiming

-----------------------------------------------------------------------------
(* claim_next and the stage it hands out                                   *)

Claimable(i) == row[i].stage \in ClaimStages /\ ~BacksOff(i)

\* Fault: the most recently written row is taken.
NextIsLatest(i) ==
  Claimable(i) /\ \A j \in Issues \ {i} : Claimable(j) => <<j, i>> \in older

NextIs(i) ==
  Claimable(i) /\ \A j \in Issues \ {i} : Claimable(j) => <<i, j>> \in older

Claim(i) ==
  /\ claiming /\ NextIs(i)
  /\ claiming' = FALSE
  /\ claimed' = i

Write(i, r) ==
  /\ row' = [row EXCEPT ![i] = r]
  /\ Renew({i})
  /\ passed' = [j \in Issues |-> IF j = i THEN {} ELSE passed[j] \cup {i}]

NothingToClaim ==
  /\ claiming /\ \A i \in Issues : ~NextIs(i)
  /\ claiming' = FALSE
  /\ claimed' = NoIssue
  /\ UNCHANGED <<mode, row, older, age, tags, filed, pr, passed, requeues>>

\* The stages whose work leaves labels and PRs alone.
DoStage(i) ==
  /\ Claim(i)
  /\ row[i].stage \in {"queued", "triaged", "spec_opened", "implemented", "reviewed"}
  /\ ~Held(i) /\ (row[i].stage = "reviewed" => mode = "live")
  /\ \E to \in Successors[row[i].stage] : Write(i, SetStage(row[i], to))
  /\ UNCHANGED <<mode, tags, filed, pr, requeues>>

\* spec_pr_node moves the issue from needs-triage to copilot-triaging.
OpenSpecPr(i) ==
  /\ Claim(i) /\ row[i].stage = "specced" /\ ~Held(i)
  /\ Write(i, SetStage(row[i], IF mode = "spec-only" THEN "spec_opened" ELSE "spec_ready"))
  /\ tags' = [tags EXCEPT ![i] = {"copilot-triaging"}]
  /\ UNCHANGED <<mode, filed, pr, requeues>>

OpenImplPr(i) ==
  /\ Claim(i) /\ row[i].stage = "spec_ready" /\ mode = "live"
  /\ Write(i, SetStage(row[i], "implemented"))
  /\ pr' = [pr EXCEPT ![i] = IF @ = "none" THEN "open" ELSE @]
  /\ UNCHANGED <<mode, tags, filed, requeues>>

\* Triage, the accept gate, the merge gate, or a PR closed unmerged.
ParkIssue(i) ==
  /\ Claim(i) /\ ~Held(i)
  /\ \/ row[i].stage \in {"queued", "triaged", "reviewed"}
     \/ row[i].stage = "awaiting_merge" /\ pr[i] \in {"none", "closed"}
  /\ Write(i, SetStage(row[i], "escalated"))
  /\ UNCHANGED <<mode, tags, filed, pr, requeues>>

FinishMerged(i) ==
  /\ Claim(i) /\ ~Held(i) /\ row[i].stage = "awaiting_merge" /\ pr[i] = "merged"
  /\ Write(i, SetStage(row[i], "merged"))
  /\ UNCHANGED <<mode, tags, filed, pr, requeues>>

\* Fault: the poll of an open PR writes nothing.
PollOpenPrReadOnly(i) ==
  /\ Claim(i) /\ ~Held(i) /\ row[i].stage = "awaiting_merge" /\ pr[i] = "open"
  /\ passed' = [j \in Issues |-> passed[j] \cup {i}]
  /\ UNCHANGED <<mode, row, older, age, tags, filed, pr, requeues>>

\* An open PR: the row is written as it is, so that others come first.
PollOpenPr(i) ==
  /\ Claim(i) /\ ~Held(i) /\ row[i].stage = "awaiting_merge" /\ pr[i] = "open"
  /\ Write(i, row[i])
  /\ UNCHANGED <<mode, tags, filed, pr, requeues>>

\* Any stage may raise; spec_pr_node may have taken the first label off by then.
StageFails(i) ==
  /\ Claim(i) /\ ~Held(i)
  /\ Write(i, BumpAttempt(row[i]))
  /\ \E gone \in SUBSET {"needs-triage"} :
       /\ gone = {} \/ row[i].stage = "specced"
       /\ tags' = [tags EXCEPT ![i] = @ \ gone]
  /\ UNCHANGED <<mode, filed, pr, requeues>>

HoldInShadow(i) ==
  /\ Claim(i) /\ Held(i)
  /\ passed' = [j \in Issues |-> passed[j] \cup {i}]
  /\ UNCHANGED <<mode, row, older, age, tags, filed, pr, requeues>>

-----------------------------------------------------------------------------
(* Outside                                                                 *)

\* A minute goes by, between ticks or inside one.
Elapse ==
  /\ \E i \in Issues : BacksOff(i)
  /\ age' = [i \in Issues |-> IF BacksOff(i) THEN age[i] + 1 ELSE age[i]]
  /\ UNCHANGED <<mode, row, older, tags, filed, pr, claiming, claimed, passed, requeues>>

FileIssue ==
  /\ \E i \in Issues \ filed : filed' = filed \cup {i}
  /\ UNCHANGED <<mode, row, older, age, tags, pr, claiming, claimed, passed, requeues>>

PrEnds ==
  /\ \E i \in Issues, end \in {"merged", "closed"} : pr[i] = "open" /\ pr' = [pr EXCEPT ![i] = end]
  /\ UNCHANGED <<mode, row, older, age, tags, filed, claiming, claimed, passed, requeues>>

RequeueFailedMain ==
  /\ requeues > 0
  /\ \E i \in Issues, target \in {"spec_ready"} :
       /\ row[i].stage = "failed"
       /\ row' = [row EXCEPT ![i] = RequeueFailed(@, target)]
       /\ Renew({i})
       /\ passed' = [passed EXCEPT ![i] = {}]
  /\ requeues' = requeues - 1
  /\ UNCHANGED <<mode, tags, filed, pr, claiming, claimed>>

-----------------------------------------------------------------------------

Work(i) ==
  \/ DoStage(i) \/ OpenSpecPr(i) \/ OpenImplPr(i) \/ ParkIssue(i) \/ FinishMerged(i)
  \/ PollOpenPr(i) \/ StageFails(i) \/ HoldInShadow(i)

ClaimNext == NothingToClaim \/ \E i \in Issues : Work(i)

Next ==
  \/ Reconcile \/ ReconcileAborted \/ ClaimNext
  \/ Elapse \/ FileIssue \/ PrEnds \/ RequeueFailedMain

\* run_forever ticks again and again, a tick whose forge reads answer comes
\* around, and the clock runs.
Fairness == WF_vars(Reconcile) /\ WF_vars(ClaimNext) /\ WF_vars(Elapse)

Spec == Init /\ [][Next]_vars /\ Fairness

-----------------------------------------------------------------------------
(* Properties                                                              *)

Tagged(i) == "copilot-triaging" \in tags[i]

\* Outside shadow mode no row is claimed twice over the head of one that could be
\* claimed and that nothing has written in between: claim_next goes by updated_at,
\* and every stage writes its row.
NoOvertaking ==
  [][\A i, j \in Issues :
       claiming /\ ~claiming' /\ claimed' = j /\ j # i /\ j \in passed[i]
         => mode = "shadow" \/ ~Claimable(i)]_vars

\* In live mode an issue with its spec PR open, whose labels the pipeline has
\* moved, is not forgotten: some tick comes back to it, failed or not, until in
\* the end it is merged, parked, failed, or waiting on its open PR; so a merge,
\* which nobody reports, is noticed.
TaggedSettles ==
  \A i \in Issues :
    mode = "live" /\ Tagged(i)
      ~> \/ row[i].stage \in TerminalStages
         \/ row[i].stage = "awaiting_merge" /\ pr[i] = "open"

\* The comment at poller.py:269: polling an open PR renews its row so that other
\* work is claimed fairly, that is, other healthy rows are claimed too.
OtherWorkIsClaimed ==
  \A i \in Issues :
    row[i].stage \in ClaimStages /\ row[i].attempts = 0 ~> claimed = i \/ row[i].attempts > 0
=============================================================================
