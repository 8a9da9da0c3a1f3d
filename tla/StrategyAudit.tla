---------------------------- MODULE StrategyAudit ----------------------------
(***************************************************************************)
(* The strategy audit of the control loop: strategy_gather.py around the   *)
(* decisions of strategy_audit.py.  A cycle measures, compares with the    *)
(* last persisted audit, saves, and opens a needs-human issue for a drift  *)
(* it has not reported yet.                                                *)
(*                                                                         *)
(* Two metrics stand for the six: one that must not drop, read from a page *)
(* and missing when the page is (paid_customers), and one that must not    *)
(* grow and that counts the open needs-human issues, the audit's own among *)
(* them (active_stuck_issues).  One customer milestone may be overdue.     *)
(***************************************************************************)
EXTENDS Integers, FiniteSets

CONSTANTS
    MaxPaid,        \* bound: the largest number of customers
    MaxStuck,       \* bound: the largest number of others' needs-human issues
    Target,         \* the customers the milestone asks for
    NoData,         \* a metric that could not be read
    MaxChanges,     \* bound: changes of the world
    MaxFaults       \* bound: failed loads, saves and requests, and restarts

ASSUME StrategyAssumption ==
    /\ MaxPaid \in Nat /\ MaxStuck \in Nat /\ Target \in Nat
    /\ NoData \notin Nat /\ MaxChanges \in Nat /\ MaxFaults \in Nat

VARIABLES
    paid,           \* what the customers page says
    others,         \* open needs-human issues of other origin
    past,           \* the milestone's date is past
    reports,        \* the audit's own issues that are open
    row,            \* strategy-audit-baseline in the box store
    report,         \* the fingerprint of the issue still to be opened
    issued,         \* history: the fingerprints of the issues opened
    lastIssue,      \* history: the fingerprint of the last one
    changes, faults

strategyVars == <<paid, others, past, reports, row, report, issued, lastIssue,
                  changes, faults>>

MetricNames == {"paid_customers", "active_stuck_issues"}
Measures == [paid: (0 .. MaxPaid) \cup {NoData}, stuck: Nat]
Fingerprints == [metrics: SUBSET MetricNames, overdue: BOOLEAN]
NoDrift == [metrics |-> {}, overdue |-> FALSE]
NoReport == [metrics |-> {}, overdue |-> FALSE]
NoRow == [audited |-> FALSE, measured |-> [paid |-> NoData, stuck |-> 0],
          last |-> NoReport, fingerprint |-> NoDrift]

StrategyInit ==
    /\ paid \in 0 .. MaxPaid /\ others = 0 /\ past = FALSE /\ reports = 0
    /\ row = NoRow /\ report = NoReport
    /\ issued = {} /\ lastIssue = NoReport
    /\ changes = 0 /\ faults = 0

-----------------------------------------------------------------------------
(* The audit *)

\* metric_row: a tenth of the baseline in the wrong direction, or any growth
\* from a baseline of zero.
Dropped(b, c) == b # NoData /\ c # NoData /\ c < b /\ (b - c) * 10 >= b
Grown(b, c) == c > b /\ (c - b) * 10 >= b

\* milestone_status
Overdue(m) == past /\ ~(m.paid # NoData /\ m.paid >= Target)

\* drift_fingerprint; the first run flags nothing.
Drift(base, m) ==
    IF ~base.audited THEN NoDrift
    ELSE [metrics |-> {n \in MetricNames :
                         \/ n = "paid_customers" /\ Dropped(base.measured.paid, m.paid)
                         \/ n = "active_stuck_issues" /\ Grown(base.measured.stuck, m.stuck)},
          overdue |-> Overdue(m)]

\* Fault: every drift is new.
IsAnyDrift(base, fp) == fp # NoDrift

\* decide: report a new drift, else keep new values, else skip.
IsNewDrift(base, fp) == fp # NoDrift /\ fp # base.last
Material(base, m, fp) ==
    IsNewDrift(base, fp) \/ ~base.audited \/ base.measured # m
Audited(base, m, fp) ==
    [audited |-> TRUE, measured |-> m, fingerprint |-> fp,
     last |-> IF IsNewDrift(base, fp) THEN fp ELSE base.last]

\* save_control_state: a fingerprint equal to the stored one writes nothing.
Stored(base, m, fp) ==
    IF Material(base, m, fp) /\ ~(row.audited /\ row.fingerprint = fp)
    THEN Audited(base, m, fp) ELSE row

Loads == {[found |-> row, faults |-> faults]}
         \cup {[found |-> NoRow, faults |-> f] : f \in {faults + 1} \cap (0 .. MaxFaults)}

\* run_strategy_cycle up to its executor.  The page may not answer; a load
\* that fails is an empty baseline; a save that fails is only logged.
Audit ==
    /\ report = NoReport
    /\ \E read \in {paid, NoData}, load \in Loads :
         LET m == [paid |-> read, stuck |-> others + reports]
             fp == Drift(load.found, m)
         IN /\ \/ row' = Stored(load.found, m, fp) /\ faults' = load.faults
               \/ /\ load.faults < MaxFaults /\ Material(load.found, m, fp)
                  /\ row' = row /\ faults' = load.faults + 1
            /\ report' = IF IsNewDrift(load.found, fp) THEN fp ELSE NoReport
    /\ UNCHANGED <<paid, others, past, reports, issued, lastIssue, changes>>

\* Fault: the drift is taken as reported without its issue.
DropIssue ==
    /\ report # NoReport
    /\ report' = NoReport
    /\ UNCHANGED <<paid, others, past, reports, row, issued, lastIssue, changes,
                   faults>>

\* build_strategy_drift_action, executed: the issue is opened ...
OpenIssue ==
    /\ report # NoReport
    /\ issued' = issued \cup {report} /\ lastIssue' = report
    /\ reports' = reports + 1
    /\ report' = NoReport
    /\ UNCHANGED <<paid, others, past, row, changes, faults>>

\* ... or the request fails, is blocked, or the box restarts before it.
IssueFails ==
    /\ report # NoReport /\ faults < MaxFaults
    /\ report' = NoReport /\ faults' = faults + 1
    /\ UNCHANGED <<paid, others, past, reports, row, issued, lastIssue, changes>>

-----------------------------------------------------------------------------
(* The world: customers, dates, people *)

Changes(n) == changes + n <= MaxChanges /\ changes' = changes + n
Customers == \E p \in 0 .. MaxPaid :
    /\ p # paid /\ paid' = p /\ Changes(1)
    /\ UNCHANGED <<others, past, reports, row, report, issued, lastIssue, faults>>
DatePasses ==
    /\ ~past /\ past' = TRUE
    /\ UNCHANGED <<paid, others, reports, row, report, issued, lastIssue, changes,
                   faults>>
OthersMove == \E n \in 0 .. MaxStuck :
    /\ n # others /\ others' = n /\ Changes(1)
    /\ UNCHANGED <<paid, past, reports, row, report, issued, lastIssue, faults>>
ReportClosed ==
    /\ reports > 0 /\ reports' = reports - 1 /\ Changes(1)
    /\ UNCHANGED <<paid, others, past, row, report, issued, lastIssue, faults>>

StrategyNext == \/ Audit \/ OpenIssue \/ IssueFails
                \/ Customers \/ DatePasses \/ OthersMove \/ ReportClosed
StrategySpec == StrategyInit /\ [][StrategyNext]_strategyVars

-----------------------------------------------------------------------------
(* Properties *)

StrategyTypeOK ==
    /\ paid \in 0 .. MaxPaid /\ others \in 0 .. MaxStuck /\ past \in BOOLEAN
    /\ reports \in Nat
    /\ row \in [audited: BOOLEAN, measured: Measures, last: Fingerprints,
                fingerprint: Fingerprints]
    /\ report \in Fingerprints /\ lastIssue \in Fingerprints
    /\ issued \subseteq Fingerprints \ {NoReport}
    /\ changes \in 0 .. MaxChanges /\ faults \in 0 .. MaxFaults

\* A drift the store calls reported has its issue, unless a request failed or
\* the box restarted between the save and the request: nothing tries again.
ReportedHasIssue ==
    row.last # NoReport => row.last \in issued \/ report = row.last \/ faults > 0

\* An unchanged drift is not reported twice in a row, however the metrics move
\* between, unless a load, a save or a request failed.
NotReportedTwice ==
    [][OpenIssue => report # lastIssue \/ faults > 0]_strategyVars
=============================================================================
