---------------------------- MODULE MCControlLoop ----------------------------
EXTENDS ControlLoop, TLC
CONSTANTS i1, p1, w1, w2, w3, short, long, d1
OneIssue == {i1}
OnePr == {p1}
OneDecision == {d1}
EitherMode == {TRUE, FALSE}
ShortCutoffs == [triage |-> 1, copilot |-> 2, approved |-> 1]
AllWords == {w1, w2, w3}
SomeTitles == {short, long}
EitherForge == {"github", "quackback"}
Found == [t \in SomeTitles |-> IF t = short THEN {w1, w2} ELSE {w1, w2, w3}]
Extracted == [t \in SomeTitles |-> IF t = short THEN <<w1, w2>> ELSE <<w3, w1>>]
SomeProposals ==
    {[title |-> short, labels |-> {"surface:product", "fn:dev", "needs-human"}],
     [title |-> long, labels |-> {"fn:dev"}],
     [title |-> short, labels |-> {"surface:service", "fn:dev"}]}
Kind(human, ready, copilot, matches) ==
    [human |-> human, spec |-> FALSE, ready |-> ready, copilot |-> copilot,
     matches |-> matches]
\* company/pipeline-stages.json
Recommended ==
    [s \in RankStages |->
        CASE s = "triage"                -> "bounce-label"
          [] s \in {"spec", "merge"}     -> "manual-merge"
          [] s = "build"                 -> "retry-copilot"
          [] s = "review"                -> "escalate-needs-human"
          [] s \in {"verify", "revenue"} -> "post-rah-bounty"
          [] s = "unknown"               -> "none"]
SomeKinds == {Kind(TRUE, FALSE, FALSE, {"triage"}), Kind(FALSE, FALSE, TRUE, {"triage"}),
              Kind(FALSE, TRUE, FALSE, {})}
=============================================================================
