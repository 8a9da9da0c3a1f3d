--------------------------- MODULE MCIssuePoller ---------------------------
(* One issue, and a few acts from outside.                                  *)
EXTENDS IssuePoller

CONSTANT i1

OneIssue == {i1}
LiveOnly == {"live"}
AllModes == {"shadow", "spec-only", "live"}
DefaultTarget == {"spec_ready"}
AnyTarget == ActionableStages
=============================================================================
