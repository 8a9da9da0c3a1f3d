--------------------------- MODULE MCDecisionLane ---------------------------
(* One decision on the board, the box live.                                  *)
EXTENDS DecisionLane

CONSTANT p1

OneDecision == {p1}
LiveOnly == {TRUE}
=============================================================================
