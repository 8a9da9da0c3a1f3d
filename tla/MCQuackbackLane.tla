-------------------------- MODULE MCQuackbackLane --------------------------
(* Two posts, or one, and the settings of the running process.             *)
EXTENDS QuackbackLane

CONSTANTS p1, p2

OnePost == {p1}
TwoPosts == {p1, p2}
AllModes == {"shadow", "spec-only", "live"}
LiveOnly == {"live"}
WithAndWithoutLoop == BOOLEAN
LoopOn == {TRUE}
=============================================================================
