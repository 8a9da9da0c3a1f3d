----------------------------- MODULE MCBuildGraph ----------------------------
EXTENDS BuildGraph, TLC
CONSTANTS i1, i2
TwoIssues == {i1, i2}
Symmetry == Permutations(TwoIssues)
Either == {[graph |-> g, executor |-> IF g = "legacy" THEN "goose" ELSE "langchain", driver |-> d] :
              g \in {"legacy", "langgraph"}, d \in {"poller", "invoke"}}
=============================================================================
