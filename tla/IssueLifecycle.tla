--------------------------- MODULE IssueLifecycle ---------------------------
(***************************************************************************)
(* What the pipeline promises about the stage of an issue, whatever the    *)
(* poller, the operator and the people on the forge do.  An issue moves    *)
(* forward one stage at a time; it counts as merged only on a fact of the  *)
(* forge, and which fact that must be depends on the stage it was at; it   *)
(* leaves the pipeline by being parked for a human or by running out of    *)
(* attempts; and the only steps back are the named ones: a human           *)
(* re-triages a parked issue, an operator requeues a failed one or resets  *)
(* the queue.                                                              *)
(***************************************************************************)
EXTENDS IssueStore

CONSTANTS Issues,
          RequeueTargets   \* stages an operator may requeue a failed issue at

VARIABLES stage,   \* stage of every issue, or Absent
          facts    \* what the forge says of every issue

vars == <<stage, facts>>

\* delivered: the implementation PR on record has merged; done: the issue has a
\* completion label; resolved: some resolution PR has merged; closed: the issue is.
Facts == {"delivered", "done", "resolved", "closed"}

Init == /\ stage = [i \in Issues |-> Absent]
        /\ facts \in [Issues -> SUBSET Facts]

InFlight == Stages \ TerminalStages

Moves(i, from, to) == stage[i] \in from /\ stage'[i] \in to

\* Forward, one stage at a time; never into merged.
Advance(i) == /\ stage[i] \in InFlight \ {"awaiting_merge"}
              /\ stage'[i] \in Successors[stage[i]]

\* The pipeline's own completion.
Complete(i) == "delivered" \in facts[i] /\ Moves(i, {"awaiting_merge"}, {"merged"})

Park(i)    == Moves(i, InFlight \cup {Absent}, {"escalated"})
Exhaust(i) == Moves(i, InFlight, {"failed"})

\* People on the forge: the issue is new, re-triaged or resolved there.
Accept(i)  == Moves(i, {Absent, "escalated"}, {"queued"})
Resolve(i) ==
  \/ "done" \in facts[i] /\ Moves(i, InFlight \cup {Absent}, {"merged"})
  \/ "resolved" \in facts[i] /\ Moves(i, {Absent}, {"merged"})
  \/ "closed" \in facts[i] /\ Moves(i, {"escalated"}, {"merged"})

\* The operator.  A reset that overtakes a stage in progress is undone by that
\* stage's own write, which puts the row back one stage on.
Requeue(i)  == Moves(i, {"failed"}, RequeueTargets)
Forget(i)   == Moves(i, Stages, {Absent})
Reappear(i) == Moves(i, {Absent}, {"triaged", "spec_opened", "spec_ready",
                                   "implemented", "awaiting_merge"})

Moved(i) == \/ Advance(i) \/ Complete(i) \/ Park(i) \/ Exhaust(i)
            \/ Accept(i) \/ Resolve(i)
            \/ Requeue(i) \/ Forget(i) \/ Reappear(i)

\* A reconcile pass or a reset moves several issues in one step.
Next == \A i \in Issues : stage'[i] = stage[i] \/ Moved(i)

Spec == Init /\ [][Next]_vars
=============================================================================
