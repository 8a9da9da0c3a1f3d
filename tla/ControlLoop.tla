----------------------------- MODULE ControlLoop -----------------------------
(***************************************************************************)
(* The control loop's scheduler over its supervisor, self-heal,            *)
(* observation, strategy-audit, merge-lane and decision-lane modules       *)
(* (control_loop/__init__.py).                                             *)
(*                                                                         *)
(* Every module runs in every interval, and a cycle is one synchronous     *)
(* call: two cycles never interleave.  A module acts and keeps state only  *)
(* when it has been flipped live; a module in shadow plans and logs.  The  *)
(* modules are flipped one by one, and share nothing but the forge and the *)
(* box store, in which each has a row of its own: here one of them is live *)
(* over a world of its own, and the others look at a world at rest.        *)
(***************************************************************************)
EXTENDS Supervisor, SelfHeal, Observation, StrategyAudit, MergeLane, DecisionLane

VARIABLE live           \* the module that is live

loopVars == <<supervisorVars, healVars, observationVars, strategyVars, laneVars,
              decisionVars, live>>
Modules == {"supervisor", "selfheal", "observation", "strategy_audit", "merge_lane",
            "decision_lane"}

\* A world at rest, for the modules in shadow.
RestingItems == /\ open = {}
                /\ \A i \in Issues : label[i] = {"needs-triage"}
RestingBoard == /\ issue[1].labels = {} /\ issue[1].title = CHOOSE t \in Titles : TRUE
                /\ forge = CHOOSE f \in Forges : TRUE
RestingMetrics == paid = 0
RestingFounders == decisionLive = CHOOSE m \in LiveModes : TRUE

Init ==
    /\ SupervisorInit /\ HealInit /\ ObservationInit /\ StrategyInit /\ LaneInit
    /\ DecisionInit
    /\ live \in Modules
    /\ live # "selfheal" => RestingItems
    /\ live # "observation" => RestingBoard
    /\ live # "strategy_audit" => RestingMetrics
    /\ live # "decision_lane" => RestingFounders

\* _run_task of the module that is live, and what happens around it.
SupervisorTask ==
    /\ live = "supervisor" /\ SupervisorNext
    /\ UNCHANGED <<healVars, observationVars, strategyVars, laneVars, decisionVars, live>>
HealTask ==
    /\ live = "selfheal" /\ HealNext
    /\ UNCHANGED <<supervisorVars, observationVars, strategyVars, laneVars, decisionVars, live>>
ObservationTask ==
    /\ live = "observation" /\ ObservationNext
    /\ UNCHANGED <<supervisorVars, healVars, strategyVars, laneVars, decisionVars, live>>
StrategyTask ==
    /\ live = "strategy_audit" /\ StrategyNext
    /\ UNCHANGED <<supervisorVars, healVars, observationVars, laneVars, decisionVars, live>>
MergeLaneTask ==
    /\ live = "merge_lane" /\ LaneNext
    /\ UNCHANGED <<supervisorVars, healVars, observationVars, strategyVars, decisionVars, live>>
DecisionTask ==
    /\ live = "decision_lane" /\ DecisionNext
    /\ UNCHANGED <<supervisorVars, healVars, observationVars, strategyVars, laneVars, live>>

Next == SupervisorTask \/ HealTask \/ ObservationTask \/ StrategyTask \/ MergeLaneTask
        \/ DecisionTask
Spec == Init /\ [][Next]_loopVars

\* A cycle that is due is run to its end, and time passes.
FairSpec ==
    /\ Spec
    /\ WF_laneVars(live = "merge_lane" /\ PlanLane)
    /\ WF_laneVars(live = "merge_lane" /\ \E p \in LanePrs : LaneExecute(p))
    /\ WF_laneVars(live = "merge_lane" /\ SaveTracker)
    /\ WF_laneVars(live = "merge_lane" /\ LeaseLost)
    /\ \A p \in LanePrs : WF_laneVars(live = "merge_lane" /\ Expire(p))
    /\ WF_decisionVars(live = "decision_lane" /\ DecisionCycle)

-----------------------------------------------------------------------------
(* Properties *)

\* Each module's variables keep their types; the saved retry counts never
\* exceed the caps.
LoopTypeOK ==
    /\ SupervisorTypeOK /\ SelfHealTypeOK /\ ObservationTypeOK
    /\ StrategyTypeOK /\ LaneTypeOK /\ DecisionTypeOK
=============================================================================
