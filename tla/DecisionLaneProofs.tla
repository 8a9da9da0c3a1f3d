------------------------- MODULE DecisionLaneProofs -------------------------
(***************************************************************************)
(* The safety of the consent loop, for any number of decisions, co-founders*)
(* and comments, any iteration cap and any bound on failures.              *)
(***************************************************************************)
EXTENDS DecisionLane, TLAPS

\* What the phase says of the post being worked on: a proposal is only under
\* way below the cap, and all but a first draft start from a recorded one.
PhaseInv ==
  /\ point \in {"revising", "writing", "posted"} => record[post].iterations < MaxIterations
  /\ point \in {"weighing", "revising", "agreed", "opened"} => record[post].iterations > 0

\* A thread answers comments that exist, and nothing but drafts until the first
\* proposal is on record.
ThreadInv ==
  \A p \in Posts : \A k \in DOMAIN proposals[p] :
    /\ proposals[p][k] <= newest[p]
    /\ record[p].iterations = 0 => proposals[p][k] = 0

\* The proposal under way answers a comment no older than any answered before;
\* once posted, the thread shows it.
HeardInv ==
  /\ point = "writing" => /\ heard <= newest[post]
                          /\ \A k \in DOMAIN proposals[post] : proposals[post][k] <= heard
  /\ point = "posted" => \E k \in DOMAIN proposals[post] : proposals[post][k] = heard
  /\ point \in {"writing", "posted"} /\ record[post].iterations = 0 => heard = 0

DecisionInv == DecisionTypeOK /\ PhaseInv

-----------------------------------------------------------------------------
(* Type correctness                                                         *)

LEMMA DecisionInvInit == DecisionInit => DecisionInv
BY DecisionAssumption DEF DecisionInit, DecisionInv, DecisionTypeOK, PhaseInv, Phases

LEMMA DecisionInvStep == DecisionInv /\ [DecisionNext]_decisionVars => DecisionInv'
<1> SUFFICES ASSUME DecisionInv, [DecisionNext]_decisionVars PROVE DecisionInv'
  OBVIOUS
<1> USE DecisionAssumption DEF DecisionInv, DecisionTypeOK, PhaseInv, Phases
<1>1. CASE StartDecisionCycle
  BY <1>1 DEF StartDecisionCycle, board, cycle
<1>2. CASE EndDecisionCycle
  BY <1>2 DEF EndDecisionCycle, board, cycle
<1>3. ASSUME NEW p \in Posts, PlanDraft(p) PROVE DecisionInv'
  BY <1>3 DEF PlanDraft, Take, SkipPost, NoProposalYet, board, cycle
<1>4. ASSUME NEW p \in Posts, PlanRevise(p) PROVE DecisionInv'
  BY <1>4 DEF PlanRevise, Take, SkipPost, NoProposalYet, Capped, board, cycle
<1>5. ASSUME NEW p \in Posts, PlanCapped(p) PROVE DecisionInv'
  BY <1>5 DEF PlanCapped, SkipPost, board, cycle
<1>6. ASSUME NEW p \in Posts, ReadThread(p) PROVE DecisionInv'
  BY <1>6 DEF ReadThread, Take, NoProposalYet, board, cycle
<1>7. CASE PlanFinalize
  BY <1>7 DEF PlanFinalize, Goto, board, cycle
<1>8. CASE PlanNothing
  BY <1>8 DEF PlanNothing, Leave, board, cycle
<1>9. CASE ReadFeedback
  BY <1>9 DEF ReadFeedback, Goto, board, cycle
<1>10. CASE PostProposal
  BY <1>10 DEF PostProposal, Goto, board, cycle
<1>11. CASE RecordProposal
  BY <1>11 DEF RecordProposal, Leave, board, cycle
<1>12. CASE OpenFinal
  BY <1>12 DEF OpenFinal, Goto, board, cycle
<1>13. CASE MarkSuperseded
  BY <1>13 DEF MarkSuperseded, Leave, board, cycle
<1>14. CASE FailPost
  <2>1. failures' \in 0..MaxFailures
    BY <1>14 DEF FailPost
  <2>2. ASSUME NEW p \in Posts, SkipPost(p), UNCHANGED <<decisionLive, board, record>> PROVE DecisionInv'
    BY <2>1, <2>2 DEF SkipPost, board
  <2>3. ASSUME Leave, UNCHANGED heard, UNCHANGED <<decisionLive, board, record>> PROVE DecisionInv'
    BY <2>1, <2>3 DEF Leave, board
  <2> QED
    BY <1>14, <2>2, <2>3 DEF FailPost
<1>15. CASE DecisionRestart
  BY <1>15 DEF DecisionRestart, board, cycle
<1>16. CASE Comment
  BY <1>16 DEF Comment, board, cycle
<1>17. CASE Vote
  BY <1>17 DEF Vote, board, cycle
<1>18. CASE SetStatus
  BY <1>18 DEF SetStatus, board, cycle
<1>19. CASE UNCHANGED decisionVars
  BY <1>19 DEF decisionVars, board, cycle
<1> QED
  BY <1>1, <1>2, <1>3, <1>4, <1>5, <1>6, <1>7, <1>8, <1>9, <1>10, <1>11, <1>12, <1>13, <1>14, <1>15, <1>16, <1>17, <1>18, <1>19
     DEF DecisionNext, DecisionCycle, PlanOne, Founders

\* Type correctness of the consent loop: posts, counters and the cycle's own
\* state stay in their ranges; above all, no decision is recorded with more
\* iterations than decision_max_iterations.
THEOREM DecisionLaneTypeOK == DecisionSpec => []DecisionTypeOK
<1>1. DecisionInv => DecisionTypeOK
  BY DEF DecisionInv
<1> QED
  BY <1>1, DecisionInvInit, DecisionInvStep, PTL DEF DecisionSpec

LEMMA DecisionInvHolds == DecisionSpec => []DecisionInv
BY DecisionInvInit, DecisionInvStep, PTL DEF DecisionSpec

-----------------------------------------------------------------------------
(* The iteration guard                                                      *)

\* What a posted proposal does to the threads.
LEMMA PostProposalEffect ==
  ASSUME DecisionTypeOK, PostProposal
  PROVE  /\ post \in Posts /\ point = "writing" /\ point' = "posted"
         /\ \A p \in Posts : p # post => proposals'[p] = proposals[p]
         /\ Len(proposals[post]) \in Nat
         /\ Len(proposals'[post]) = Len(proposals[post]) + 1
         /\ \A k \in 1..Len(proposals[post]) : proposals'[post][k] = proposals[post][k]
         /\ proposals'[post][Len(proposals[post]) + 1] = heard
<1>1. post \in Posts /\ point = "writing" /\ point' = "posted"
  BY DEF DecisionTypeOK, PostProposal, Goto
<1>2. proposals[post] \in Seq(0..MaxComments) /\ heard \in 0..MaxComments
  BY <1>1 DEF DecisionTypeOK
<1>3. proposals'[post] = Append(proposals[post], heard)
  BY <1>1 DEF DecisionTypeOK, PostProposal
<1>4. \A p \in Posts : p # post => proposals'[p] = proposals[p]
  BY DEF DecisionTypeOK, PostProposal
<1> QED
  BY <1>1, <1>2, <1>3, <1>4

\* What the record of a proposal does to the store.
LEMMA RecordProposalEffect ==
  ASSUME DecisionTypeOK, RecordProposal
  PROVE  /\ post \in Posts /\ point = "posted" /\ point' = "next"
         /\ \A p \in Posts : p # post => record'[p] = record[p]
         /\ record'[post].last = heard
         /\ record'[post].iterations = record[post].iterations + 1
<1>1. post \in Posts /\ point = "posted" /\ point' = "next"
  BY DEF DecisionTypeOK, RecordProposal, Leave
<1>2. record' = [record EXCEPT ![post] = [last |-> heard, iterations |-> record[post].iterations + 1]]
  BY DEF RecordProposal
<1>3. record \in [Posts -> [last : 0..MaxComments, iterations : 0..MaxIterations]]
  BY DEF DecisionTypeOK
<1> QED
  BY <1>1, <1>2, <1>3

\* A failure pays for the proposal that it leaves without a record.
LEMMA FailurePays ==
  ASSUME DecisionTypeOK, CapHolds, failures > 0, failures' = failures - 1,
         UNCHANGED <<proposals, record>>,
         point' # "posted" \/ UNCHANGED <<point, post>>
  PROVE  CapHolds'
<1> SUFFICES ASSUME NEW p \in Posts
             PROVE  Len(proposals[p])
                      <= record[p].iterations + (MaxFailures - (failures - 1))
                           + (IF post' = p /\ point' = "posted" THEN 1 ELSE 0)
  BY DEF CapHolds
<1>1. Len(proposals[p]) \in Nat /\ record[p].iterations \in Nat /\ failures \in Nat /\ MaxFailures \in Nat
  BY DecisionAssumption DEF DecisionTypeOK
<1>2. Len(proposals[p]) <= record[p].iterations + (MaxFailures - failures)
                             + (IF post = p /\ point = "posted" THEN 1 ELSE 0)
  BY DEF CapHolds
<1> QED
  BY <1>1, <1>2

\* The proposal posted is the one being recorded, until it is.
LEMMA PostKeepsCap == DecisionTypeOK /\ CapHolds /\ PostProposal => CapHolds'
<1> SUFFICES ASSUME DecisionTypeOK, CapHolds, PostProposal, NEW p \in Posts
             PROVE  Len(proposals'[p])
                      <= record'[p].iterations + (MaxFailures - failures')
                           + (IF post' = p /\ point' = "posted" THEN 1 ELSE 0)
  BY DEF CapHolds
<1>1. UNCHANGED <<record, failures, post>>
  BY DEF PostProposal, Goto
<1>2. Len(proposals[p]) <= record[p].iterations + (MaxFailures - failures)
                             + (IF post = p /\ point = "posted" THEN 1 ELSE 0)
  BY DEF CapHolds
<1>3. record[p].iterations \in Nat /\ failures \in Nat /\ MaxFailures \in Nat
  BY DecisionAssumption DEF DecisionTypeOK
<1>4. CASE p = post
  BY <1>1, <1>2, <1>3, <1>4, PostProposalEffect
<1>5. CASE p # post
  BY <1>1, <1>2, <1>3, <1>5, PostProposalEffect
<1> QED
  BY <1>4, <1>5

LEMMA RecordKeepsCap == DecisionTypeOK /\ CapHolds /\ RecordProposal => CapHolds'
<1> SUFFICES ASSUME DecisionTypeOK, CapHolds, RecordProposal, NEW p \in Posts
             PROVE  Len(proposals'[p])
                      <= record'[p].iterations + (MaxFailures - failures')
                           + (IF post' = p /\ point' = "posted" THEN 1 ELSE 0)
  BY DEF CapHolds
<1>1. UNCHANGED <<proposals, failures>>
  BY DEF RecordProposal, board
<1>2. Len(proposals[p]) <= record[p].iterations + (MaxFailures - failures)
                             + (IF post = p /\ point = "posted" THEN 1 ELSE 0)
  BY DEF CapHolds
<1>3. /\ Len(proposals[p]) \in Nat /\ record[p].iterations \in Nat
      /\ failures \in Nat /\ MaxFailures \in Nat
  BY DecisionAssumption DEF DecisionTypeOK
<1>4. CASE p = post
  BY <1>1, <1>2, <1>3, <1>4, RecordProposalEffect
<1>5. CASE p # post
  BY <1>1, <1>2, <1>3, <1>5, RecordProposalEffect
<1> QED
  BY <1>4, <1>5

LEMMA CapHoldsStep == DecisionInv /\ CapHolds /\ [DecisionNext]_decisionVars => CapHolds'
<1> SUFFICES ASSUME DecisionInv, CapHolds, [DecisionNext]_decisionVars PROVE CapHolds'
  OBVIOUS
<1> USE DecisionAssumption DEF DecisionInv, DecisionTypeOK, CapHolds
<1>1. CASE StartDecisionCycle
  BY <1>1 DEF StartDecisionCycle, board, cycle
<1>2. CASE EndDecisionCycle
  BY <1>2 DEF EndDecisionCycle, board, cycle
<1>3. ASSUME NEW p \in Posts, PlanDraft(p) PROVE CapHolds'
  BY <1>3 DEF PlanDraft, Take, SkipPost, board, cycle
<1>4. ASSUME NEW p \in Posts, PlanRevise(p) PROVE CapHolds'
  BY <1>4 DEF PlanRevise, Take, SkipPost, board, cycle
<1>5. ASSUME NEW p \in Posts, PlanCapped(p) PROVE CapHolds'
  BY <1>5 DEF PlanCapped, SkipPost, board, cycle
<1>6. ASSUME NEW p \in Posts, ReadThread(p) PROVE CapHolds'
  BY <1>6 DEF ReadThread, Take, board, cycle
<1>7. CASE PlanFinalize
  BY <1>7 DEF PlanFinalize, Goto, board, cycle
<1>8. CASE PlanNothing
  BY <1>8 DEF PlanNothing, Leave, board, cycle
<1>9. CASE ReadFeedback
  BY <1>9 DEF ReadFeedback, Goto, board, cycle
<1>10. CASE PostProposal
  BY <1>10, PostKeepsCap
<1>11. CASE RecordProposal
  BY <1>11, RecordKeepsCap
<1>12. CASE OpenFinal
  BY <1>12 DEF OpenFinal, Goto, board, cycle
<1>13. CASE MarkSuperseded
  BY <1>13 DEF MarkSuperseded, Leave, board, cycle
<1>14. CASE FailPost
  <2>1. UNCHANGED <<proposals, record>> /\ failures > 0 /\ failures' = failures - 1
    BY <1>14 DEF FailPost, board
  <2>2. point' # "posted"
    BY <1>14 DEF FailPost, SkipPost, Leave
  <2> QED
    BY <2>1, <2>2, FailurePays
<1>15. CASE DecisionRestart
  <2>1. UNCHANGED <<proposals, record>> /\ failures > 0 /\ failures' = failures - 1
    BY <1>15 DEF DecisionRestart, board
  <2>2. point' # "posted"
    BY <1>15 DEF DecisionRestart
  <2> QED
    BY <2>1, <2>2, FailurePays
<1>16. CASE Comment
  BY <1>16 DEF Comment, board, cycle
<1>17. CASE Vote
  BY <1>17 DEF Vote, board, cycle
<1>18. CASE SetStatus
  BY <1>18 DEF SetStatus, board, cycle
<1>19. CASE UNCHANGED decisionVars
  BY <1>19 DEF decisionVars, board, cycle
<1> QED
  BY <1>1, <1>2, <1>3, <1>4, <1>5, <1>6, <1>7, <1>8, <1>9, <1>10, <1>11, <1>12, <1>13, <1>14, <1>15, <1>16, <1>17, <1>18, <1>19
     DEF DecisionNext, DecisionCycle, PlanOne, Founders

\* The iteration guard: what the thread shows never exceeds what the store has
\* counted by more than the proposal being recorded and one per failure.
THEOREM LaneCap == DecisionSpec => []CapHolds
<1>1. ASSUME DecisionInit PROVE CapHolds
  <2> SUFFICES ASSUME NEW p \in Posts
               PROVE  Len(proposals[p])
                        <= record[p].iterations + (MaxFailures - failures)
                             + (IF post = p /\ point = "posted" THEN 1 ELSE 0)
    BY DEF CapHolds
  <2>1. Len(proposals[p]) = 0 /\ record[p].iterations = 0
    BY <1>1 DEF DecisionInit
  <2>2. failures = MaxFailures /\ point # "posted" /\ MaxFailures \in Nat
    BY <1>1, DecisionAssumption DEF DecisionInit
  <2> QED
    BY <2>1, <2>2
<1> QED
  BY <1>1, DecisionInvHolds, CapHoldsStep, PTL DEF DecisionSpec

-----------------------------------------------------------------------------
(* The order of the answers                                                 *)

OrderInv == AnswersInOrder /\ ThreadInv /\ HeardInv

LEMMA PostKeepsOrder == DecisionInv /\ OrderInv /\ PostProposal => OrderInv'
<1> SUFFICES ASSUME DecisionInv, OrderInv, PostProposal PROVE OrderInv'
  OBVIOUS
<1> DEFINE n == Len(proposals[post])
<1>1. /\ post \in Posts /\ point = "writing" /\ point' = "posted" /\ n \in Nat
      /\ \A p \in Posts : p # post => proposals'[p] = proposals[p]
      /\ Len(proposals'[post]) = n + 1
      /\ \A k \in 1..n : proposals'[post][k] = proposals[post][k]
      /\ proposals'[post][n + 1] = heard
  BY PostProposalEffect DEF DecisionInv
<1>2. UNCHANGED <<record, newest, heard, post>>
  BY DEF PostProposal, Goto
<1>3. \A p \in Posts : /\ DOMAIN proposals[p] = 1..Len(proposals[p])
                        /\ DOMAIN proposals'[p] = 1..Len(proposals'[p])
  <2>1. \A p \in Posts : proposals[p] \in Seq(0..MaxComments)
    BY DEF DecisionInv, DecisionTypeOK
  <2>2. proposals'[post] = Append(proposals[post], heard) /\ heard \in 0..MaxComments
    BY <1>1 DEF DecisionInv, DecisionTypeOK, PostProposal
  <2>3. proposals'[post] \in Seq(0..MaxComments)
    BY <1>1, <2>1, <2>2
  <2>4. \A p \in Posts : proposals'[p] \in Seq(0..MaxComments)
    BY <1>1, <2>1, <2>3
  <2> QED
    BY <2>1, <2>4
<1>4. /\ heard <= newest[post]
      /\ \A k \in 1..n : proposals[post][k] <= heard
      /\ record[post].iterations = 0 => heard = 0
  BY <1>1, <1>3 DEF OrderInv, HeardInv
<1>5. /\ \A k \in 2..n : proposals[post][k - 1] <= proposals[post][k]
      /\ record[post].iterations > 0 => \E k \in 1..n : proposals[post][k] = record[post].last
      /\ \A k \in 1..n : /\ proposals[post][k] <= newest[post]
                         /\ record[post].iterations = 0 => proposals[post][k] = 0
  BY <1>1, <1>3 DEF OrderInv, AnswersInOrder, ThreadInv
<1> HIDE DEF n
<1>6. \A k \in 1..(n + 1) : k \in 1..n \/ k = n + 1
  BY <1>1
<1>7. DOMAIN proposals'[post] = 1..(n + 1) /\ n + 1 \in 1..(n + 1) /\ 1..n \subseteq 1..(n + 1)
  BY <1>1, <1>3
<1>8. AnswersInOrder'
  <2>1. \A k \in 2..(n + 1) : proposals'[post][k - 1] <= proposals'[post][k]
    <3> SUFFICES ASSUME NEW k \in 2..(n + 1) PROVE proposals'[post][k - 1] <= proposals'[post][k]
      OBVIOUS
    <3>1. k - 1 \in 1..n
      BY <1>1
    <3>2. CASE k = n + 1
      BY <1>1, <1>4, <3>1, <3>2
    <3>3. CASE k # n + 1
      <4>1. k \in 2..n /\ k \in 1..n
        BY <1>1, <3>3
      <4> QED
        BY <1>1, <1>5, <3>1, <4>1
    <3> QED
      BY <3>2, <3>3
  <2>2. record[post].iterations > 0 => \E k \in 1..(n + 1) : proposals'[post][k] = record[post].last
    BY <1>1, <1>5, <1>7
  <2>3. ASSUME NEW p \in Posts, p # post
        PROVE  /\ \A k \in 2..Len(proposals'[p]) : proposals'[p][k - 1] <= proposals'[p][k]
               /\ record'[p].iterations > 0
                    => \E k \in DOMAIN proposals'[p] : proposals'[p][k] = record'[p].last
    BY <1>1, <1>2, <2>3 DEF OrderInv, AnswersInOrder
  <2> QED
    BY <1>1, <1>2, <1>7, <2>1, <2>2, <2>3 DEF AnswersInOrder
<1>9. ThreadInv'
  <2>1. \A k \in 1..(n + 1) : /\ proposals'[post][k] <= newest[post]
                              /\ record[post].iterations = 0 => proposals'[post][k] = 0
    BY <1>1, <1>4, <1>5, <1>6
  <2>2. ASSUME NEW p \in Posts, p # post, NEW k \in DOMAIN proposals'[p]
        PROVE  /\ proposals'[p][k] <= newest'[p]
               /\ record'[p].iterations = 0 => proposals'[p][k] = 0
    BY <1>1, <1>2, <2>2 DEF OrderInv, ThreadInv
  <2> QED
    BY <1>2, <1>7, <2>1, <2>2 DEF ThreadInv
<1>10. HeardInv'
  BY <1>1, <1>2, <1>4, <1>7 DEF HeardInv
<1> QED
  BY <1>8, <1>9, <1>10 DEF OrderInv

LEMMA RecordKeepsOrder == DecisionInv /\ OrderInv /\ RecordProposal => OrderInv'
<1> SUFFICES ASSUME DecisionInv, OrderInv, RecordProposal PROVE OrderInv'
  OBVIOUS
<1>1. /\ post \in Posts /\ point = "posted" /\ point' = "next"
      /\ \A p \in Posts : p # post => record'[p] = record[p]
      /\ record'[post].last = heard
      /\ record'[post].iterations = record[post].iterations + 1
  BY RecordProposalEffect DEF DecisionInv
<1>2. UNCHANGED <<proposals, newest>>
  BY DEF RecordProposal, board
<1>3. \A p \in Posts : record[p].iterations \in Nat
  BY DEF DecisionInv, DecisionTypeOK
<1>4. \E k \in DOMAIN proposals[post] : proposals[post][k] = heard
  BY <1>1 DEF OrderInv, HeardInv
<1>5. AnswersInOrder'
  BY <1>1, <1>2, <1>4 DEF OrderInv, AnswersInOrder
<1>6. ThreadInv'
  <2> SUFFICES ASSUME NEW p \in Posts, NEW k \in DOMAIN proposals[p]
               PROVE  /\ proposals[p][k] <= newest[p]
                      /\ record'[p].iterations = 0 => proposals[p][k] = 0
    BY <1>2 DEF ThreadInv
  <2>1. record'[p].iterations = 0 => record[p].iterations = 0
    BY <1>1, <1>3
  <2> QED
    BY <2>1 DEF OrderInv, ThreadInv
<1>7. HeardInv'
  BY <1>1 DEF HeardInv
<1> QED
  BY <1>5, <1>6, <1>7 DEF OrderInv

LEMMA OrderInvStep == DecisionInv /\ OrderInv /\ [DecisionNext]_decisionVars => OrderInv'
<1> SUFFICES ASSUME DecisionInv, OrderInv, [DecisionNext]_decisionVars PROVE OrderInv'
  OBVIOUS
<1> USE DecisionAssumption DEF DecisionInv, DecisionTypeOK, PhaseInv, OrderInv, AnswersInOrder, ThreadInv, HeardInv
<1>1. CASE StartDecisionCycle
  BY <1>1 DEF StartDecisionCycle, board, cycle
<1>2. CASE EndDecisionCycle
  BY <1>2 DEF EndDecisionCycle, board, cycle
<1>3. ASSUME NEW p \in Posts, PlanDraft(p) PROVE OrderInv'
  BY <1>3 DEF PlanDraft, Take, SkipPost, NoProposalYet, board, cycle
<1>4. ASSUME NEW p \in Posts, PlanRevise(p) PROVE OrderInv'
  BY <1>4 DEF PlanRevise, Take, SkipPost, NoProposalYet, board, cycle
<1>5. ASSUME NEW p \in Posts, PlanCapped(p) PROVE OrderInv'
  BY <1>5 DEF PlanCapped, SkipPost, board, cycle
<1>6. ASSUME NEW p \in Posts, ReadThread(p) PROVE OrderInv'
  BY <1>6 DEF ReadThread, Take, NoProposalYet, board, cycle
<1>7. CASE PlanFinalize
  BY <1>7 DEF PlanFinalize, Goto, board, cycle
<1>8. CASE PlanNothing
  BY <1>8 DEF PlanNothing, Leave, board, cycle
<1>9. CASE ReadFeedback
  BY <1>9 DEF ReadFeedback, Goto, board, cycle
<1>10. CASE PostProposal
  BY <1>10, PostKeepsOrder
<1>11. CASE RecordProposal
  BY <1>11, RecordKeepsOrder
<1>12. CASE OpenFinal
  BY <1>12 DEF OpenFinal, Goto, board, cycle
<1>13. CASE MarkSuperseded
  BY <1>13 DEF MarkSuperseded, Leave, board, cycle
<1>14. CASE FailPost
  BY <1>14 DEF FailPost, SkipPost, Leave, board, cycle
<1>15. CASE DecisionRestart
  BY <1>15 DEF DecisionRestart, board, cycle
<1>16. CASE Comment
  BY <1>16 DEF Comment, board, cycle
<1>17. CASE Vote
  BY <1>17 DEF Vote, board, cycle
<1>18. CASE SetStatus
  BY <1>18 DEF SetStatus, board, cycle
<1>19. CASE UNCHANGED decisionVars
  BY <1>19 DEF decisionVars, board, cycle
<1> QED
  BY <1>1, <1>2, <1>3, <1>4, <1>5, <1>6, <1>7, <1>8, <1>9, <1>10, <1>11, <1>12, <1>13, <1>14, <1>15, <1>16, <1>17, <1>18, <1>19
     DEF DecisionNext, DecisionCycle, PlanOne, Founders

LEMMA OrderInvHolds == DecisionSpec => []OrderInv
<1>1. DecisionInit => OrderInv
  BY DecisionAssumption DEF DecisionInit, OrderInv, AnswersInOrder, ThreadInv, HeardInv
<1> QED
  BY <1>1, DecisionInvHolds, OrderInvStep, PTL DEF DecisionSpec

\* The proposals of a thread answer its comments in order, and an iteration on
\* record has its proposal in the thread.
THEOREM LaneAnswersInOrder == DecisionSpec => []AnswersInOrder
<1>1. OrderInv => AnswersInOrder
  BY DEF OrderInv
<1> QED
  BY <1>1, OrderInvHolds, PTL

-----------------------------------------------------------------------------
(* The final post                                                           *)

FinalInv ==
  \A p \in Posts : finals[p] > 0 \/ p \in superseded => record[p].iterations > 0

LEMMA FinalInvStep == DecisionInv /\ FinalInv /\ [DecisionNext]_decisionVars => FinalInv'
<1> SUFFICES ASSUME DecisionInv, FinalInv, [DecisionNext]_decisionVars PROVE FinalInv'
  OBVIOUS
<1> USE DecisionAssumption DEF DecisionInv, DecisionTypeOK, PhaseInv, FinalInv
<1>1. CASE StartDecisionCycle
  BY <1>1 DEF StartDecisionCycle, board, cycle
<1>2. CASE EndDecisionCycle
  BY <1>2 DEF EndDecisionCycle, board, cycle
<1>3. ASSUME NEW p \in Posts, PlanDraft(p) PROVE FinalInv'
  BY <1>3 DEF PlanDraft, Take, SkipPost, board, cycle
<1>4. ASSUME NEW p \in Posts, PlanRevise(p) PROVE FinalInv'
  BY <1>4 DEF PlanRevise, Take, SkipPost, board, cycle
<1>5. ASSUME NEW p \in Posts, PlanCapped(p) PROVE FinalInv'
  BY <1>5 DEF PlanCapped, SkipPost, board, cycle
<1>6. ASSUME NEW p \in Posts, ReadThread(p) PROVE FinalInv'
  BY <1>6 DEF ReadThread, Take, board, cycle
<1>7. CASE PlanFinalize
  BY <1>7 DEF PlanFinalize, Goto, board, cycle
<1>8. CASE PlanNothing
  BY <1>8 DEF PlanNothing, Leave, board, cycle
<1>9. CASE ReadFeedback
  BY <1>9 DEF ReadFeedback, Goto, board, cycle
<1>10. CASE PostProposal
  BY <1>10 DEF PostProposal, Goto, board, cycle
<1>11. CASE RecordProposal
  <2>1. UNCHANGED <<finals, superseded>>
    BY <1>11 DEF RecordProposal, board
  <2>2. ASSUME NEW p \in Posts, record[p].iterations > 0 PROVE record'[p].iterations > 0
    <3>1. record[p].iterations \in Nat
      OBVIOUS
    <3>2. record'[p].iterations \in {record[p].iterations, record[p].iterations + 1}
      BY <1>11, RecordProposalEffect
    <3> QED
      BY <2>2, <3>1, <3>2
  <2> QED
    BY <2>1, <2>2
<1>12. CASE OpenFinal
  BY <1>12 DEF OpenFinal, Goto, board, cycle
<1>13. CASE MarkSuperseded
  BY <1>13 DEF MarkSuperseded, Leave, board, cycle
<1>14. CASE FailPost
  BY <1>14 DEF FailPost, SkipPost, Leave, board, cycle
<1>15. CASE DecisionRestart
  BY <1>15 DEF DecisionRestart, board, cycle
<1>16. CASE Comment
  BY <1>16 DEF Comment, board, cycle
<1>17. CASE Vote
  BY <1>17 DEF Vote, board, cycle
<1>18. CASE SetStatus
  BY <1>18 DEF SetStatus, board, cycle
<1>19. CASE UNCHANGED decisionVars
  BY <1>19 DEF decisionVars, board, cycle
<1> QED
  BY <1>1, <1>2, <1>3, <1>4, <1>5, <1>6, <1>7, <1>8, <1>9, <1>10, <1>11, <1>12, <1>13, <1>14, <1>15, <1>16, <1>17, <1>18, <1>19
     DEF DecisionNext, DecisionCycle, PlanOne, Founders

\* The vote is on a proposal: a decision with a final post, or one marked
\* superseded, has a proposal on record and in its thread.
THEOREM LaneFinalFollowsProposal == DecisionSpec => []FinalFollowsProposal
<1>1. DecisionInit => FinalInv
  BY DEF DecisionInit, FinalInv
<1>2. DecisionTypeOK /\ FinalInv /\ AnswersInOrder => FinalFollowsProposal
  BY DEF DecisionTypeOK, FinalInv, AnswersInOrder, FinalFollowsProposal
<1>3. DecisionInv => DecisionTypeOK
  BY DEF DecisionInv
<1> QED
  BY <1>1, <1>2, <1>3, DecisionInvHolds, FinalInvStep, LaneAnswersInOrder, PTL DEF DecisionSpec

-----------------------------------------------------------------------------
(* No comment is answered twice                                             *)

\* What the thread of p shows is on record: not beyond the last comment
\* answered, and nothing before the first record.
Settled(p) ==
  /\ \A k \in DOMAIN proposals[p] : proposals[p][k] <= record[p].last
  /\ record[p].iterations = 0 => proposals[p] = <<>>

\* As long as nothing fails every thread is settled but the one a proposal has
\* just been posted in, and what is being revised or written answers a newer
\* comment than all that was answered.
FreshInv ==
  failures = MaxFailures =>
    /\ \A p \in Posts : \A j, k \in DOMAIN proposals[p] :
         j < k => proposals[p][j] < proposals[p][k]
    /\ \A p \in Posts : ~(p = post /\ point = "posted") => Settled(p)
    /\ point = "revising" => record[post].last < newest[post]
    /\ point = "writing" => \/ record[post].last < heard
                            \/ record[post].iterations = 0
    /\ point = "posted" => \A k \in DOMAIN proposals[post] : proposals[post][k] <= heard

\* The store never names a comment the thread does not have.
LEMMA LastIsKnown ==
  ASSUME DecisionInv, OrderInv, NEW p \in Posts, record[p].iterations > 0
  PROVE  record[p].last <= newest[p]
<1>1. PICK k \in DOMAIN proposals[p] : proposals[p][k] = record[p].last
  BY DEF OrderInv, AnswersInOrder
<1>2. proposals[p][k] <= newest[p]
  BY <1>1 DEF OrderInv, ThreadInv
<1> QED
  BY <1>1, <1>2

LEMMA ThreadsAreNumbers ==
  ASSUME NEW s, NEW m \in Nat, s \in Seq(0..m)
  PROVE  DOMAIN s = 1..Len(s) /\ \A k \in DOMAIN s : k \in Int /\ s[k] \in Int
OBVIOUS

LEMMA PostKeepsFresh == DecisionInv /\ FreshInv /\ PostProposal => FreshInv'
<1> SUFFICES ASSUME DecisionInv, FreshInv, PostProposal, failures = MaxFailures PROVE FreshInv'
  BY DEF FreshInv, PostProposal
<1> DEFINE n == Len(proposals[post])
<1>1. /\ post \in Posts /\ point = "writing" /\ point' = "posted" /\ n \in Nat
      /\ \A p \in Posts : p # post => proposals'[p] = proposals[p]
      /\ Len(proposals'[post]) = n + 1
      /\ \A k \in 1..n : proposals'[post][k] = proposals[post][k]
      /\ proposals'[post][n + 1] = heard
  BY PostProposalEffect DEF DecisionInv
<1>2. UNCHANGED <<record, newest, heard, post, failures>>
  BY DEF PostProposal, Goto
<1>3. /\ DOMAIN proposals[post] = 1..n
      /\ DOMAIN proposals'[post] = 1..(n + 1)
  <2>1. proposals[post] \in Seq(0..MaxComments) /\ heard \in 0..MaxComments
    BY <1>1 DEF DecisionInv, DecisionTypeOK
  <2>2. proposals'[post] = Append(proposals[post], heard)
    BY <1>1 DEF DecisionInv, DecisionTypeOK, PostProposal
  <2> QED
    BY <2>1, <2>2
<1>4. \A k \in 1..n : proposals[post][k] < heard
  <2>1. Settled(post)
    BY <1>1 DEF FreshInv
  <2>2. CASE record[post].iterations = 0
    BY <1>1, <2>1, <2>2 DEF Settled
  <2>3. CASE record[post].last < heard
    <3> HIDE DEF n
    <3>1. \A k \in 1..n : /\ proposals[post][k] <= record[post].last
                          /\ proposals[post][k] \in Int
      <4>1. proposals[post] \in Seq(0..MaxComments) /\ MaxComments \in Nat
        BY <1>1, DecisionAssumption DEF DecisionInv, DecisionTypeOK
      <4>2. \A k \in DOMAIN proposals[post] : proposals[post][k] \in Int
        BY <4>1, ThreadsAreNumbers
      <4> QED
        BY <1>3, <2>1, <4>2 DEF Settled
    <3>2. record[post].last \in Int /\ heard \in Int
      BY <1>1 DEF DecisionInv, DecisionTypeOK
    <3> QED
      BY <2>3, <3>1, <3>2
  <2> QED
    BY <1>1, <2>2, <2>3 DEF FreshInv
<1>5. heard \in Int
  BY DEF DecisionInv, DecisionTypeOK
<1>6. \A k \in 1..(n + 1) : k \in 1..n \/ k = n + 1
  BY <1>1
<1>7. ASSUME NEW p \in Posts, NEW j \in DOMAIN proposals'[p], NEW k \in DOMAIN proposals'[p], j < k
      PROVE  proposals'[p][j] < proposals'[p][k]
  <2>1. CASE p # post
    BY <1>1, <1>7, <2>1 DEF FreshInv
  <2>2. CASE p = post
    <3>1. j \in 1..n
      BY <1>1, <1>3, <1>7, <2>2
    <3>2. CASE k \in 1..n
      BY <1>1, <1>3, <1>7, <2>2, <3>1, <3>2 DEF FreshInv
    <3>3. CASE k = n + 1
      BY <1>1, <1>4, <2>2, <3>1, <3>3
    <3> QED
      BY <1>3, <1>6, <2>2, <3>2, <3>3
  <2> QED
    BY <2>1, <2>2
<1>8. ASSUME NEW p \in Posts, p # post PROVE Settled(p)'
  BY <1>1, <1>2, <1>8 DEF FreshInv, Settled
<1>9. \A k \in DOMAIN proposals'[post] : proposals'[post][k] <= heard
  <2> HIDE DEF n
  <2> SUFFICES ASSUME NEW k \in 1..(n + 1) PROVE proposals'[post][k] <= heard
    BY <1>3
  <2>1. CASE k \in 1..n
    <3>1. proposals[post][k] < heard /\ proposals'[post][k] = proposals[post][k]
      BY <1>1, <1>4, <2>1
    <3>2. proposals[post] \in Seq(0..MaxComments) /\ MaxComments \in Nat
      BY <1>1, DecisionAssumption DEF DecisionInv, DecisionTypeOK
    <3>3. proposals[post][k] \in Int
      BY <1>3, <2>1, <3>2, ThreadsAreNumbers
    <3> QED
      BY <1>5, <3>1, <3>3
  <2>2. CASE k = n + 1
    BY <1>1, <1>5, <2>2
  <2> QED
    BY <1>6, <2>1, <2>2
<1> QED
  BY <1>1, <1>2, <1>7, <1>8, <1>9 DEF FreshInv

LEMMA RecordKeepsFresh == DecisionInv /\ FreshInv /\ RecordProposal => FreshInv'
<1> SUFFICES ASSUME DecisionInv, FreshInv, RecordProposal, failures = MaxFailures PROVE FreshInv'
  BY DEF FreshInv, RecordProposal
<1>1. /\ post \in Posts /\ point = "posted" /\ point' = "next"
      /\ \A p \in Posts : p # post => record'[p] = record[p]
      /\ record'[post].last = heard
      /\ record'[post].iterations = record[post].iterations + 1
  BY RecordProposalEffect DEF DecisionInv
<1>2. UNCHANGED <<proposals, newest, failures>>
  BY DEF RecordProposal, board
<1>3. record'[post].iterations # 0
  BY <1>1 DEF DecisionInv, DecisionTypeOK
<1>4. ASSUME NEW p \in Posts PROVE Settled(p)'
  <2>1. CASE p = post
    BY <1>1, <1>2, <1>3, <2>1 DEF FreshInv, Settled
  <2>2. CASE p # post
    BY <1>1, <1>2, <2>2 DEF FreshInv, Settled
  <2> QED
    BY <2>1, <2>2
<1> QED
  BY <1>1, <1>2, <1>4 DEF FreshInv

LEMMA FreshInvStep == DecisionInv /\ OrderInv /\ FreshInv /\ [DecisionNext]_decisionVars => FreshInv'
<1> SUFFICES ASSUME DecisionInv, OrderInv, FreshInv, [DecisionNext]_decisionVars PROVE FreshInv'
  OBVIOUS
<1> USE DecisionAssumption DEF DecisionInv, DecisionTypeOK, FreshInv, Settled
<1>1. CASE StartDecisionCycle
  BY <1>1 DEF StartDecisionCycle, board, cycle
<1>2. CASE EndDecisionCycle
  BY <1>2 DEF EndDecisionCycle, board, cycle
<1>3. ASSUME NEW p \in Posts, PlanDraft(p) PROVE FreshInv'
  BY <1>3 DEF PlanDraft, Take, SkipPost, NoProposalYet, board, cycle
<1>4. ASSUME NEW p \in Posts, PlanRevise(p) PROVE FreshInv'
  <2>1. record[p].last < newest[p]
    <3>1. record[p].iterations > 0
      BY <1>4 DEF PlanRevise, NoProposalYet
    <3>2. record[p].last <= newest[p]
      BY <3>1, LastIsKnown DEF DecisionInv
    <3> QED
      BY <1>4, <3>2 DEF PlanRevise, IsUnprocessed
  <2> QED
    BY <1>4, <2>1 DEF PlanRevise, Take, SkipPost, board, cycle
<1>5. ASSUME NEW p \in Posts, PlanCapped(p) PROVE FreshInv'
  BY <1>5 DEF PlanCapped, SkipPost, board, cycle
<1>6. ASSUME NEW p \in Posts, ReadThread(p) PROVE FreshInv'
  BY <1>6 DEF ReadThread, Take, board, cycle
<1>7. CASE PlanFinalize
  BY <1>7 DEF PlanFinalize, Goto, board, cycle
<1>8. CASE PlanNothing
  BY <1>8 DEF PlanNothing, Leave, board, cycle
<1>9. CASE ReadFeedback
  BY <1>9 DEF ReadFeedback, Goto, board, cycle
<1>10. CASE PostProposal
  BY <1>10, PostKeepsFresh
<1>11. CASE RecordProposal
  BY <1>11, RecordKeepsFresh
<1>12. CASE OpenFinal
  BY <1>12 DEF OpenFinal, Goto, board, cycle
<1>13. CASE MarkSuperseded
  BY <1>13 DEF MarkSuperseded, Leave, board, cycle
<1>14. CASE FailPost \/ DecisionRestart
  BY <1>14 DEF FailPost, DecisionRestart
<1>15. CASE Comment
  BY <1>15 DEF Comment, board, cycle
<1>16. CASE Vote
  BY <1>16 DEF Vote, board, cycle
<1>17. CASE SetStatus
  BY <1>17 DEF SetStatus, board, cycle
<1>18. CASE UNCHANGED decisionVars
  BY <1>18 DEF decisionVars, board, cycle
<1> QED
  BY <1>1, <1>2, <1>3, <1>4, <1>5, <1>6, <1>7, <1>8, <1>9, <1>10, <1>11, <1>12, <1>13, <1>14, <1>15, <1>16, <1>17, <1>18
     DEF DecisionNext, DecisionCycle, PlanOne, Founders

\* As long as nothing fails, no comment of a thread is answered by two proposals.
THEOREM LaneNeverTwice == DecisionSpec => []NeverTwiceUnlessFailed
<1>1. DecisionInit => FreshInv
  BY DecisionAssumption DEF DecisionInit, FreshInv, Settled
<1>2. DecisionInv /\ FreshInv => NeverTwiceUnlessFailed
  <2> SUFFICES ASSUME DecisionInv, FreshInv, failures = MaxFailures,
                      NEW p \in Posts, NEW j \in DOMAIN proposals[p], NEW k \in DOMAIN proposals[p],
                      j # k
               PROVE  proposals[p][j] # proposals[p][k]
    BY DEF NeverTwiceUnlessFailed
  <2>1. proposals[p] \in Seq(0..MaxComments)
    BY DEF DecisionInv, DecisionTypeOK
  <2>2. j \in Int /\ k \in Int /\ proposals[p][j] \in Int /\ proposals[p][k] \in Int
    BY <2>1, ThreadsAreNumbers, DecisionAssumption
  <2>3. CASE j < k
    BY <2>2, <2>3 DEF FreshInv
  <2>4. CASE k < j
    BY <2>2, <2>4 DEF FreshInv
  <2> QED
    BY <2>2, <2>3, <2>4
<1> QED
  BY <1>1, <1>2, DecisionInvHolds, OrderInvHolds, FreshInvStep, PTL DEF DecisionSpec
=============================================================================
