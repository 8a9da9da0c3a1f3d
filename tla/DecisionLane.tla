---------------------------- MODULE DecisionLane ----------------------------
(***************************************************************************)
(* The consent loop of wgmesh_pipeline/decision_lane: every cycle takes    *)
(* one step for each board post the founders have flagged.  It drafts a    *)
(* proposal, revises it on a co-founder's comment, opens the final         *)
(* proposal once the post has the votes, or does nothing.  The board is    *)
(* read and written one request at a time while the founders use it, and   *)
(* a request, the recipe or the process may fail between two of them.      *)
(*                                                                         *)
(* A thread is reduced to the comments that count: the co-founders'        *)
(* comments are numbered in the order they are made, and a proposal is the *)
(* number of the comment it answers (0: it answers none).                  *)
(***************************************************************************)
EXTENDS Integers, Sequences

CONSTANTS
  Posts,          \* decision posts on the board
  NoPost,         \* no post is being worked on
  MaxIterations,  \* decision_max_iterations
  Cofounders,     \* decision_cofounder_count
  LiveModes,      \* what DECISION_LANE_LIVE may be when the process starts
  MaxComments,    \* bound: co-founder comments on one post
  MaxFinals,      \* bound: final posts counted per decision (then the count stays)
  MaxFailures     \* bound: failed steps and crashes

ASSUME DecisionAssumption ==
  /\ NoPost \notin Posts
  /\ MaxIterations \in Nat \ {0} /\ Cofounders \in Nat \ {0}
  /\ LiveModes \subseteq BOOLEAN
  /\ MaxComments \in Nat /\ MaxFinals \in Nat \ {0} /\ MaxFailures \in Nat

VARIABLES
  decisionLive, \* config.decision_lane_live
  asked,       \* board: posts in Needs Refinement
  newest,      \* board: number of the newest co-founder comment of a post
  votes,       \* board: the post's approve-votes
  proposals,   \* board: the comment each proposal in the thread answers
  finals,      \* board: final proposal posts opened for this decision
  superseded,  \* board: posts marked superseded
  record,      \* store: decision_posts, last comment id and iterations
  point,       \* where run_decision_cycle stands
  post,        \* the post it is working on
  heard,       \* the comment it has read last for that post
  toCome,      \* posts of the listing still to come
  failures     \* failures still allowed

board == <<asked, newest, votes, proposals, finals, superseded>>
cycle == <<point, post, heard, toCome>>
decisionVars == <<decisionLive, board, record, cycle, failures>>

Phases == {"idle", "next", "weighing", "revising", "writing", "posted", "agreed", "opened"}

DecisionTypeOK ==
  /\ decisionLive \in BOOLEAN
  /\ asked \in SUBSET Posts
  /\ newest \in [Posts -> 0..MaxComments]
  /\ votes \in [Posts -> 0..Cofounders]
  /\ proposals \in [Posts -> Seq(0..MaxComments)]
  /\ finals \in [Posts -> 0..MaxFinals]
  /\ superseded \in SUBSET Posts
  /\ record \in [Posts -> [last : 0..MaxComments, iterations : 0..MaxIterations]]
  /\ point \in Phases
  /\ post \in Posts \cup {NoPost}
  /\ post = NoPost <=> point \in {"idle", "next"}
  /\ heard \in 0..MaxComments
  /\ toCome \in SUBSET Posts
  /\ post \notin toCome
  /\ failures \in 0..MaxFailures

DecisionInit ==
  /\ decisionLive \in LiveModes
  /\ asked = {}
  /\ newest = [p \in Posts |-> 0]
  /\ votes = [p \in Posts |-> 0]
  /\ proposals = [p \in Posts |-> <<>>]
  /\ finals = [p \in Posts |-> 0]
  /\ superseded = {}
  /\ record = [p \in Posts |-> [last |-> 0, iterations |-> 0]]
  /\ point = "idle" /\ post = NoPost /\ heard = 0 /\ toCome = {}
  /\ failures = MaxFailures

-----------------------------------------------------------------------------
(* What the lane decides by                                                *)

RequiredApprovals(tier) == IF tier = "routine" THEN 1 ELSE Cofounders

\* PHASE1_RISK_TIER is routine.
IsApproved(p) == votes[p] >= RequiredApprovals("routine")

\* Fault: a post that has votes is not drafted for.
NoProposalYetNorVotes(p) == record[p].iterations = 0 /\ votes[p] = 0

\* get_decision_state is None: no iteration was ever recorded.
NoProposalYet(p) == record[p].iterations = 0

\* Fault: the marker of the last comment answered is not consulted.
IsUnprocessedEver(p) == newest[p] # 0

\* is_unprocessed: there is a newest co-founder comment, and not the last one.
IsUnprocessed(p) == newest[p] # 0 /\ newest[p] # record[p].last

Capped(p) == record[p].iterations >= MaxIterations

-----------------------------------------------------------------------------
(* run_decision_cycle                                                      *)

\* list_decision_asks.
StartDecisionCycle ==
  /\ point = "idle" /\ asked # {}
  /\ point' = "next"
  /\ toCome' = asked
  /\ UNCHANGED <<decisionLive, board, record, post, heard, failures>>

EndDecisionCycle ==
  /\ point = "next" /\ toCome = {}
  /\ point' = "idle" /\ heard' = 0
  /\ UNCHANGED <<decisionLive, board, record, post, toCome, failures>>

\* Go on with p at point to.
Take(p, to) ==
  /\ point = "next" /\ p \in toCome
  /\ point' = to /\ post' = p
  /\ toCome' = toCome \ {p}

Goto(from, to) == point = from /\ point' = to /\ UNCHANGED <<post, toCome>>

Leave == point' = "next" /\ post' = NoPost /\ UNCHANGED toCome

\* The step planned for p is noop, or the lane is in shadow mode.
SkipPost(p) ==
  /\ point = "next" /\ p \in toCome
  /\ toCome' = toCome \ {p}
  /\ UNCHANGED <<point, post, heard>>

PlanDraft(p) ==
  /\ NoProposalYet(p)
  /\ IF decisionLive THEN Take(p, "writing") /\ heard' = 0 ELSE SkipPost(p)
  /\ UNCHANGED <<decisionLive, board, record, failures>>

PlanRevise(p) ==
  /\ ~NoProposalYet(p) /\ IsUnprocessed(p) /\ ~Capped(p)
  /\ IF decisionLive THEN Take(p, "revising") /\ UNCHANGED heard ELSE SkipPost(p)
  /\ UNCHANGED <<decisionLive, board, record, failures>>

\* Max iterations reached: noop, whatever the votes are.
PlanCapped(p) ==
  /\ ~NoProposalYet(p) /\ IsUnprocessed(p) /\ Capped(p)
  /\ SkipPost(p)
  /\ UNCHANGED <<decisionLive, board, record, failures>>

\* Nothing new in the thread: go and read the votes.
ReadThread(p) ==
  /\ ~NoProposalYet(p) /\ ~IsUnprocessed(p)
  /\ Take(p, "weighing") /\ heard' = newest[p]
  /\ UNCHANGED <<decisionLive, board, record, failures>>

PlanFinalize ==
  /\ Goto("weighing", "agreed")
  /\ IsApproved(post) /\ decisionLive
  /\ UNCHANGED <<decisionLive, board, record, heard, failures>>

PlanNothing ==
  /\ point = "weighing" /\ ~(IsApproved(post) /\ decisionLive)
  /\ Leave
  /\ UNCHANGED <<decisionLive, board, record, heard, failures>>

\* The revision lists the thread once more, and answers what it finds there.
ReadFeedback ==
  /\ Goto("revising", "writing")
  /\ heard' = newest[post]
  /\ UNCHANGED <<decisionLive, board, record, failures>>

\* proposal_fn, then post_proposal_comment.
PostProposal ==
  /\ Goto("writing", "posted")
  /\ proposals' = [proposals EXCEPT ![post] = Append(@, heard)]
  /\ UNCHANGED <<decisionLive, asked, newest, votes, finals, superseded, record, heard, failures>>

\* Fault: the thread as it is now, and not what was answered, is recorded.
RecordNewest ==
  /\ point = "posted" /\ Leave
  /\ record' = [record EXCEPT ![post] = [last |-> newest[post], iterations |-> @.iterations + 1]]
  /\ UNCHANGED <<decisionLive, board, heard, failures>>

\* Fault: the iteration is not counted.
RecordLastOnly ==
  /\ point = "posted" /\ Leave
  /\ record' = [record EXCEPT ![post] = [last |-> heard,
                                        iterations |-> IF @.iterations = 0 THEN 1 ELSE @.iterations]]
  /\ UNCHANGED <<decisionLive, board, heard, failures>>

\* record_decision_proposal.
RecordProposal ==
  /\ point = "posted" /\ Leave
  /\ record' = [record EXCEPT ![post] = [last |-> heard, iterations |-> @.iterations + 1]]
  /\ UNCHANGED <<decisionLive, board, heard, failures>>

\* open_final_proposal: a new post, with a text drafted anew for it.
OpenFinal ==
  /\ Goto("agreed", "opened")
  /\ finals' = [finals EXCEPT ![post] = IF @ < MaxFinals THEN @ + 1 ELSE @]
  /\ UNCHANGED <<decisionLive, asked, newest, votes, proposals, superseded, record, heard, failures>>

\* mark_superseded: a comment; the post keeps its status.
MarkSuperseded ==
  /\ point = "opened" /\ Leave
  /\ superseded' = superseded \cup {post}
  /\ UNCHANGED <<decisionLive, asked, newest, votes, proposals, finals, record, heard, failures>>

\* A request, the recipe, the sanitise wall or the store raises: the cycle logs
\* it and continues with the next post.
FailPost ==
  /\ failures > 0 /\ failures' = failures - 1
  /\ \/ \E p \in Posts : SkipPost(p)
     \/ post # NoPost /\ Leave /\ UNCHANGED heard
  /\ UNCHANGED <<decisionLive, board, record>>

\* The process ends anywhere and starts again, perhaps in the other mode.
DecisionRestart ==
  /\ failures > 0 /\ failures' = failures - 1
  /\ decisionLive' \in LiveModes
  /\ point' = "idle" /\ post' = NoPost /\ heard' = 0 /\ toCome' = {}
  /\ UNCHANGED <<board, record>>

-----------------------------------------------------------------------------
(* The founders                                                            *)

Comment ==
  /\ \E p \in Posts : newest[p] < MaxComments /\ newest' = [newest EXCEPT ![p] = @ + 1]
  /\ UNCHANGED <<decisionLive, asked, votes, proposals, finals, superseded, record, cycle, failures>>

Vote ==
  /\ \E p \in Posts, n \in 0..Cofounders :
       /\ n \in {votes[p] - 1, votes[p] + 1}
       /\ votes' = [votes EXCEPT ![p] = n]
  /\ UNCHANGED <<decisionLive, asked, newest, proposals, finals, superseded, record, cycle, failures>>

\* A post enters or leaves Needs Refinement.
SetStatus ==
  /\ \E p \in Posts : asked' = IF p \in asked THEN asked \ {p} ELSE asked \cup {p}
  /\ UNCHANGED <<decisionLive, newest, votes, proposals, finals, superseded, record, cycle, failures>>

-----------------------------------------------------------------------------

PlanOne(p) == PlanDraft(p) \/ PlanRevise(p) \/ PlanCapped(p) \/ ReadThread(p)

DecisionCycle ==
  \/ StartDecisionCycle \/ EndDecisionCycle \/ (\E p \in Posts : PlanOne(p))
  \/ PlanFinalize \/ PlanNothing \/ ReadFeedback \/ PostProposal \/ RecordProposal
  \/ OpenFinal \/ MarkSuperseded

Founders == Comment \/ Vote \/ SetStatus

DecisionNext == DecisionCycle \/ FailPost \/ DecisionRestart \/ Founders

DecisionSpec == DecisionInit /\ [][DecisionNext]_decisionVars

\* The control loop runs the cycle on its interval, and a step that can be
\* taken is taken (or fails).
DecisionFairness == WF_decisionVars(DecisionCycle)

DecisionFairSpec == DecisionSpec /\ DecisionFairness

-----------------------------------------------------------------------------
(* Properties                                                              *)

Unheard(p) == newest[p] > record[p].last

\* The iteration guard holds across failures and restarts: the thread shows at
\* most the recorded iterations, one more that is being recorded, and one for
\* each failure that came between the comment and its record.
CapHolds ==
  \A p \in Posts :
    Len(proposals[p]) <= record[p].iterations + (MaxFailures - failures)
                           + (IF post = p /\ point = "posted" THEN 1 ELSE 0)

\* The proposals in a thread answer its comments in order, and the store never
\* claims an answer that the thread does not show.
AnswersInOrder ==
  \A p \in Posts :
    /\ \A k \in 2..Len(proposals[p]) : proposals[p][k - 1] <= proposals[p][k]
    /\ record[p].iterations > 0
         => \E k \in DOMAIN proposals[p] : proposals[p][k] = record[p].last

\* Without a failure no comment is answered twice.
NeverTwiceUnlessFailed ==
  failures = MaxFailures =>
    \A p \in Posts : \A j, k \in DOMAIN proposals[p] :
      j # k => proposals[p][j] # proposals[p][k]

\* The vote is on a proposal: no final post, and no mark, before the thread has
\* a proposal that is on record.
FinalFollowsProposal ==
  \A p \in Posts :
    finals[p] > 0 \/ p \in superseded => record[p].iterations > 0 /\ proposals[p] # <<>>

\* Every co-founder comment is answered in the end, while the post stays in
\* Needs Refinement, the lane is live and revisions are left.
FeedbackIsAnswered ==
  \A p \in Posts : \A c \in 1..MaxComments :
    newest[p] >= c ~> \/ \E k \in DOMAIN proposals[p] : proposals[p][k] >= c
                      \/ Capped(p) \/ p \notin asked \/ ~decisionLive

\* An approved post whose feedback is answered is decided and retired, in spite
\* of failures: unless it loses its votes, its status or its last word first.
ApprovalIsDecided ==
  \A p \in Posts :
    ~NoProposalYet(p) /\ IsApproved(p)
      ~> p \in superseded \/ Unheard(p) \/ ~IsApproved(p) \/ p \notin asked \/ ~decisionLive

\* The phase 1 plan, line 199: at the threshold the lane opens the final post
\* and records the decision as terminal; so a decision has one final post.
OneFinalPerDecision == failures = MaxFailures => \A p \in Posts : finals[p] <= 1
=============================================================================
