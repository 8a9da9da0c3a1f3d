--------------------------- MODULE QuackbackLane ---------------------------
(***************************************************************************)
(* The pipeline with the Quackback board as its issue surface: founders    *)
(* decide about posts on the board, the poller ingests what they accept    *)
(* (reconcile_quackback, map_quackback_post), drives it through its stages *)
(* and mirrors milestones back (_mirror_quackback), while the modules of   *)
(* the control loop use the same forge object between two ticks.           *)
(*                                                                         *)
(* A tick is synchronous; it is cut where it waits on the board, so that   *)
(* founders and GitHub may act between any two of its steps.  What a graph *)
(* node does inside a stage is IssuePoller's subject and one step here.    *)
(***************************************************************************)
EXTENDS IssueStore

CONSTANTS
  Posts,           \* posts that are, or may come to be, on the board
  NoPost,          \* the post of an idle poller
  Modes,           \* PIPELINE_MODE values a restart may come up with
  LoopEnabled,     \* values CONTROL_LOOP_ENABLED may have
  AcceptGateLive,  \* ACCEPT_GATE_LIVE
  MaxActs,         \* bound: acts of founders
  MaxFailures      \* bound: failed board requests, ingests cut short and restarts

ASSUME QuackbackAssumption ==
  /\ NoPost \notin Posts
  /\ Modes \subseteq {"shadow", "spec-only", "live"}
  /\ LoopEnabled \subseteq BOOLEAN
  /\ AcceptGateLive \in BOOLEAN
  /\ MaxActs \in Nat
  /\ MaxFailures \in Nat

VARIABLES
  status,      \* the board: decision status of each post
  fresh,       \* posts whose updatedAt is not the accept marker on record
  number,      \* the store's post-id map: the number of a post, 0 if it has none
  lastNumber,  \* sqlite_sequence of that table
  handle,      \* the forge's in-memory map, _id_map: 0 if it has none
  lastHandle,  \* _id_counter
  stage,       \* stage of the issue row under the post's number
  pr,          \* the implementation PR of that number, on record once it exists
  mode,        \* config.mode of the running process
  loopOn,      \* config.control_loop_enabled of the running process
  job,         \* where the current tick is
  touched,     \* posts changed on the board since the tick last read it
  amiss,       \* history: posts whose last milestone was not written to them, or
               \* that carry one of another post
  asked,       \* history: posts a founder has acted on since they were last queued
  acts,        \* acts of founders still allowed
  failures     \* failures still allowed

board   == <<status, fresh, touched>>
store   == <<number, lastNumber, stage>>
memory  == <<handle, lastHandle>>
process == <<mode, loopOn>>
history == <<amiss, asked>>
budgets == <<acts, failures>>
vars == <<board, store, memory, pr, process, job, history, budgets>>

-----------------------------------------------------------------------------
(* Values                                                                  *)

\* "Accepted" is Accepted for Build; Out stands for every status a founder holds
\* a post back with.
Out == "Out"
ActiveLane == {"Accepted", "Building", "ReadyForReview", "Shipped"}
BoxSettable == {"Building", "ReadyForReview", "Shipped"}
NotPosted == "NotPosted"
Statuses == ActiveLane \cup {Out, NotPosted}

\* Fault: the merge milestone is mirrored like the one before it.
StatusForUpToReview(s) ==
  IF s \in {"reviewed", "awaiting_merge", "merged"} THEN "ReadyForReview" ELSE "Building"

\* STAGE_TO_STATUS, for the stages that are mirrored.
StatusFor(s) ==
  CASE s = "merged"                         -> "Shipped"
    [] s \in {"reviewed", "awaiting_merge"} -> "ReadyForReview"
    [] OTHER                                -> "Building"

Phases == {"idle", "mapping", "queueing", "started", "reading", "writing", "mirrored"}

\* todo: posts of the listing still to be handled; new: those of them that were
\* fresh when listed.  post, stage: the claim; milestone: the stage to mirror.
Job == [phase : Phases, todo : SUBSET Posts, new : SUBSET Posts,
        post : Posts \cup {NoPost}, stage : Stages \cup {Absent},
        milestone : {"none", "triaged", "spec_ready", "reviewed", "merged"}]

Idle == [phase |-> "idle", todo |-> {}, new |-> {}, post |-> NoPost, stage |-> Absent,
         milestone |-> "none"]

TypeOK ==
  /\ status \in [Posts -> Statuses]
  /\ fresh \in SUBSET Posts
  /\ number \in [Posts -> Nat] /\ lastNumber \in Nat
  /\ handle \in [Posts -> Nat] /\ lastHandle \in Nat
  /\ stage \in [Posts -> Stages \cup {Absent}]
  /\ pr \in [Posts -> {"none", "open", "merged", "closed"}]
  /\ mode \in Modes /\ loopOn \in LoopEnabled
  /\ job \in Job
  /\ job.phase \notin {"idle", "mapping"} => job.post \in Posts
  /\ touched \in SUBSET Posts
  /\ amiss \in SUBSET Posts /\ asked \in SUBSET Posts
  /\ acts \in 0..MaxActs /\ failures \in 0..MaxFailures

\* Posts as the founders and earlier suggestions have left them; an empty store.
Init ==
  /\ status \in [Posts -> {NotPosted, Out, "Accepted"}]
  /\ fresh = Posts
  /\ number = [p \in Posts |-> 0] /\ lastNumber = 0
  /\ handle = [p \in Posts |-> 0] /\ lastHandle = 0
  /\ stage = [p \in Posts |-> Absent]
  /\ pr = [p \in Posts |-> "none"]
  /\ mode \in Modes
  /\ loopOn \in LoopEnabled
  /\ job = Idle
  /\ touched = {}
  /\ amiss = {} /\ asked = Posts
  /\ acts = MaxActs /\ failures = MaxFailures

-----------------------------------------------------------------------------
(* The two id maps                                                         *)

\* _lookup_post_id: the in-memory map first, the store's behind it.  The two
\* count from 1 on their own.
Resolves(p, q) ==
  \/ handle[q] = number[p]
  \/ q = p /\ \A r \in Posts : handle[r] # number[p]

\* _number_for: a post without a handle gets the next one.
NumberFor(p) ==
  IF handle[p] # 0 THEN UNCHANGED <<handle, lastHandle>>
  ELSE /\ lastHandle' = lastHandle + 1
       /\ handle' = [handle EXCEPT ![p] = lastHandle']

\* A write to a post renews its updatedAt.
Touch(p) == fresh' = fresh \cup {p} /\ touched' = touched \cup {p}

-----------------------------------------------------------------------------
(* Ingest                                                                  *)

\* Fault: whatever is in the box's lane is ingested.
IngestedInLane(p) == status[p] \in ActiveLane

\* Only this status is a founder's word to build.
Ingested(p) == status[p] = "Accepted"

\* list_accepted_posts: one request.  A failed one ends the tick.
ListAccepted ==
  /\ job = Idle
  /\ LET listed == {p \in Posts : Ingested(p)} IN
     job' = [Idle EXCEPT !.phase = "mapping", !.todo = listed, !.new = listed \cap fresh]
  /\ touched' = {}
  /\ UNCHANGED <<status, fresh, store, memory, pr, process, history, budgets>>

\* Fault: a post that has a number is never fresh again.
MarkerIsNewForUnknown(p) == number[p] = 0

\* map_quackback_post: unknown, or listed with another marker than the recorded.
MarkerIsNew(p) == number[p] = 0 \/ p \in job.new

MapPost ==
  /\ job.phase = "mapping"
  /\ \E p \in job.todo :
       IF MarkerIsNew(p)
         THEN /\ lastNumber' = IF number[p] = 0 THEN lastNumber + 1 ELSE lastNumber
              /\ number' = IF number[p] = 0 THEN [number EXCEPT ![p] = lastNumber'] ELSE number
              \* The listed marker is recorded, which may be an old one by now.
              /\ fresh' = (fresh \ {p}) \cup (touched \cap {p})
              /\ job' = [job EXCEPT !.phase = "queueing", !.post = p, !.todo = @ \ {p}]
         ELSE /\ job' = [job EXCEPT !.todo = @ \ {p}]
              /\ UNCHANGED <<number, lastNumber, fresh>>
  /\ UNCHANGED <<status, touched, stage, memory, pr, process, history, budgets>>

QueuePost ==
  /\ job.phase = "queueing"
  /\ stage' = [stage EXCEPT ![job.post] = "queued"]
  /\ job' = [job EXCEPT !.phase = "mapping", !.post = NoPost]
  /\ asked' = (asked \ {job.post}) \cup (touched \cap {job.post})
  /\ UNCHANGED <<board, number, lastNumber, memory, pr, process, amiss, budgets>>

\* spec_opened is claimed too unless the process is spec-only.
Claimable(s) ==
  s \in ActionableStages \cup (IF mode = "spec-only" THEN {} ELSE {"spec_opened"})

\* claim_next: the order, and which rows are cooling down, is ClaimQueue's.
Claim ==
  /\ job.phase = "mapping" /\ job.todo = {}
  /\ \/ \E p \in Posts :
          /\ Claimable(stage[p])
          /\ job' = [Idle EXCEPT !.phase = "started", !.post = p, !.stage = stage[p]]
     \/ job' = Idle
  /\ UNCHANGED <<board, store, memory, pr, process, history, budgets>>

-----------------------------------------------------------------------------
(* The stages                                                              *)

ThePost == job.post
At(s) == job.phase = "started" /\ job.stage = s

Moved(to) == stage' = [stage EXCEPT ![ThePost] = to]

\* Fault: the stage the row comes from is mirrored.
MirrorStage(milestone) ==
  job' = [job EXCEPT !.phase = "reading", !.milestone = stage[ThePost]]

Mirror(milestone) ==
  job' = [job EXCEPT !.phase = "reading", !.milestone = milestone]

\* The needs-human label goes to GitHub, to whatever bears this number there.
Park ==
  /\ Moved("escalated")
  /\ job' = Idle
  /\ UNCHANGED <<board, number, lastNumber, memory, pr, process, history, budgets>>

Triage ==
  /\ At("queued")
  /\ Moved("triaged")
  /\ Mirror("triaged")
  /\ UNCHANGED <<board, number, lastNumber, memory, pr, process, history, budgets>>

TriagePark == At("queued") /\ Park

\* The accept gate: the status must be in the lane; a failed read denies.
InLane(q) == status[q] \in ActiveLane

Author ==
  /\ At("triaged")
  /\ AcceptGateLive => \E q \in Posts : Resolves(ThePost, q) /\ InLane(q)
  /\ Moved("specced")
  /\ job' = Idle
  /\ UNCHANGED <<board, number, lastNumber, memory, pr, process, history, budgets>>

Deny ==
  /\ At("triaged") /\ AcceptGateLive
  /\ \E q \in Posts : Resolves(ThePost, q) /\ ~InLane(q)
  /\ Park

DenyUnread ==
  /\ At("triaged") /\ AcceptGateLive
  /\ Park

\* Shadow hands back what it claims past the spec.
Held == job.stage \in {"specced", "spec_ready", "implemented", "reviewed", "awaiting_merge"}
          /\ mode = "shadow"

ShadowHold ==
  /\ job.phase = "started" /\ Held
  /\ job' = Idle
  /\ UNCHANGED <<board, store, memory, pr, process, history, budgets>>

SpecPr ==
  /\ At("specced") /\ ~Held
  /\ Moved(IF mode = "spec-only" THEN "spec_opened" ELSE "spec_ready")
  /\ job' = Idle
  /\ UNCHANGED <<board, number, lastNumber, memory, pr, process, history, budgets>>

ResumeSpecOpened ==
  /\ At("spec_opened")
  /\ Moved("spec_ready")
  /\ job' = Idle
  /\ UNCHANGED <<board, number, lastNumber, memory, pr, process, history, budgets>>

StartImplement ==
  /\ At("spec_ready") /\ ~Held
  /\ Mirror("spec_ready")
  /\ UNCHANGED <<board, store, memory, pr, process, history, budgets>>

\* implement_node: only live pushes.  A PR on record is kept, whatever its
\* state and whatever accept it was opened for.
Implement ==
  /\ job.phase = "mirrored" /\ job.milestone = "spec_ready"
  /\ mode = "live"
  /\ pr' = IF pr[ThePost] # "none" THEN pr ELSE [pr EXCEPT ![ThePost] = "open"]
  /\ Moved("implemented")
  /\ job' = Idle
  /\ UNCHANGED <<board, number, lastNumber, memory, process, history, budgets>>

Review ==
  /\ At("implemented") /\ ~Held
  /\ Moved("reviewed")
  /\ job' = Idle
  /\ UNCHANGED <<board, number, lastNumber, memory, pr, process, history, budgets>>

\* The gate enables auto-merge first, moves the row, and reads the board last.
GateMerge ==
  /\ At("reviewed") /\ mode = "live"
  /\ pr[ThePost] \in {"open", "merged"}
  /\ Moved("awaiting_merge")
  /\ Mirror("reviewed")
  /\ UNCHANGED <<board, number, lastNumber, memory, pr, process, history, budgets>>

GateEscalate == At("reviewed") /\ ~Held /\ Park

\* Fault: the milestone is mirrored without a look at the PR.
AwaitAny ==
  /\ At("awaiting_merge") /\ ~Held
  /\ Mirror("merged")
  /\ UNCHANGED <<board, store, memory, pr, process, history, budgets>>

AwaitMerged ==
  /\ At("awaiting_merge") /\ ~Held /\ pr[ThePost] = "merged"
  /\ Mirror("merged")
  /\ UNCHANGED <<board, store, memory, pr, process, history, budgets>>

AwaitClosed == At("awaiting_merge") /\ ~Held /\ pr[ThePost] = "closed" /\ Park

AwaitOpen ==
  /\ At("awaiting_merge") /\ ~Held /\ pr[ThePost] = "open"
  /\ job' = Idle
  /\ UNCHANGED <<board, store, memory, pr, process, history, budgets>>

-----------------------------------------------------------------------------
(* The mirror                                                              *)

Fault == failures > 0 /\ failures' = failures - 1

\* Fault: the drift guard lets every post pass.
MirrorReadUnguarded ==
  /\ job.phase = "reading"
  /\ job' = [job EXCEPT !.phase = "writing"]
  /\ touched' = {}
  /\ UNCHANGED <<status, fresh, store, memory, pr, process, history, budgets>>

\* A post in the lane may be written, and what founders do from here on is not
\* seen.
MirrorRead ==
  /\ job.phase = "reading"
  /\ \E q \in Posts : Resolves(ThePost, q) /\ InLane(q)
  /\ job' = [job EXCEPT !.phase = "writing"]
  /\ touched' = {}
  /\ UNCHANGED <<status, fresh, store, memory, pr, process, history, budgets>>

\* A post that has left the lane ends the work; the box writes nothing to it.
Drift ==
  /\ job.phase = "reading"
  /\ \E q \in Posts : Resolves(ThePost, q) /\ ~InLane(q)
  /\ Moved("escalated")
  /\ job' = Idle
  /\ UNCHANGED <<board, number, lastNumber, memory, pr, process, history, budgets>>

\* set_status refuses what is not the box's to set.
SetStatus(q, s) == s \in BoxSettable /\ status' = [status EXCEPT ![q] = s]

\* After the mirror: triage and gate are done, implement and merge go on.
Continue == job' = IF job.milestone \in {"spec_ready", "merged"}
                     THEN [job EXCEPT !.phase = "mirrored"] ELSE Idle

MirrorWrite ==
  /\ job.phase = "writing"
  /\ \E q \in Posts :
       /\ Resolves(ThePost, q)
       /\ SetStatus(q, StatusFor(job.milestone))
       /\ Touch(q)
       /\ amiss' = IF q = ThePost THEN amiss \ {q} ELSE amiss \cup {q, ThePost}
  /\ Continue
  /\ UNCHANGED <<store, memory, pr, process, asked, budgets>>

\* Either request fails: the work goes on and nothing repeats the write.
MirrorFails ==
  /\ job.phase \in {"reading", "writing"}
  /\ Fault
  /\ amiss' = amiss \cup {ThePost}
  /\ Continue
  /\ UNCHANGED <<board, store, memory, pr, process, asked, acts>>

CompleteMerged ==
  /\ job.phase = "mirrored" /\ job.milestone = "merged"
  /\ Moved("merged")
  /\ job' = Idle
  /\ UNCHANGED <<board, number, lastNumber, memory, pr, process, history, budgets>>

-----------------------------------------------------------------------------
(* Failures                                                                *)

\* Any call of a stage may raise, the mirror's own never do.  The attempts that
\* are left are IssuePoller's: here each failure may be the last.
StageFails ==
  /\ job.phase \in {"started", "mirrored"} /\ ~Held
  /\ \E s \in {stage[ThePost], "failed"} : Moved(s)
  /\ job' = Idle
  /\ UNCHANGED <<board, number, lastNumber, memory, pr, process, history, budgets>>

\* The store raises between the two writes of an ingest, and the tick returns.
QueueFails ==
  /\ job.phase = "queueing"
  /\ Fault
  /\ job' = Idle
  /\ UNCHANGED <<board, store, memory, pr, process, history, acts>>

Restart ==
  /\ Fault
  /\ job' = Idle
  /\ handle' = [p \in Posts |-> 0] /\ lastHandle' = 0
  /\ mode' \in Modes /\ UNCHANGED loopOn
  \* A milestone may be due that the new process will not write.
  /\ amiss' = IF job.phase \in {"reading", "writing"} THEN amiss \cup {ThePost} ELSE amiss
  /\ UNCHANGED <<board, store, pr, asked, acts>>

-----------------------------------------------------------------------------
(* The control loop, between two ticks, on the same forge object           *)

\* Self-heal, supervisor, strategy and observation gather list_open_issues.
ListOpenIssues ==
  /\ loopOn /\ job = Idle
  /\ \E p \in Posts : Ingested(p) /\ handle[p] = 0 /\ NumberFor(p)
  /\ UNCHANGED <<board, store, pr, process, job, history, budgets>>

\* The dedup read pages over the whole board, whatever the status of a post.
FindsDuplicate(p) == status[p] # NotPosted

\* create_issue: a duplicate gets a comment, else a post is made; either way the
\* post gets a handle.
Suggest ==
  /\ loopOn /\ job = Idle
  /\ \E p \in Posts :
       /\ handle[p] = 0
       /\ NumberFor(p)
       /\ status' = IF FindsDuplicate(p) THEN status ELSE [status EXCEPT ![p] = Out]
  /\ UNCHANGED <<fresh, touched, store, pr, process, job, history, budgets>>

-----------------------------------------------------------------------------
(* Founders and GitHub                                                     *)

\* A founder moves a post, or edits it where it is.
FounderActs ==
  /\ acts > 0 /\ acts' = acts - 1
  /\ \E p \in Posts :
       /\ status[p] # NotPosted
       /\ \E s \in {Out, "Accepted", status[p]} : status' = [status EXCEPT ![p] = s]
       /\ Touch(p)
       /\ asked' = asked \cup {p}
  /\ UNCHANGED <<store, memory, pr, process, job, amiss, failures>>

\* The PR is merged, by GitHub if it is armed or by a person, or closed.
PrEnds ==
  /\ \E p \in Posts, end \in {"merged", "closed"} :
       /\ pr[p] = "open"
       /\ pr' = [pr EXCEPT ![p] = end]
  /\ UNCHANGED <<board, store, memory, process, job, history, budgets>>

-----------------------------------------------------------------------------

Ingest == ListAccepted \/ MapPost \/ QueuePost \/ Claim

Stage ==
  \/ Triage \/ TriagePark \/ Author \/ Deny \/ DenyUnread \/ ShadowHold
  \/ SpecPr \/ ResumeSpecOpened \/ StartImplement \/ Implement \/ Review
  \/ GateMerge \/ GateEscalate \/ AwaitMerged \/ AwaitClosed \/ AwaitOpen
  \/ MirrorRead \/ Drift \/ MirrorWrite \/ CompleteMerged

Failure == MirrorFails \/ StageFails \/ QueueFails \/ Restart

Box == Ingest \/ Stage \/ Failure

Next == Box \/ ListOpenIssues \/ Suggest \/ FounderActs \/ PrEnds

Spec == Init /\ [][Next]_vars

\* The poller goes on; founders, GitHub and the control loop need not.
FairSpec == Spec /\ WF_vars(Ingest \/ Stage \/ StageFails)

-----------------------------------------------------------------------------
(* Properties                                                              *)

\* A post says Shipped only if its own PR was merged (poller.py 247 "ONLY on a
\* real merge"), or if the in-memory ids, which only the control loop hands out,
\* sent it the milestone of another post.
ShippedOnlyIfMerged ==
  \A p \in Posts : status[p] = "Shipped" => pr[p] = "merged" \/ (loopOn /\ p \in amiss)

\* The same as the poller promises it.  The code only keeps to it as long as no
\* control-loop module has filled the in-memory map.
ShippedMeansMerged == \A p \in Posts : status[p] = "Shipped" => pr[p] = "merged"

\* A founder's decision to hold a post back is undone by the box only if it was
\* made between the two requests of a mirror (_mirror_quackback's drift guard).
DecisionStands ==
  [][\A p \in Posts :
       status[p] = Out /\ status'[p] # Out /\ acts' = acts => p \in touched]_vars

\* The board agrees with the store about a finished post, unless a write of the
\* mirror was lost or went to another post: it is not repeated (poller.py 389).
MergedIsShipped ==
  \A p \in Posts :
    stage[p] = "merged" /\ status[p] \in {"Building", "ReadyForReview"}
      => p \in amiss

\* The box never queues a post on its own account: its status writes renew
\* updatedAt too, yet work in flight starts over only if a founder has acted on
\* the post since it was queued (reconcile_quackback, map_quackback_post).
QueuedOnlyIfAsked ==
  [][\A p \in Posts : stage[p] # "queued" /\ stage'[p] = "queued" => p \in asked]_vars

\* Every accept is queued in the end if it is left alone, unless an ingest was
\* cut short between the marker and the queue (store.py 486, reconcile.py 188).
AcceptIsQueued ==
  \A p \in Posts :
    status[p] = "Accepted" /\ p \in fresh
      ~> \/ stage[p] = "queued" \/ status[p] # "Accepted"
         \/ p \notin fresh /\ job.phase # "queueing"
=============================================================================
