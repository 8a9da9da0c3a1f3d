-------------------------- MODULE MergeLaneProofs --------------------------
(***************************************************************************)
(* The merge lane's promises, for any number of pull requests, any cap and *)
(* any number of lost cycles and racing pushes.                            *)
(***************************************************************************)
EXTENDS MergeLane, TLAPS

\* Between two cycles nothing is pending and the tracker is the saved one.
IdleClean ==
  ~running => /\ work = tracker
              /\ clone = NoClone
              /\ \A p \in LanePrs : lanePlan[p] = Nothing

\* A pending action was planned from an entry that was not cooling, and nothing
\* but the plan itself has touched the entry since: it is the saved one, or none.
PendingSound ==
  \A p \in LanePrs : lanePlan[p] # Nothing =>
    /\ notices[p] <= lapses
    /\ work[p].retries <= tracker[p].retries
    /\ lanePlan[p].act = "rebase" => work[p].retries < LaneRetries
    /\ lanePlan[p].act = "escalate" => work[p].cooling

\* A clone belongs to the rebase that is being executed.
CloneSound ==
  /\ \A p \in LanePrs : clone.of = p => lanePlan[p].act = "rebase"
  /\ clone.of = 0 => clone = NoClone

\* The tries that lost trackers have let in.
Forgone == LaneRetries * lapses

\* The counts, of the running cycle and of the store.
CountSound ==
  \A p \in LanePrs :
    /\ attempts[p] <= work[p].retries + Forgone
    /\ attempts[p] <= tracker[p].retries + Forgone + (IF running THEN 1 ELSE 0)
    /\ lapses = 0 => attempts[p] = work[p].retries

\* An escalation has left a cooldown, in the cycle or in the store, or is one
\* whose cooldown was lost.
NoticeSound ==
  \A p \in LanePrs : notices[p] <= lapses + (IF work[p].cooling THEN 1 ELSE 0)

LaneInv ==
  /\ LaneTypeOK
  /\ IdleClean
  /\ PendingSound
  /\ CloneSound
  /\ CountSound
  /\ NoticeSound
  /\ NoPushLost

USE LaneAssumption DEF LaneAssumption

LEMMA NoValues == NoEntry \in Entries /\ NoClone \in Clones
  BY DEF NoEntry, Entries, NoClone, Clones

LEMMA InitInv == LaneInit => LaneInv
<1> SUFFICES ASSUME LaneInit PROVE LaneInv
  OBVIOUS
<1>1. LaneTypeOK
  <2>3. pr \in [LanePrs -> PullRequests]
    BY DEF LaneInit, PullRequests
  <2>4. /\ tracker \in [LanePrs -> Entries] /\ work \in [LanePrs -> Entries]
        /\ lanePlan \in [LanePrs -> PlannedActions \cup {Nothing}]
    BY NoValues DEF LaneInit
  <2> QED BY NoValues, <2>3, <2>4 DEF LaneInit, LaneTypeOK
<1>2. IdleClean /\ PendingSound /\ CloneSound
  BY DEF LaneInit, IdleClean, PendingSound, CloneSound, NoClone, LanePrs
<1>3. CountSound /\ NoticeSound /\ NoPushLost
  <2>1. Forgone = 0
    BY DEF LaneInit, Forgone
  <2> QED BY <2>1 DEF LaneInit, CountSound, NoticeSound, NoPushLost, NoEntry
<1> QED BY <1>1, <1>2, <1>3 DEF LaneInv

\* A lost tracker lets in as many tries as the cap.
LEMMA ForgoneIs ==
  ASSUME LaneTypeOK
  PROVE  /\ Forgone \in Nat
         /\ lapses' = lapses => Forgone' = Forgone
         /\ lapses' = lapses + 1 => Forgone' = Forgone + LaneRetries
<1>1. lapses \in Nat /\ LaneRetries \in Nat
  BY DEF LaneTypeOK
<1>2. LaneRetries * (lapses + 1) = LaneRetries * lapses + LaneRetries
  BY <1>1
<1> QED BY <1>1, <1>2 DEF Forgone

\* What planning leaves to do, and what it writes: the tracker it starts from is
\* the saved one, or an empty one in place of one that is lost.
LEMMA PlanInv ==
  ASSUME LaneInv, NEW loaded \in [LanePrs -> Entries], PlanFrom(loaded),
         \/ loaded = tracker /\ lapses' = lapses
         \/ loaded = Forgotten /\ lapses' = lapses + 1
  PROVE  LaneInv'
<1> USE DEF LaneInv, PlanFrom
<1>1. \A p \in LanePrs : PlannedFor(p, loaded[p]) \in PlannedActions \cup {Nothing}
  BY DEF PlannedFor, Gate, PlannedActions, Nothing, Entries
<1>2. \A p \in LanePrs : lanePlan'[p] = PlannedFor(p, loaded[p])
  OBVIOUS
<1>3. \A p \in LanePrs : lanePlan'[p] # Nothing =>
        /\ ~loaded[p].cooling
        /\ lanePlan'[p].act = "rebase" => loaded[p].retries < LaneRetries
  BY <1>2 DEF PlannedFor, Gate, Nothing, Entries
<1>4. /\ work' \in [LanePrs -> Entries]
      /\ \A p \in LanePrs : /\ work'[p].retries = loaded[p].retries
                            /\ loaded[p].cooling => work'[p].cooling
                            /\ lanePlan'[p].act = "escalate" => work'[p].cooling
  BY DEF Entries
<1>5. /\ lapses \in Nat /\ lapses' \in Nat /\ lapses <= lapses'
      /\ \A p \in LanePrs : /\ loaded[p].retries \in 0..LaneRetries
                            /\ tracker[p].retries \in 0..LaneRetries
                            /\ loaded[p].retries <= tracker[p].retries
                            /\ notices[p] \in Nat /\ attempts[p] \in Nat
  BY DEF LaneTypeOK, Forgotten, NoEntry, Entries
<1>6. LaneTypeOK'
  BY <1>1, <1>4, <1>5 DEF LaneTypeOK
<1>7. IdleClean'
  BY DEF IdleClean
<1>8. \A p \in LanePrs : notices[p] <= lapses' + (IF loaded[p].cooling THEN 1 ELSE 0)
  <2> TAKE p \in LanePrs
  <2>1. notices[p] <= lapses + (IF tracker[p].cooling THEN 1 ELSE 0)
    BY DEF IdleClean, NoticeSound
  <2>2. CASE loaded = tracker /\ lapses' = lapses
    BY <2>1, <2>2
  <2>3. CASE loaded = Forgotten /\ lapses' = lapses + 1
    BY <1>5, <2>1, <2>3 DEF Forgotten, NoEntry
  <2> QED BY <2>2, <2>3
<1>9. PendingSound'
  <2> SUFFICES ASSUME NEW p \in LanePrs, lanePlan'[p] # Nothing
               PROVE  /\ notices'[p] <= lapses'
                      /\ work'[p].retries <= tracker'[p].retries
                      /\ lanePlan'[p].act = "rebase" => work'[p].retries < LaneRetries
                      /\ lanePlan'[p].act = "escalate" => work'[p].cooling
    BY DEF PendingSound
  <2>1. notices'[p] <= lapses'
    BY <1>3, <1>5, <1>8
  <2> QED BY <1>3, <1>4, <1>5, <2>1
<1>10. CloneSound'
  BY DEF CloneSound, IdleClean, NoClone, LanePrs
<1>11. CountSound'
  <2> SUFFICES ASSUME NEW p \in LanePrs
               PROVE  /\ attempts'[p] <= work'[p].retries + Forgone'
                      /\ attempts'[p] <= tracker'[p].retries + Forgone' + 1
                      /\ lapses' = 0 => attempts'[p] = work'[p].retries
    BY DEF CountSound
  <2>1. /\ attempts[p] <= tracker[p].retries + Forgone
        /\ lapses = 0 => attempts[p] = tracker[p].retries
    BY DEF IdleClean, CountSound
  <2>2. CASE loaded = tracker /\ lapses' = lapses
    BY <1>4, <1>5, <2>1, <2>2, ForgoneIs
  <2>3. CASE loaded = Forgotten /\ lapses' = lapses + 1
    <3>1. work'[p].retries = 0
      BY <1>4, <2>3 DEF Forgotten, NoEntry
    <3>2. Forgone \in Nat /\ Forgone' = Forgone + LaneRetries
      BY <2>3, ForgoneIs
    <3> QED BY <1>5, <2>1, <2>3, <3>1, <3>2
  <2> QED BY <2>2, <2>3
<1>12. NoticeSound'
  BY <1>4, <1>5, <1>8 DEF NoticeSound
<1> QED BY <1>6, <1>7, <1>9, <1>10, <1>11, <1>12 DEF NoPushLost

\* The branch a rebase is working on is one whose rebase is pending.
LEMMA RebasingPending ==
  ASSUME LaneInv, NEW p \in LanePrs, clone.of = p
  PROVE  /\ running
         /\ lanePlan[p] # Nothing
         /\ work[p].retries < LaneRetries
         /\ work[p].retries <= tracker[p].retries
         /\ notices[p] <= lapses
<1>1. lanePlan[p].act = "rebase"
  BY DEF LaneInv, CloneSound
<1>2. lanePlan[p] # Nothing
  BY <1>1 DEF Nothing
<1>3. running
  BY <1>2 DEF LaneInv, IdleClean
<1> QED BY <1>1, <1>2, <1>3 DEF LaneInv, PendingSound

LEMMA EscalateInv ==
  ASSUME LaneInv, NEW p \in LanePrs, EscalatePr(p)
  PROVE  LaneInv'
<1> USE DEF LaneInv, EscalatePr, Turn, TakenOff, Notify
<1>1. /\ lanePlan[p] # Nothing /\ work[p].cooling /\ notices[p] <= lapses
  BY DEF Nothing, PendingSound
<1>2. LaneTypeOK'
  <2>1. pr' \in [LanePrs -> PullRequests]
    BY DEF LaneTypeOK, PullRequests
  <2> QED BY <2>1 DEF LaneTypeOK
<1>3. IdleClean'
  BY DEF IdleClean
<1>4. PendingSound'
  BY DEF PendingSound, LaneTypeOK
<1>5. CloneSound'
  BY DEF CloneSound, LaneTypeOK
<1>6. CountSound'
  BY ForgoneIs DEF CountSound
<1>7. NoticeSound'
  BY <1>1 DEF NoticeSound, LaneTypeOK
<1>8. NoPushLost'
  BY DEF NoPushLost, LaneTypeOK
<1> QED BY <1>2, <1>3, <1>4, <1>5, <1>6, <1>7, <1>8

LEMMA CloneInv ==
  ASSUME LaneInv, NEW p \in LanePrs, Clone(p)
  PROVE  LaneInv'
<1> USE DEF LaneInv, Clone, Turn
<1>1. LaneTypeOK'
  <2>1. clone' \in Clones
    BY DEF LaneTypeOK, PullRequests, Clones, LanePrs
  <2> QED BY <2>1 DEF LaneTypeOK
<1>2. IdleClean' /\ PendingSound' /\ CountSound' /\ NoticeSound' /\ NoPushLost'
  BY ForgoneIs DEF IdleClean, PendingSound, CountSound, NoticeSound, NoPushLost
<1>3. CloneSound'
  <2>1. clone'.of = p /\ p # 0
    BY DEF LanePrs
  <2> QED BY <2>1 DEF CloneSound
<1> QED BY <1>1, <1>2, <1>3

\* Of the three ways a rebase ends.
LEMMA RebasedInv ==
  ASSUME LaneInv, NEW p \in LanePrs, Rebased(p)
  PROVE  LaneInv'
<1> USE DEF LaneInv, Rebased, Rebasing, TakenOff
<1>1. running /\ notices[p] <= lapses /\ work[p].retries <= tracker[p].retries
  BY RebasingPending
<1>2. work' = [work EXCEPT ![p] = NoEntry]
  BY DEF EntryReset
<1>3. LaneTypeOK'
  <2>1. pr' \in [LanePrs -> PullRequests]
    <3>1. clone.head \in Nat /\ clone.fresh \in BOOLEAN
      BY DEF LaneTypeOK, Clones
    <3>2. pr \in [LanePrs -> PullRequests]
      BY DEF LaneTypeOK
    <3>3. CASE clone.behind
      <4>1. pr' = [pr EXCEPT ![p] = [pr[p] EXCEPT !.head = clone.head, !.behind = ~clone.fresh,
                                                  !.mergeable = "unknown", !.failing = FALSE]]
        BY <3>3 DEF Pushed
      <4>2. [pr[p] EXCEPT !.head = clone.head, !.behind = ~clone.fresh,
                          !.mergeable = "unknown", !.failing = FALSE] \in PullRequests
        BY <3>1, <3>2 DEF PullRequests
      <4> QED BY <3>2, <4>1, <4>2
    <3>4. CASE ~clone.behind
      <4>1. pr' = [pr EXCEPT ![p] = [pr[p] EXCEPT !.head = clone.head]]
        BY <3>4 DEF Pushed
      <4>2. [pr[p] EXCEPT !.head = clone.head] \in PullRequests
        BY <3>1, <3>2 DEF PullRequests
      <4> QED BY <3>2, <4>1, <4>2
    <3> QED BY <3>3, <3>4
  <2>2. work' \in [LanePrs -> Entries]
    BY NoValues, <1>2 DEF LaneTypeOK
  <2> QED BY NoValues, <2>1, <2>2 DEF LaneTypeOK
<1>4. IdleClean'
  BY <1>1 DEF IdleClean
<1>5. PendingSound'
  BY <1>2 DEF PendingSound, LaneTypeOK
<1>6. CloneSound'
  BY DEF CloneSound, NoClone, LanePrs
<1>7. CountSound'
  BY <1>1, <1>2, ForgoneIs DEF CountSound, LaneTypeOK, Entries, NoEntry
<1>8. NoticeSound'
  BY <1>1, <1>2 DEF NoticeSound, LaneTypeOK
<1>9. NoPushLost'
  BY DEF NoPushLost, LeaseHolds, Pushed, LaneTypeOK, PullRequests
<1> QED BY <1>3, <1>4, <1>5, <1>6, <1>7, <1>8, <1>9

LEMMA EmptyRebaseInv ==
  ASSUME LaneInv, NEW p \in LanePrs, EmptyRebase(p)
  PROVE  LaneInv'
<1> USE DEF LaneInv, EmptyRebase, Rebasing, TakenOff, Notify
<1>1. running /\ notices[p] <= lapses /\ work[p].retries <= tracker[p].retries
  BY RebasingPending
<1>2. /\ work'[p].retries = work[p].retries /\ work'[p].cooling
      /\ \A q \in LanePrs \ {p} : work'[q] = work[q]
      /\ work' \in [LanePrs -> Entries]
  <2>1. work \in [LanePrs -> Entries] /\ work' = [work EXCEPT ![p].cooling = TRUE]
    BY DEF LaneTypeOK
  <2> QED BY <2>1 DEF Entries
<1>3. LaneTypeOK'
  <2>1. pr' \in [LanePrs -> PullRequests]
    BY DEF LaneTypeOK, PullRequests
  <2> QED BY NoValues, <1>2, <2>1 DEF LaneTypeOK
<1>4. IdleClean'
  BY <1>1 DEF IdleClean
<1>5. PendingSound'
  BY <1>2 DEF PendingSound, LaneTypeOK
<1>6. CloneSound'
  BY DEF CloneSound, NoClone, LanePrs
<1>7. CountSound'
  BY <1>2, ForgoneIs DEF CountSound
<1>8. NoticeSound'
  BY <1>1, <1>2 DEF NoticeSound, LaneTypeOK
<1>9. NoPushLost'
  BY DEF NoPushLost, LaneTypeOK
<1> QED BY <1>3, <1>4, <1>5, <1>6, <1>7, <1>8, <1>9

LEMMA RebaseConflictInv ==
  ASSUME LaneInv, NEW p \in LanePrs, RebaseConflict(p)
  PROVE  LaneInv'
<1> USE DEF LaneInv, RebaseConflict, Rebasing, TakenOff
<1>1. /\ running /\ notices[p] <= lapses
      /\ work[p].retries < LaneRetries /\ work[p].retries <= tracker[p].retries
  BY RebasingPending
<1>2. /\ work'[p].retries = work[p].retries + 1
      /\ \A q \in LanePrs \ {p} : work'[q] = work[q]
      /\ work' \in [LanePrs -> Entries]
  BY <1>1 DEF EntryAfterConflict, LaneTypeOK, Entries
<1>3. LaneTypeOK'
  BY NoValues, <1>2 DEF LaneTypeOK
<1>4. IdleClean'
  BY <1>1 DEF IdleClean
<1>5. PendingSound'
  BY <1>2 DEF PendingSound, LaneTypeOK
<1>6. CloneSound'
  BY DEF CloneSound, NoClone, LanePrs
<1>7. CountSound'
  BY <1>1, <1>2, ForgoneIs DEF CountSound, LaneTypeOK, Entries
<1>8. NoticeSound'
  BY <1>1, <1>2 DEF NoticeSound, LaneTypeOK
<1>9. NoPushLost'
  BY DEF NoPushLost
<1> QED BY <1>3, <1>4, <1>5, <1>6, <1>7, <1>8, <1>9

LEMMA SaveInv == LaneInv /\ SaveTracker => LaneInv'
<1> SUFFICES ASSUME LaneInv, SaveTracker PROVE LaneInv'
  OBVIOUS
<1> USE DEF LaneInv, SaveTracker
<1>1. clone = NoClone
  <2>1. clone.of \notin LanePrs
    BY DEF CloneSound, Nothing
  <2>2. clone.of \in 0..N
    BY DEF LaneTypeOK, Clones
  <2> QED BY <2>1, <2>2 DEF CloneSound, LanePrs
<1>2. LaneTypeOK'
  BY DEF LaneTypeOK
<1>3. IdleClean'
  BY <1>1 DEF IdleClean
<1>4. PendingSound' /\ CloneSound' /\ NoticeSound' /\ NoPushLost'
  BY DEF PendingSound, CloneSound, NoticeSound, NoPushLost
<1>5. CountSound'
  BY ForgoneIs DEF CountSound, LaneTypeOK, Entries
<1> QED BY <1>2, <1>3, <1>4, <1>5

\* A cycle that is cut short loses at most one count of each pull request, and
\* the cooldown of at most one of its notices.
LEMMA CutShortInv == LaneInv /\ CutShort => LaneInv'
<1> SUFFICES ASSUME LaneInv, CutShort PROVE LaneInv'
  OBVIOUS
<1> USE DEF LaneInv, CutShort
<1>1. LaneTypeOK'
  <2>2. lanePlan' \in [LanePrs -> PlannedActions \cup {Nothing}]
    OBVIOUS
  <2>3. lapses' \in Nat
    BY DEF LaneTypeOK
  <2> QED BY NoValues, <2>2, <2>3 DEF LaneTypeOK
<1>2. IdleClean'
  BY DEF IdleClean
<1>3. PendingSound' /\ CloneSound' /\ NoPushLost'
  BY DEF PendingSound, CloneSound, NoPushLost, NoClone, LanePrs
<1>4. CountSound'
  BY ForgoneIs DEF CountSound, LaneTypeOK, Entries
<1>5. NoticeSound'
  BY DEF NoticeSound, LaneTypeOK
<1> QED BY <1>1, <1>2, <1>3, <1>4, <1>5

LEMMA ExpireInv ==
  ASSUME LaneInv, NEW p \in LanePrs, Expire(p)
  PROVE  LaneInv'
<1> USE DEF LaneInv, Expire
<1>1. /\ \A q \in LanePrs : tracker'[q].retries = tracker[q].retries
      /\ \A q \in LanePrs \ {p} : tracker'[q] = tracker[q]
      /\ tracker' \in [LanePrs -> Entries]
  BY DEF LaneTypeOK, Entries
<1>2. LaneTypeOK'
  BY <1>1 DEF LaneTypeOK
<1>3. IdleClean'
  BY DEF IdleClean
<1>4. PendingSound' /\ CloneSound' /\ NoPushLost'
  BY DEF IdleClean, PendingSound, CloneSound, NoPushLost
<1>5. CountSound'
  BY <1>1, ForgoneIs DEF CountSound, IdleClean
<1>6. NoticeSound'
  BY <1>1 DEF NoticeSound, IdleClean, LaneTypeOK
<1> QED BY <1>2, <1>3, <1>4, <1>5, <1>6

\* The world leaves the lane's state alone, and a push is on the branch.
LEMMA WorldInv ==
  ASSUME LaneInv, UNCHANGED OfWorld, LaneTypeOK', NoPushLost', clone'.of = clone.of,
         clone = NoClone => clone' = NoClone
  PROVE  LaneInv'
BY DEF OfWorld, LaneInv, IdleClean, PendingSound, CloneSound, CountSound, NoticeSound, Forgone

LEMMA MainMovesInv == LaneInv /\ MainMoves => LaneInv'
<1> SUFFICES ASSUME LaneInv, MainMoves PROVE LaneInv'
  OBVIOUS
<1>2. clone' \in Clones /\ clone'.of = clone.of /\ (clone = NoClone => clone' = NoClone)
  <2>1. clone \in Clones /\ clone' = [clone EXCEPT !.fresh = FALSE]
    BY DEF LaneInv, LaneTypeOK, MainMoves
  <2>2. clone' \in Clones
    BY <2>1 DEF Clones
  <2>3. clone'.of = clone.of
    BY <2>1 DEF Clones
  <2>4. clone = NoClone => clone' = NoClone
    <3>1. clone' = [of |-> clone.of, head |-> clone.head, behind |-> clone.behind,
                    fresh |-> FALSE]
      BY <2>1 DEF Clones
    <3> QED BY <3>1 DEF NoClone
  <2> QED BY <2>2, <2>3, <2>4
<1>3. /\ pr' \in [LanePrs -> PullRequests]
      /\ \A p \in LanePrs : pr'[p].head = pr[p].head
  <2>1. /\ pr \in [LanePrs -> PullRequests]
        /\ pr' = [p \in LanePrs |-> [pr[p] EXCEPT !.behind = TRUE, !.mergeable = "unknown"]]
    BY DEF LaneInv, LaneTypeOK, MainMoves
  <2> QED BY <2>1 DEF PullRequests
<1>1. LaneTypeOK' /\ NoPushLost'
  BY <1>2, <1>3 DEF LaneInv, MainMoves, OfWorld, LaneTypeOK, NoPushLost
<1> QED BY <1>1, <1>2, WorldInv DEF MainMoves

LEMMA AuthorInv ==
  ASSUME LaneInv, NEW p \in LanePrs, Compute(p) \/ ChecksReport(p) \/ AuthorPush(p) \/ Close(p)
  PROVE  LaneInv'
<1>1. LaneTypeOK' /\ NoPushLost'
  <2>1. CASE Compute(p)
    BY <2>1 DEF LaneInv, Compute, OfWorld, LaneTypeOK, NoPushLost, PullRequests
  <2>2. CASE ChecksReport(p)
    BY <2>2 DEF LaneInv, ChecksReport, OfWorld, LaneTypeOK, NoPushLost, PullRequests
  <2>3. CASE AuthorPush(p)
    BY <2>3 DEF LaneInv, AuthorPush, OfWorld, LaneTypeOK, NoPushLost, PullRequests
  <2>4. CASE Close(p)
    BY <2>4 DEF LaneInv, Close, OfWorld, LaneTypeOK, NoPushLost, PullRequests
  <2> QED BY <2>1, <2>2, <2>3, <2>4
<1>2. UNCHANGED OfWorld /\ clone' = clone
  BY DEF Compute, ChecksReport, AuthorPush, Close
<1> QED BY <1>1, <1>2, WorldInv

LEMMA StepInv == LaneInv /\ [LaneNext]_laneVars => LaneInv'
<1> SUFFICES ASSUME LaneInv, [LaneNext]_laneVars PROVE LaneInv'
  OBVIOUS
<1>0. tracker \in [LanePrs -> Entries] /\ Forgotten \in [LanePrs -> Entries]
  BY NoValues DEF LaneInv, LaneTypeOK, Forgotten
<1>1. CASE PlanLane \/ PlanForgotten
  BY <1>0, <1>1, PlanInv DEF PlanLane, PlanForgotten
<1>2. ASSUME NEW p \in LanePrs, LaneExecute(p) PROVE LaneInv'
  BY <1>2, EscalateInv, CloneInv, RebasedInv, EmptyRebaseInv, RebaseConflictInv DEF LaneExecute
<1>3. CASE SaveTracker
  BY <1>3, SaveInv
<1>4. CASE LeaseLost \/ Fail
  BY <1>4, CutShortInv DEF LeaseLost, Fail
<1>5. ASSUME NEW p \in LanePrs, World(p) PROVE LaneInv'
  BY <1>5, ExpireInv, AuthorInv DEF World
<1>6. CASE MainMoves
  BY <1>6, MainMovesInv
<1>7. CASE UNCHANGED laneVars
  BY <1>7 DEF laneVars, LaneInv, LaneTypeOK, IdleClean, PendingSound, CloneSound, CountSound,
              NoticeSound, NoPushLost, Forgone
<1> QED BY <1>1, <1>2, <1>3, <1>4, <1>5, <1>6, <1>7 DEF LaneNext

LEMMA AlwaysInv == LaneSpec => []LaneInv
  BY InitInv, StepInv, PTL DEF LaneSpec

-----------------------------------------------------------------------------
(* What holds of every run                                                  *)

\* Every value keeps its range; no count ever passes the cap.
THEOREM MergeLaneTypeOK == LaneSpec => []LaneTypeOK
<1>1. LaneInv => LaneTypeOK
  BY DEF LaneInv
<1> QED BY <1>1, AlwaysInv, PTL

\* However cycles are cut short and loads fail, a branch that always conflicts
\* is tried at most LaneRetries times, and as often again for each tracker that
\* was lost.
THEOREM LaneAttempts == LaneSpec => []AttemptsBounded
<1>1. ASSUME LaneInv PROVE AttemptsBounded
  <2> SUFFICES ASSUME NEW p \in LanePrs PROVE attempts[p] <= LaneRetries * (1 + lapses)
    BY DEF AttemptsBounded
  <2>1. /\ attempts[p] <= work[p].retries + Forgone /\ work[p].retries \in 0..LaneRetries
        /\ attempts[p] \in Nat /\ lapses \in Nat
    BY <1>1 DEF LaneInv, CountSound, LaneTypeOK, Entries
  <2>2. LaneRetries * (1 + lapses) = LaneRetries + LaneRetries * lapses
    BY <2>1
  <2>3. Forgone \in Nat
    BY <1>1, ForgoneIs DEF LaneInv
  <2> QED BY <2>1, <2>2, <2>3 DEF Forgone
<1> QED BY <1>1, AlwaysInv, PTL

\* Unless a tracker is lost, at the load or before the save, the saved count is
\* the number of conflicts in a row.
THEOREM LaneCountIsExact == LaneSpec => []CountIsExact
<1>1. LaneInv => CountIsExact
  BY DEF LaneInv, CountSound, IdleClean, CountIsExact
<1> QED BY <1>1, AlwaysInv, PTL

\* Until its cooldown has run out a pull request is escalated once, and once more
\* for each tracker that was lost.
THEOREM LaneNotices == LaneSpec => []NoticesSpaced
<1>1. LaneInv => NoticesSpaced
  BY DEF LaneInv, NoticeSound, NoticesSpaced, LaneTypeOK
<1> QED BY <1>1, AlwaysInv, PTL

\* The lease: no commit of the author is ever lost to a force-push.
THEOREM LaneKeepsPushes == LaneSpec => []NoPushLost
<1>1. LaneInv => NoPushLost
  BY DEF LaneInv
<1> QED BY <1>1, AlwaysInv, PTL
=============================================================================
