--------------------------- MODULE SelfHealProofs ---------------------------
(***************************************************************************)
(* What the self-heal module guarantees for any items, caps and cutoffs,   *)
(* whoever feeds it: its types, that a run never counts past its cap, and  *)
(* that a heal that runs to its end leaves the item where a sweep will     *)
(* find it.                                                                *)
(***************************************************************************)
EXTENDS SelfHeal, FiniteSetTheorems, TLAPS

IdleInv == phase = "idle" => pending = {}

\* Issues and PRs stay in lanes of their own.
KindInv ==
  /\ \A i \in Prs : label[i] \cap {"needs-triage", "copilot-triaging"} = {}
  /\ \A i \in Issues : "approved-for-build" \notin label[i]
  /\ \A a \in pending : a.kind \in {"heal", "add"} =>
       a.sweep \in Sweeps /\ (a.item \in Prs <=> a.sweep = "approved")

\* Unless somebody moved it or a toggle stopped half way, an open item is in a
\* lane, or the request that puts it back is still to come.
StagedInv ==
  \A i \in open \ (handled \cup cut) :
    \/ label[i] \cap StageLabels # {}
    \/ \E a \in pending : a.kind = "add" /\ a.item = i

HealInv == SelfHealTypeOK /\ IdleInv /\ KindInv /\ StagedInv

LEMMA Bounds ==
  /\ MaxRetries \in Nat /\ MaxLost \in Nat /\ MaxMoves \in Nat
  /\ Items = Issues \cup Prs /\ Issues \cap Prs = {}
  /\ IsFiniteSet(Items) /\ TheRepo \notin Items
BY SelfHealAssumption DEF Items

-----------------------------------------------------------------------------
(* The planner *)

\* What one sweep hands to the next.
Runs == [acts: SUBSET Actions, created: Nat, tracker: States]

\* After some of the sweeps: the actions are theirs, and each heal is of an item
\* of the sweep's kind.
After(r) ==
  /\ r \in Runs
  /\ \A a \in r.acts : /\ a.sweep \in Sweeps
                       /\ a.kind \in {"heal", "escalate"}
                       /\ a.kind = "heal" => (a.item \in Prs <=> a.sweep = "approved")

LEMMA BlankIs == Blank \in States
BY Bounds DEF Blank, States

\* The counts of a run stay within the cap: a sweep heals below it only.
LEMMA SweptIs ==
  ASSUME HealInv, NEW s \in Sweeps, NEW t \in States
  PROVE  Swept(s, t) \in States
<1> DEFINE retries == [i \in Items |-> IF i \in Heal(s, t) THEN t.retries[i] + 1
                                       ELSE t.retries[i]]
<1> DEFINE cool == (t.cool \ Heal(s, t)) \cup Up(s, t)
<1>1. \A i \in Items : t.retries[i] \in 0 .. MaxRetries
  BY DEF States
<1>2. Up(s, t) \subseteq Items
  BY DEF Up, Due, Stale, HealInv, SelfHealTypeOK
<1>3. \A i \in Items : i \in Heal(s, t) => t.retries[i] < MaxRetries
  BY <1>1, Bounds DEF Heal, Up
<1>4. retries \in [Items -> 0 .. MaxRetries]
  BY <1>1, <1>3, Bounds
<1>5. cool \subseteq Items
  BY <1>2 DEF States
<1>6. Swept(s, t) = [t EXCEPT !.retries = retries, !.cool = cool]
  BY DEF Swept, States
<1> HIDE DEF retries, cool
<1> QED BY <1>4, <1>5, <1>6 DEF States

LEMMA ActsAre ==
  ASSUME HealInv, NEW s \in Sweeps, NEW t \in States
  PROVE  /\ Up(s, t) \subseteq Items /\ Heal(s, t) \subseteq Items
         /\ \A i \in Heal(s, t) : i \in Prs <=> s = "approved"
         /\ Acts(s, t) \subseteq Actions
         /\ \A a \in Acts(s, t) : /\ a.sweep = s
                                  /\ \/ a.kind = "heal" /\ a.item \in Heal(s, t)
                                     \/ a.kind = "escalate"
<1>1. Stale(s) \subseteq Items
  BY DEF Stale, HealInv, SelfHealTypeOK
<1>2. Up(s, t) \subseteq Items /\ Heal(s, t) \subseteq Stale(s)
  BY <1>1 DEF Up, Heal, Due
<1>3. ASSUME NEW i \in Heal(s, t)
      PROVE  i \in Prs <=> s = "approved"
  <2>1. i \in Items /\ From[s] \in label[i]
    BY <1>1, <1>2 DEF Stale
  <2> QED BY <2>1, Bounds DEF HealInv, KindInv, From, Sweeps
<1>4. Acts(s, t) \subseteq Actions
  BY <1>1, <1>2 DEF Acts, Actions
<1>5. \A a \in Acts(s, t) : /\ a.sweep = s
                            /\ \/ a.kind = "heal" /\ a.item \in Heal(s, t)
                               \/ a.kind = "escalate"
  BY DEF Acts
<1> QED BY <1>1, <1>2, <1>3, <1>4, <1>5

LEMMA SweepKeeps ==
  ASSUME HealInv, NEW r, After(r), NEW s \in Sweeps
  PROVE  After(Sweep(s, r))
<1>1. CASE Tripped(r)
  BY <1>1 DEF Sweep
<1>2. CASE ~Tripped(r)
  <2> DEFINE t == r.tracker
  <2> DEFINE acts == r.acts \cup Acts(s, t)
  <2>1. t \in States /\ r.acts \subseteq Actions /\ r.created \in Nat
    BY DEF After, Runs
  <2>2. Sweep(s, r) = [acts |-> acts, created |-> r.created + Cardinality(Up(s, t)),
                       tracker |-> Swept(s, t)]
    BY <1>2 DEF Sweep
  <2>3. Cardinality(Up(s, t)) \in Nat
    BY <2>1, ActsAre, Bounds, FS_Subset, FS_CardinalityType
  <2>4. Sweep(s, r) \in Runs
    <3>1. acts \subseteq Actions
      BY <2>1, ActsAre
    <3>2. Swept(s, t) \in States
      BY <2>1, SweptIs
    <3> QED BY <2>1, <2>2, <2>3, <3>1, <3>2 DEF Runs
  <2>5. \A a \in acts : /\ a.sweep \in Sweeps
                        /\ a.kind \in {"heal", "escalate"}
                        /\ a.kind = "heal" => (a.item \in Prs <=> a.sweep = "approved")
    BY <2>1, ActsAre DEF After
  <2> HIDE DEF acts, t
  <2> QED BY <2>2, <2>4, <2>5 DEF After
<1> QED BY <1>1, <1>2

-----------------------------------------------------------------------------
(* A run *)

\* What the close, the breaker and the idle dispatch add are no heals.
LEMMA PlannedIs ==
  ASSUME HealInv, NEW first, NEW r, After(r)
  PROVE  /\ Planned(first, r).acts \subseteq Actions
         /\ Planned(first, r).tracker \in States
         /\ \A a \in Planned(first, r).acts :
              /\ a.kind # "add"
              /\ a.kind = "heal" => /\ a.sweep \in Sweeps
                                    /\ a.item \in Prs <=> a.sweep = "approved"
<1> DEFINE p == Planned(first, r)
<1> DEFINE more == When(Tripped(first), "breaker", "repo", {TheRepo})
                     \cup When(TRUE, "humans", "close", Resolved(r))
                     \cup When(DispatchDue(r), "idle", "repo", {TheRepo})
<1>1. p.acts = r.acts \cup more
  BY DEF Planned
<1>2. more \subseteq Actions /\ \A a \in more : a.kind \in {"repo", "close"}
  <2>1. Resolved(r) \subseteq Items
    BY DEF Resolved, HealInv, SelfHealTypeOK
  <2> QED BY <2>1 DEF When, Actions
<1>3. r.acts \subseteq Actions /\ r.tracker \in States
  BY DEF After, Runs
<1>4. p.tracker \in States
  BY <1>3 DEF Planned, States
<1> HIDE DEF more
<1>5. \A a \in p.acts : /\ a.kind # "add"
                        /\ a.kind = "heal" => /\ a.sweep \in Sweeps
                                              /\ a.item \in Prs <=> a.sweep = "approved"
  BY <1>1, <1>2 DEF After
<1> HIDE DEF p
<1>6. p.acts \subseteq Actions
  BY <1>1, <1>2, <1>3
<1> QED BY <1>4, <1>5, <1>6 DEF p

\* Planning a run, from a blank tracker: its actions and its tracker.
LEMMA CycleIs ==
  ASSUME HealInv, Cycle
  PROVE  /\ pending' \subseteq Actions /\ plan' \in States
         /\ \A a \in pending' : /\ a.kind # "add"
                                /\ a.kind = "heal" =>
                                     /\ a.sweep \in Sweeps
                                     /\ a.item \in Prs <=> a.sweep = "approved"
         /\ phase' = IF pending' = {} THEN "idle" ELSE "running"
<1> DEFINE one == Sweep("triage", Begin)
<1> DEFINE two == Sweep("copilot", one)
<1> DEFINE three == Sweep("approved", two)
<1> DEFINE p == Planned(one, three)
<1>1. After(Begin)
  BY BlankIs DEF Begin, After, Runs
<1>2. "triage" \in Sweeps /\ "copilot" \in Sweeps /\ "approved" \in Sweeps
  BY DEF Sweeps
<1>3. After(one)
  BY <1>1, <1>2, SweepKeeps
<1>4. After(two)
  <2> HIDE DEF one
  <2> QED BY <1>2, <1>3, SweepKeeps
<1>5. After(three)
  <2> HIDE DEF two
  <2> QED BY <1>2, <1>4, SweepKeeps
<1>6. /\ pending' = p.acts /\ plan' = p.tracker
      /\ phase' = (IF p.acts = {} THEN "idle" ELSE "running")
  BY DEF Cycle
<1> HIDE DEF one, two, three
<1>7. /\ p.acts \subseteq Actions /\ p.tracker \in States
      /\ \A a \in p.acts : /\ a.kind # "add"
                           /\ a.kind = "heal" => /\ a.sweep \in Sweeps
                                                 /\ a.item \in Prs <=> a.sweep = "approved"
  BY <1>5, PlannedIs
<1> HIDE DEF p
<1> QED BY <1>6, <1>7

-----------------------------------------------------------------------------
(* Steps *)

LEMMA HealInitInv == HealInit => HealInv
<1> SUFFICES ASSUME HealInit PROVE HealInv
  OBVIOUS
<1> USE DEF HealInit
<1>1. saved \in States /\ plan \in States
  BY BlankIs
<1>2. label \in [Items -> SUBSET Labels]
  BY DEF Labels, StageLabels
<1>3. age \in [Items -> Nat] /\ \A i \in Items : age[i] <= Oldest(i)
  <2>1. \A s \in Sweeps : Cutoff[s] \in Nat
    BY SelfHealAssumption
  <2> QED BY <2>1 DEF Oldest, Sweeps
<1>4. SelfHealTypeOK
  <2>1. open \subseteq Items /\ working \subseteq Items /\ merged \subseteq Issues
    OBVIOUS
  <2>2. phase \in {"idle", "running"} /\ pending \subseteq Actions
    OBVIOUS
  <2>3. handled \subseteq Items /\ cut \subseteq Items
    OBVIOUS
  <2>4. lost \in 0 .. MaxLost /\ moves \in 0 .. MaxMoves
    BY Bounds
  <2> QED BY <1>1, <1>2, <1>3, <2>1, <2>2, <2>3, <2>4 DEF SelfHealTypeOK
<1>5. KindInv
  BY Bounds DEF KindInv
<1>6. StagedInv
  BY DEF StagedInv, StageLabels, SelfHealTypeOK
<1> QED BY <1>4, <1>5, <1>6 DEF HealInv, IdleInv

LEMMA CycleKeeps == HealInv /\ Cycle => HealInv'
<1> SUFFICES ASSUME HealInv, Cycle PROVE HealInv'
  OBVIOUS
<1>1. UNCHANGED <<world, age, saved, handled, cut, lost, moves>>
      /\ phase = "idle" /\ pending = {}
  BY DEF Cycle, HealInv, IdleInv
<1>2. SelfHealTypeOK'
  BY <1>1, CycleIs DEF HealInv, SelfHealTypeOK, world
<1>3. IdleInv' /\ KindInv' /\ StagedInv'
  BY <1>1, CycleIs DEF HealInv, IdleInv, KindInv, StagedInv, world
<1> QED BY <1>2, <1>3 DEF HealInv

\* A request of the executor: what it may do to the label of its item.
LEMMA RequestKeeps ==
  ASSUME HealInv, NEW a \in pending,
         \/ Toggle(a) \/ AddBack(a) \/ Escalate(a) \/ CloseNeedsHuman(a) \/ OnRepo(a)
         \/ ActionFails(a)
  PROVE  HealInv'
<1>1. /\ UNCHANGED <<saved, phase, plan, handled, moves, working, merged>>
      /\ phase = "running" /\ phase' = "running"
  BY DEF Toggle, AddBack, Escalate, CloseNeedsHuman, OnRepo, ActionFails, Kept, world,
         HealInv, IdleInv, SelfHealTypeOK
<1>2. /\ a.kind \in {"heal", "add"} =>
           /\ a.sweep \in Sweeps /\ (a.item \in Prs <=> a.sweep = "approved")
           /\ a.item \in Items
      /\ a.kind = "escalate" => a.item \in Items
      /\ a \in Actions
  BY DEF HealInv, KindInv, SelfHealTypeOK, Actions, Sweeps
<1>3. /\ \A i \in Items : age[i] <= Oldest(i) /\ age[i] \in Nat /\ 0 <= Oldest(i)
      /\ DOMAIN age = Items
  <2>1. \A s \in Sweeps : Cutoff[s] \in Nat
    BY SelfHealAssumption
  <2> QED BY <2>1 DEF HealInv, SelfHealTypeOK, Oldest, Sweeps
<1>4. /\ label' \in [Items -> SUBSET Labels] /\ open' \subseteq Items
      /\ age' \in [Items -> Nat] /\ \A i \in Items : age'[i] <= Oldest(i)
      /\ pending' \subseteq Actions /\ cut' \subseteq Items /\ lost' \in 0 .. MaxLost
  <2>0. /\ label \in [Items -> SUBSET Labels] /\ open \subseteq Items
        /\ age \in [Items -> Nat] /\ pending \subseteq Actions /\ cut \subseteq Items
        /\ lost \in 0 .. MaxLost
    BY DEF HealInv, SelfHealTypeOK
  <2>1. CASE Toggle(a)
    <3>1. [a EXCEPT !.kind = "add"] \in Actions
      BY <1>2, <2>1 DEF Toggle, Actions
    <3> QED BY <1>2, <1>3, <2>0, <2>1, <3>1 DEF Toggle, Written
  <2>2. CASE AddBack(a)
    <3>1. To[a.sweep] \in Labels
      BY <1>2, <2>2 DEF AddBack, To, Labels, StageLabels, Sweeps
    <3> QED BY <1>2, <1>3, <2>0, <2>2, <3>1 DEF AddBack, Written, Done
  <2>3. CASE Escalate(a)
    BY <1>2, <1>3, <2>0, <2>3 DEF Escalate, Written, Done, Labels
  <2>4. CASE CloseNeedsHuman(a)
    BY <1>3, <2>0, <2>4 DEF CloseNeedsHuman, Done
  <2>5. CASE OnRepo(a)
    BY <1>3, <2>0, <2>5 DEF OnRepo, Done, world
  <2>6. CASE ActionFails(a)
    BY <1>2, <1>3, <2>0, <2>6, Bounds DEF ActionFails, Done, world
  <2> QED BY <2>1, <2>2, <2>3, <2>4, <2>5, <2>6
<1>5. SelfHealTypeOK'
  BY <1>1, <1>4 DEF HealInv, SelfHealTypeOK
<1>6. KindInv'
  <2>0. /\ label \in [Items -> SUBSET Labels] /\ KindInv /\ a.item \in Items \cup {TheRepo}
    BY <1>2 DEF HealInv, SelfHealTypeOK, Actions
  <2>1. CASE Toggle(a)
    <3>1. /\ [a EXCEPT !.kind = "add"].sweep = a.sweep
          /\ [a EXCEPT !.kind = "add"].item = a.item
      BY <1>2 DEF Actions
    <3>2. \A i \in Items : label'[i] \subseteq label[i]
      BY <1>2, <2>0, <2>1 DEF Toggle
    <3>3. \A b \in pending' : b \in pending \/ b = [a EXCEPT !.kind = "add"]
      BY <2>1 DEF Toggle
    <3> QED BY <1>2, <2>0, <2>1, <3>1, <3>2, <3>3, Bounds DEF KindInv, Toggle
  <2>2. CASE AddBack(a)
    <3>1. \A i \in Items : label'[i] = IF i = a.item THEN label[i] \cup {To[a.sweep]}
                                       ELSE label[i]
      BY <2>0, <2>2 DEF AddBack
    <3>2. a.sweep \in Sweeps /\ (a.item \in Prs <=> a.sweep = "approved")
      BY <1>2, <2>2 DEF AddBack
    <3>3. /\ a.item \in Prs => To[a.sweep] = "approved-for-build"
          /\ a.item \notin Prs => To[a.sweep] = "needs-triage"
      BY <3>2 DEF To, Sweeps
    <3>4. pending' \subseteq pending
      BY <2>2 DEF AddBack, Done
    <3> QED BY <2>0, <3>1, <3>3, <3>4, Bounds DEF KindInv
  <2>3. CASE Escalate(a)
    <3>1. \A i \in Items : label'[i] \subseteq label[i] \cup {"needs-human"}
      BY <2>0, <2>3 DEF Escalate
    <3> QED BY <2>0, <2>3, <3>1, Bounds DEF KindInv, Escalate, Done
  <2>4. CASE CloseNeedsHuman(a) \/ OnRepo(a) \/ ActionFails(a)
    BY <2>0, <2>4 DEF KindInv, CloseNeedsHuman, OnRepo, ActionFails, Done, world
  <2> QED BY <2>1, <2>2, <2>3, <2>4
<1>7. StagedInv'
  <2>0. StagedInv /\ label \in [Items -> SUBSET Labels] /\ open \subseteq Items
    BY DEF HealInv, SelfHealTypeOK
  <2>1. CASE Toggle(a)
    <3>1. [a EXCEPT !.kind = "add"].kind = "add" /\ [a EXCEPT !.kind = "add"].item = a.item
          /\ [a EXCEPT !.kind = "add"] \in pending' /\ a.kind = "heal"
      BY <1>2, <2>1 DEF Toggle, Actions
    <3>2. /\ \A i \in Items \ {a.item} : label'[i] = label[i]
          /\ \A b \in pending : b.kind = "add" => b \in pending'
          /\ UNCHANGED <<open, cut>>
      BY <2>0, <2>1, <3>1 DEF Toggle
    <3> QED BY <1>1, <2>0, <3>1, <3>2 DEF StagedInv
  <2>2. CASE AddBack(a)
    <3>1. To[a.sweep] \in StageLabels /\ a.item \in Items
      BY <1>2, <2>2 DEF AddBack, To, StageLabels, Sweeps
    <3>2. /\ To[a.sweep] \in label'[a.item]
          /\ \A i \in Items \ {a.item} : label'[i] = label[i]
          /\ pending' = pending \ {a} /\ UNCHANGED <<open, cut>>
      BY <2>0, <2>2, <3>1 DEF AddBack, Done
    <3> QED BY <1>1, <2>0, <3>1, <3>2 DEF StagedInv
  <2>3. CASE Escalate(a)
    <3>1. /\ \A i \in Items : label[i] \subseteq label'[i]
          /\ \A b \in pending : b.kind = "add" => b \in pending'
          /\ UNCHANGED <<open, cut>>
      BY <2>0, <2>3 DEF Escalate, Done
    <3> QED BY <1>1, <2>0, <3>1 DEF StagedInv
  <2>4. CASE CloseNeedsHuman(a) \/ OnRepo(a)
    <3>1. /\ UNCHANGED <<label, cut>> /\ open' \subseteq open
          /\ \A b \in pending : b.kind = "add" => b \in pending'
      BY <2>4 DEF CloseNeedsHuman, OnRepo, Done, world
    <3> QED BY <1>1, <2>0, <3>1 DEF StagedInv
  <2>5. CASE ActionFails(a)
    <3>1. /\ UNCHANGED <<label, open>> /\ pending' = pending \ {a}
          /\ cut' = IF a.kind = "add" THEN cut \cup {a.item} ELSE cut
      BY <2>5 DEF ActionFails, Done, world
    <3> QED BY <1>1, <2>0, <3>1 DEF StagedInv
  <2> QED BY <2>1, <2>2, <2>3, <2>4, <2>5
<1> QED BY <1>1, <1>5, <1>6, <1>7 DEF HealInv, IdleInv

\* The end of a run, saved or lost, and a restart in the middle of one.
LEMMA EndKeeps == HealInv /\ (Save \/ SaveFails \/ Restart) => HealInv'
<1> SUFFICES ASSUME HealInv, Save \/ SaveFails \/ Restart PROVE HealInv'
  OBVIOUS
<1>1. /\ UNCHANGED <<label, open, working, merged, age, plan, handled, moves>>
      /\ phase = "running" /\ phase' = "idle" /\ pending' = {}
      /\ saved' \in {saved, plan} /\ lost' \in 0 .. MaxLost
      /\ cut' = cut \cup {a.item : a \in {b \in pending : b.kind = "add"}}
  <2>0. HealInv /\ lost \in 0 .. MaxLost
    BY DEF HealInv, SelfHealTypeOK
  <2>1. CASE Save
    BY <2>0, <2>1 DEF Save, world
  <2>2. CASE SaveFails
    BY <2>0, <2>2, Bounds DEF SaveFails, world
  <2>3. CASE Restart
    BY <2>0, <2>3, Bounds DEF Restart, world
  <2> QED BY <2>1, <2>2, <2>3
<1>2. SelfHealTypeOK'
  <2>1. \A a \in pending : a.kind = "add" => a.item \in Items
    BY DEF HealInv, SelfHealTypeOK, Actions
  <2>2. cut' \subseteq Items
    BY <1>1, <2>1 DEF HealInv, SelfHealTypeOK
  <2>3. saved' \in States
    BY <1>1 DEF HealInv, SelfHealTypeOK
  <2> QED BY <1>1, <2>2, <2>3 DEF HealInv, SelfHealTypeOK
<1>3. IdleInv' /\ KindInv'
  BY <1>1 DEF HealInv, IdleInv, KindInv
<1>4. StagedInv'
  BY <1>1 DEF HealInv, StagedInv
<1> QED BY <1>2, <1>3, <1>4 DEF HealInv

LEMMA TickKeeps == HealInv /\ Tick => HealInv'
<1> SUFFICES ASSUME HealInv, Tick PROVE HealInv'
  OBVIOUS
<1>1. /\ UNCHANGED <<label, open, working, merged, saved, phase, plan, pending,
                     handled, cut, lost, moves>>
      /\ age' = [i \in Items |-> More(age[i], Oldest(i))]
  BY DEF Tick, world
<1>2. age' \in [Items -> Nat] /\ \A i \in Items : age'[i] <= Oldest(i)
  <2>1. \A i \in Items : Oldest(i) \in Nat
    <3>1. \A s \in Sweeps : Cutoff[s] \in Nat
      BY SelfHealAssumption
    <3> QED BY <3>1 DEF Oldest, Sweeps
  <2>2. \A i \in Items : age[i] \in Nat /\ age[i] <= Oldest(i)
    BY DEF HealInv, SelfHealTypeOK
  <2>3. \A i \in Items : /\ More(age[i], Oldest(i)) \in Nat
                         /\ More(age[i], Oldest(i)) <= Oldest(i)
    BY <2>1, <2>2 DEF More
  <2> QED BY <1>1, <2>3
<1>3. SelfHealTypeOK'
  BY <1>1, <1>2 DEF HealInv, SelfHealTypeOK
<1>4. IdleInv' /\ KindInv' /\ StagedInv'
  BY <1>1 DEF HealInv, IdleInv, KindInv, StagedInv
<1> QED BY <1>3, <1>4 DEF HealInv

\* Whoever moves an item has handled it; the others keep their labels.
LEMMA OthersKeep == HealInv /\ Others => HealInv'
<1> SUFFICES ASSUME HealInv, NEW i \in Items,
                    TakesOn(i) \/ Holds(i) \/ OpensPr(i) \/ MergesPr(i) \/ Closes(i)
             PROVE  HealInv'
  BY DEF Others
<1>1. /\ UNCHANGED <<age, saved, phase, plan, pending, cut, lost>>
      /\ handled' = handled \cup {i} /\ moves' = moves + 1 /\ moves < MaxMoves
  BY DEF TakesOn, Holds, OpensPr, MergesPr, Closes, Moved
<1>2. /\ open' \subseteq open
      /\ working' \subseteq working \cup {i}
      /\ merged' \subseteq Issues
      /\ label' \in [Items -> SUBSET Labels]
      /\ \A j \in Items \ {i} : label'[j] = label[j]
      /\ i \in Issues => label'[i] \subseteq label[i] \cup {"copilot-triaging", "manual-only",
                                                           "needs-info"}
      /\ i \in Prs => label'[i] \subseteq label[i] \cup {"manual-only", "needs-info"}
  <2>0. label \in [Items -> SUBSET Labels] /\ merged \subseteq Issues
    BY DEF HealInv, SelfHealTypeOK
  <2>1. CASE TakesOn(i)
    <3>1. PICK lane \in {{}} \cup (IF i \in Issues THEN {{"copilot-triaging"}} ELSE {}) :
            /\ label' = [label EXCEPT ![i] = (@ \ StageLabels) \cup lane]
            /\ UNCHANGED <<open, working, merged>>
      BY <2>1 DEF TakesOn
    <3>2. lane = {} \/ (lane = {"copilot-triaging"} /\ i \in Issues)
      BY <3>1
    <3>3. label' = [label EXCEPT ![i] = (label[i] \ StageLabels) \cup lane]
          /\ lane \subseteq Labels /\ (i \notin Prs \/ lane = {})
      BY <3>1, <3>2, Bounds DEF Labels, StageLabels
    <3> QED BY <2>0, <3>1, <3>2, <3>3
  <2>2. CASE Holds(i)
    <3>1. PICK l \in {"manual-only", "needs-info"} :
            /\ label' = [label EXCEPT ![i] = @ \cup {l}]
            /\ UNCHANGED <<open, working, merged>>
      BY <2>2 DEF Holds
    <3>2. l \in Labels
      BY DEF Labels
    <3> QED BY <2>0, <3>1, <3>2
  <2>3. CASE OpensPr(i)
    BY <2>0, <2>3 DEF OpensPr
  <2>4. CASE MergesPr(i)
    BY <2>0, <2>4 DEF MergesPr
  <2>5. CASE Closes(i)
    BY <2>0, <2>5 DEF Closes
  <2> QED BY <2>1, <2>2, <2>3, <2>4, <2>5
<1>3. SelfHealTypeOK'
  <2>1. moves' \in 0 .. MaxMoves
    BY <1>1, Bounds DEF HealInv, SelfHealTypeOK
  <2> QED BY <1>1, <1>2, <2>1 DEF HealInv, SelfHealTypeOK
<1>4. IdleInv'
  BY <1>1 DEF HealInv, IdleInv
<1>5. KindInv'
  BY <1>1, <1>2, Bounds DEF HealInv, KindInv
<1>6. StagedInv'
  BY <1>1, <1>2 DEF HealInv, StagedInv, SelfHealTypeOK
<1> QED BY <1>3, <1>4, <1>5, <1>6 DEF HealInv

LEMMA StepKeeps == HealInv /\ [HealNext]_healVars => HealInv'
<1> SUFFICES ASSUME HealInv, [HealNext]_healVars PROVE HealInv'
  OBVIOUS
<1>1. CASE Execute \/ \E a \in pending : ActionFails(a)
  BY <1>1, RequestKeeps DEF Execute
<1>2. CASE Cycle
  BY <1>2, CycleKeeps
<1>3. CASE Save \/ SaveFails \/ Restart
  BY <1>3, EndKeeps
<1>4. CASE Tick
  BY <1>4, TickKeeps
<1>5. CASE Others
  BY <1>5, OthersKeep
<1>6. CASE UNCHANGED healVars
  BY <1>6 DEF healVars, HealInv, SelfHealTypeOK, IdleInv, KindInv, StagedInv
<1> QED BY <1>1, <1>2, <1>3, <1>4, <1>5, <1>6 DEF HealNext, Fails

LEMMA HealInvHolds == HealSpec => []HealInv
BY HealInitInv, StepKeeps, PTL DEF HealSpec

-----------------------------------------------------------------------------
(* Theorems *)

\* The labels, the tracker and the actions of a run stay what the sweeps, the
\* executor and the saved state document take them to be.
THEOREM HealTypeOK == HealSpec => []SelfHealTypeOK
BY HealInvHolds, PTL DEF HealInv

\* The executor removes a stage label and adds the next in two requests, yet
\* between runs an open item that nobody moved and whose toggle was not cut
\* short has a stage label: no heal hides its item from the sweeps.
THEOREM HealStageLabelKept == HealSpec => []StageLabelKept
<1>1. HealInv => StageLabelKept
  BY DEF HealInv, IdleInv, StagedInv, StageLabelKept
<1> QED BY <1>1, HealInvHolds, PTL
=============================================================================
