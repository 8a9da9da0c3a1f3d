-------------------------- MODULE ControlLoopProofs --------------------------
(***************************************************************************)
(* What the control loop guarantees, for any world its modules meet: the   *)
(* observation, supervisor and strategy-audit modules one by one, and the  *)
(* loop over all six, those with proofs of their own (SelfHealProofs,      *)
(* MergeLaneProofs, DecisionLaneProofs) included.                          *)
(***************************************************************************)
EXTENDS ControlLoop, DecisionLaneProofs, MergeLaneProofs, SelfHealProofs,
        FiniteSetTheorems, SequenceTheorems, TLAPS

-----------------------------------------------------------------------------
(* Observation                                                             *)

\* What the loop opened for Home, and what is open of it.
ByLoop == {n \in Numbers : issue[n].by = "loop" /\ issue[n].repo = Home}
OpenByLoop == {n \in ByLoop : issue[n].state = "open"}

Wanted(a) == a.kind = "create" /\ a.repo = Home

\* Numbers are given in order, to issues of somebody.
NumberedInv ==
    \A n \in Numbers : issue[n].state = "absent" =>
        issue[n].by = "nobody" /\ \A m \in Numbers : n < m => issue[m].state = "absent"

\* While a model assesses the snapshot, what the loop has open on GitHub is in
\* it: the loop opens nothing meanwhile, and nobody else opens in its name.
SnapshotInv ==
    step = "assessing" /\ forge = "github" =>
        \A n \in OpenByLoop : seen[n].known /\ seen[n].title = issue[n].title

\* What is still to be created is no duplicate of what is to be created before it
\* or, on GitHub, of what the loop has open.
PendingInv ==
    \A k \in DOMAIN todo : Wanted(todo[k]) =>
        /\ forge = "github" =>
             \A n \in OpenByLoop : ~Duplicate(todo[k].title, issue[n].title)
        /\ \A j \in 1 .. k - 1 : Wanted(todo[j]) => ~Duplicate(todo[k].title, todo[j].title)

\* The property, with the sets that the steps preserve.
OncePerTitle ==
    /\ forge = "github" => \A m, n \in OpenByLoop :
          m < n => ~Duplicate(issue[n].title, issue[m].title)
    /\ forge = "quackback" => \A m, n \in ByLoop :
          m < n => issue[m].title # issue[n].title

ObservationInv ==
    /\ ObservationTypeOK
    /\ step # "acting" => todo = <<>>
    /\ NumberedInv /\ SnapshotInv /\ PendingInv /\ OncePerTitle

LEMMA OnceIsOnce == OncePerTitle => OneOpenIssuePerTitle
BY DEF OncePerTitle, OneOpenIssuePerTitle, ByLoop, OpenByLoop, OpenIssues

\* The actions of a plan.
LEMMA CreateIs ==
  ASSUME NEW p \in Proposals
  PROVE  /\ Create(p) \in ActionSet /\ Create(p).kind = "create"
         /\ Create(p).title = p.title /\ Create(p).repo = RepoOf(p.labels)
<1>1. p.title \in AnyTitle /\ p.labels \in SUBSET RouteLabels
  BY ObservationAssumption DEF AnyTitle
<1>2. Routed(p.labels) \in SUBSET RouteLabels
  BY <1>1 DEF Routed, RouteLabels
<1>3. RepoOf(p.labels) \in {Home, Service}
  BY DEF RepoOf
<1> QED BY <1>1, <1>2, <1>3 DEF Create, ActionSet

LEMMA ClosesAre ==
  ASSUME NEW n \in Nat, NEW r \in {Home, Service}
  PROVE  /\ CloseIssue(n) \in ActionSet /\ CloseIssue(n).kind # "create"
         /\ ClosePr(r, n) \in ActionSet /\ ClosePr(r, n).kind # "create"
BY DEF CloseIssue, ClosePr, ActionSet, AnyTitle

\* Nothing more is opened in the loop's name: the rest of the plan still fits.
LEMMA NothingOpened ==
  ASSUME ObservationInv, UNCHANGED <<forge, step, seen>>,
         OpenByLoop' \subseteq OpenByLoop,
         \A n \in ByLoop' : n \in ByLoop /\ issue'[n].title = issue[n].title,
         todo' = todo \/ (step = "acting" /\ todo # <<>> /\ todo' = Tail(todo))
  PROVE  /\ step' # "acting" => todo' = <<>>
         /\ todo' \in Seq(ActionSet)
         /\ SnapshotInv' /\ PendingInv' /\ OncePerTitle'
<1>1. todo \in Seq(ActionSet)
  BY DEF ObservationInv, ObservationTypeOK
<1>2. todo' \in Seq(ActionSet) /\ (step' # "acting" => todo' = <<>>)
  BY <1>1 DEF ObservationInv
<1>3. \A n \in OpenByLoop' : n \in OpenByLoop /\ issue'[n].title = issue[n].title
  BY DEF OpenByLoop
<1>4. SnapshotInv'
  BY <1>3 DEF ObservationInv, SnapshotInv
<1>5. OncePerTitle'
  BY <1>3 DEF ObservationInv, OncePerTitle
<1>6. PendingInv'
  <2>1. \A k \in DOMAIN todo : Wanted(todo[k]) =>
          /\ forge = "github" =>
               \A n \in OpenByLoop' : ~Duplicate(todo[k].title, issue'[n].title)
          /\ \A j \in 1 .. k - 1 : Wanted(todo[j]) => ~Duplicate(todo[k].title, todo[j].title)
    BY <1>3 DEF ObservationInv, PendingInv
  <2>2. CASE todo' = todo
    BY <2>1, <2>2 DEF PendingInv, Wanted
  <2>3. CASE todo # <<>> /\ todo' = Tail(todo)
    <3>1. /\ DOMAIN todo' = 1 .. Len(todo) - 1 /\ DOMAIN todo = 1 .. Len(todo) /\ Len(todo) \in Nat
          /\ \A k \in DOMAIN todo' : todo'[k] = todo[k + 1] /\ k \in Nat /\ k + 1 \in DOMAIN todo
      BY <1>1, <2>3
    <3> SUFFICES ASSUME NEW k \in DOMAIN todo', Wanted(todo'[k])
                 PROVE  /\ forge = "github" =>
                             \A n \in OpenByLoop' : ~Duplicate(todo'[k].title, issue'[n].title)
                        /\ \A j \in 1 .. k - 1 : Wanted(todo'[j]) =>
                             ~Duplicate(todo'[k].title, todo'[j].title)
      BY DEF PendingInv, Wanted
    <3>2. \A j \in 1 .. k - 1 : j + 1 \in 1 .. (k + 1) - 1 /\ todo'[j] = todo[j + 1]
      BY <3>1
    <3> QED BY <2>1, <3>1, <3>2
  <2> QED BY <2>2, <2>3
<1> QED BY <1>2, <1>4, <1>5, <1>6

\* An issue that is opened for the loop was wanted and fits what is open.
LEMMA CreateKeeps == ObservationInv /\ CreateIssue => ObservationInv'
<1> SUFFICES ASSUME ObservationInv, CreateIssue PROVE ObservationInv'
  OBVIOUS
<1>1. PICK n \in Numbers :
        /\ issue[n].state = "absent" /\ \A m \in 1 .. n - 1 : issue[m].state # "absent"
        /\ issue' = [issue EXCEPT ![n] =
                       Opened(Head(todo).title, Head(todo).labels, "loop", Head(todo).repo)]
  BY DEF CreateIssue
<1>2. /\ step = "acting" /\ todo # <<>> /\ Head(todo).kind = "create" /\ todo' = Tail(todo)
      /\ ~HasPost(Head(todo).title)
      /\ UNCHANGED <<forge, prs, step, seen, acts, errors>>
  BY DEF CreateIssue, Acting
<1>3. /\ todo \in Seq(ActionSet) /\ Len(todo) \in Nat \ {0} /\ Head(todo) = todo[1]
      /\ todo[1] \in ActionSet /\ DOMAIN todo = 1 .. Len(todo)
      /\ Tail(todo) \in Seq(ActionSet) /\ DOMAIN Tail(todo) = 1 .. Len(todo) - 1
      /\ \A k \in 1 .. Len(todo) - 1 : Tail(todo)[k] = todo[k + 1]
  BY <1>2 DEF ObservationInv, ObservationTypeOK
<1> DEFINE a == todo[1]
           new == Opened(a.title, a.labels, "loop", a.repo)
<1>4. /\ issue' = [issue EXCEPT ![n] = new]
      /\ new.state = "open" /\ new.by = "loop" /\ new.title = a.title /\ new.repo = a.repo
      /\ new \in IssueSet
  BY <1>1, <1>3 DEF Opened, ActionSet, IssueSet
<1> HIDE DEF new
<1>5. /\ issue' \in [Numbers -> IssueSet]
      /\ issue'[n] = new /\ \A m \in Numbers \ {n} : issue'[m] = issue[m]
  BY <1>1, <1>4 DEF ObservationInv, ObservationTypeOK
<1>6. ObservationTypeOK'
  BY <1>2, <1>3, <1>5 DEF ObservationInv, ObservationTypeOK
<1>7. /\ \A m \in ByLoop' : (m = n /\ Wanted(a)) \/ (m # n /\ m \in ByLoop)
      /\ \A m \in OpenByLoop' : (m = n /\ Wanted(a)) \/ (m # n /\ m \in OpenByLoop)
  BY <1>2, <1>3, <1>4, <1>5 DEF ByLoop, OpenByLoop, Wanted
<1>8. /\ Wanted(a) /\ forge = "github" =>
           \A m \in OpenByLoop : ~Duplicate(a.title, issue[m].title)
      /\ forge = "quackback" => \A m \in Numbers : issue[m].title # a.title
  BY <1>2, <1>3 DEF ObservationInv, PendingInv, HasPost
<1>9. OncePerTitle' /\ NumberedInv'
  <2>1. \A m \in Numbers : n < m => issue[m].state = "absent" /\ m \notin ByLoop
    BY <1>1 DEF ObservationInv, NumberedInv, ByLoop
  <2>2. ByLoop \subseteq Numbers /\ OpenByLoop \subseteq ByLoop /\ ByLoop' \subseteq Numbers
        /\ OpenByLoop' \subseteq ByLoop' /\ Numbers \subseteq Nat
    BY ObservationAssumption DEF ByLoop, OpenByLoop, Numbers
  <2>3. ASSUME forge = "github", NEW m \in OpenByLoop', NEW l \in OpenByLoop', m < l
        PROVE  ~Duplicate(issue'[l].title, issue'[m].title)
    <3>1. CASE l = n
      BY <1>4, <1>5, <1>7, <1>8, <2>2, <2>3, <3>1
    <3>2. CASE l # n
      <4>1. l \in OpenByLoop /\ m # n
        BY <1>7, <2>1, <2>2, <2>3, <3>2
      <4> QED BY <1>5, <1>7, <2>2, <2>3, <3>2, <4>1 DEF ObservationInv, OncePerTitle
    <3> QED BY <3>1, <3>2
  <2>4. ASSUME forge = "quackback", NEW m \in ByLoop', NEW l \in ByLoop', m < l
        PROVE  issue'[m].title # issue'[l].title
    <3>1. CASE l = n
      BY <1>4, <1>5, <1>7, <1>8, <2>2, <2>4, <3>1
    <3>2. CASE l # n
      <4>1. l \in ByLoop /\ m # n
        BY <1>7, <2>1, <2>2, <2>4, <3>2
      <4> QED BY <1>5, <1>7, <2>2, <2>4, <3>2, <4>1 DEF ObservationInv, OncePerTitle
    <3> QED BY <3>1, <3>2
  <2>5. NumberedInv'
    <3> SUFFICES ASSUME NEW m \in Numbers, issue'[m].state = "absent"
                 PROVE  /\ issue'[m].by = "nobody"
                        /\ \A l \in Numbers : m < l => issue'[l].state = "absent"
      BY DEF NumberedInv
    <3>1. m # n /\ issue'[m] = issue[m]
      BY <1>4, <1>5
    <3>2. m \notin 1 .. n - 1
      BY <1>1, <3>1
    <3>3. n < m
      BY <2>2, <3>1, <3>2 DEF Numbers
    <3>4. issue[m].by = "nobody" /\ \A l \in Numbers : m < l => issue[l].state = "absent"
      BY <3>1 DEF ObservationInv, NumberedInv
    <3>5. \A l \in Numbers : m < l => l # n
      BY <2>2, <3>3
    <3> QED BY <1>5, <3>1, <3>4, <3>5
  <2> QED BY <1>2, <2>3, <2>4, <2>5 DEF OncePerTitle
<1>10. PendingInv'
  <2>1. \A k \in 1 .. Len(todo) - 1 : k \in Nat /\ todo'[k] = todo[k + 1] /\ k + 1 \in DOMAIN todo
    BY <1>2, <1>3
  <2> SUFFICES ASSUME NEW k \in 1 .. Len(todo) - 1, Wanted(todo[k + 1])
               PROVE  /\ forge = "github" =>
                           \A m \in OpenByLoop' : ~Duplicate(todo[k + 1].title, issue'[m].title)
                      /\ \A j \in 1 .. k - 1 : Wanted(todo[j + 1]) =>
                           ~Duplicate(todo[k + 1].title, todo[j + 1].title)
    <3>1. DOMAIN todo' = 1 .. Len(todo) - 1
      BY <1>2, <1>3
    <3>2. \A i \in 1 .. Len(todo) - 1 : \A j \in 1 .. i - 1 : todo'[j] = todo[j + 1]
      BY <2>1, <1>3
    <3> QED BY <1>2, <2>1, <3>1, <3>2 DEF PendingInv, Wanted
  <2>2. /\ forge = "github" => \A m \in OpenByLoop : ~Duplicate(todo[k + 1].title, issue[m].title)
        /\ \A j \in 1 .. k : Wanted(todo[j]) => ~Duplicate(todo[k + 1].title, todo[j].title)
    BY <2>1 DEF ObservationInv, PendingInv
  <2>3. 1 \in 1 .. k /\ \A j \in 1 .. k - 1 : j + 1 \in 1 .. k
    BY <1>3
  <2>4. ASSUME forge = "github", NEW m \in OpenByLoop'
        PROVE  ~Duplicate(todo[k + 1].title, issue'[m].title)
    <3>1. m \in Numbers
      BY DEF OpenByLoop, ByLoop
    <3>2. CASE m = n
      BY <1>4, <1>5, <1>7, <2>2, <2>3, <2>4, <3>2
    <3>3. CASE m # n
      BY <1>5, <1>7, <2>2, <2>4, <3>1, <3>3
    <3> QED BY <3>2, <3>3
  <2> QED BY <2>2, <2>3, <2>4
<1>11. SnapshotInv'
  BY <1>2 DEF SnapshotInv
<1> QED BY <1>2, <1>6, <1>9, <1>10, <1>11 DEF ObservationInv

\* plan_actions: what it wants created passed the guard against the snapshot.
LEMMA PlanKeeps == ObservationInv /\ Plan => ObservationInv'
<1> SUFFICES ASSUME ObservationInv, Plan PROVE ObservationInv'
  OBVIOUS
<1>0. PICK k \in 0 .. MaxProposals :
        \E wanted \in [1 .. k -> Proposals] : \E close \in IssueCloses : \E closePr \in PrCloses :
          /\ Vetted(wanted)
          /\ todo' = [j \in 1 .. k |-> Create(wanted[j])] \o close \o closePr
  BY DEF Plan
<1>1. PICK wanted \in [1 .. k -> Proposals], close \in IssueCloses, closePr \in PrCloses :
        /\ Vetted(wanted)
        /\ todo' = [j \in 1 .. k |-> Create(wanted[j])] \o close \o closePr
  BY <1>0
<1>2. step = "assessing" /\ step' = "acting" /\ UNCHANGED <<forge, issue, prs, seen, acts, errors>>
  BY DEF Plan
<1> DEFINE creates == [j \in 1 .. k |-> Create(wanted[j])]
<1>3. /\ k \in Nat /\ creates \in Seq(ActionSet) /\ Len(creates) = k
      /\ \A j \in 1 .. k : /\ wanted[j] \in Proposals
                           /\ creates[j].title = wanted[j].title
                           /\ creates[j].repo = RepoOf(wanted[j].labels)
                           /\ creates[j].kind = "create"
  <2>1. k \in Nat /\ \A j \in 1 .. k : wanted[j] \in Proposals
    BY ObservationAssumption
  <2>2. \A j \in 1 .. k : Create(wanted[j]) \in ActionSet
    BY <2>1, CreateIs
  <2> HIDE DEF ActionSet
  <2>3. creates \in Seq(ActionSet) /\ Len(creates) = k
    BY <2>1, <2>2
  <2> QED BY <2>1, <2>3, CreateIs
<1>4. /\ close \in Seq(ActionSet) /\ \A j \in 1 .. Len(close) : close[j].kind # "create"
      /\ closePr \in Seq(ActionSet) /\ \A j \in 1 .. Len(closePr) : closePr[j].kind # "create"
  <2>1. Numbers \subseteq Nat /\ PrNumbers \subseteq Nat
    BY ObservationAssumption DEF Numbers
  <2>2. close = <<>> \/ \E n \in Nat : close = <<CloseIssue(n)>>
    BY <2>1 DEF IssueCloses
  <2>3. closePr = <<>> \/ \E r \in {Home, Service}, n \in Nat : closePr = <<ClosePr(r, n)>>
    BY <2>1 DEF PrCloses
  <2> DEFINE ok(s) == s \in Seq(ActionSet) /\ \A j \in 1 .. Len(s) : s[j].kind # "create"
  <2>4. ok(<<>>)
    OBVIOUS
  <2>5. \A a \in ActionSet : a.kind # "create" => ok(<<a>>)
    <3> HIDE DEF ActionSet
    <3> QED OBVIOUS
  <2>6. \A n \in Nat : ok(<<CloseIssue(n)>>)
    BY <2>5, ClosesAre
  <2>7. \A r \in {Home, Service}, n \in Nat : ok(<<ClosePr(r, n)>>)
    BY <2>5, ClosesAre
  <2> HIDE DEF ok
  <2>8. ok(close) /\ ok(closePr)
    BY <2>2, <2>3, <2>4, <2>6, <2>7
  <2> QED BY <2>8 DEF ok
<1> HIDE DEF creates
<1>5. todo' = creates \o close \o closePr
  BY <1>1 DEF creates
<1>6. todo' \in Seq(ActionSet)
  BY <1>3, <1>4, <1>5
<1>7. ASSUME NEW j \in DOMAIN todo', todo'[j].kind = "create"
      PROVE  j \in 1 .. k /\ todo'[j] = creates[j]
  <2>1. /\ Len(close) \in Nat /\ Len(closePr) \in Nat
        /\ DOMAIN todo' = 1 .. (k + Len(close) + Len(closePr)) /\ j \in Nat
    BY <1>3, <1>4, <1>5
  <2>2. CASE j <= k
    BY <1>3, <1>4, <1>5, <2>1, <2>2
  <2>3. CASE j > k /\ j <= k + Len(close)
    <3>1. j - k \in 1 .. Len(close)
      BY <2>1, <2>3, <1>3
    <3>2. todo'[j] = close[j - k]
      BY <1>3, <1>4, <1>5, <2>1, <2>3
    <3> QED BY <1>4, <1>7, <3>1, <3>2
  <2>4. CASE j > k + Len(close)
    <3>1. j - k - Len(close) \in 1 .. Len(closePr)
      BY <2>1, <2>4, <1>3
    <3>2. todo'[j] = closePr[j - k - Len(close)]
      BY <1>3, <1>4, <1>5, <2>1, <2>4
    <3> QED BY <1>4, <1>7, <3>1, <3>2
  <2> QED BY <2>1, <2>2, <2>3, <2>4, <1>3
<1>8. OpenByLoop' = OpenByLoop /\ ByLoop' = ByLoop
  BY <1>2 DEF OpenByLoop, ByLoop
<1>9. PendingInv'
  <2> SUFFICES ASSUME NEW j \in DOMAIN todo', Wanted(todo'[j])
               PROVE  /\ forge = "github" => \A n \in OpenByLoop : ~Duplicate(todo'[j].title, issue[n].title)
                      /\ \A l \in 1 .. j - 1 : Wanted(todo'[l]) =>
                           ~Duplicate(todo'[j].title, todo'[l].title)
    BY <1>2, <1>8 DEF PendingInv, Wanted
  <2>1. /\ j \in 1 .. k /\ todo'[j].title = wanted[j].title
        /\ RepoOf(wanted[j].labels) = Home
    BY <1>3, <1>7 DEF Wanted
  <2>2. /\ \A t \in SeenTitles : ~Duplicate(wanted[j].title, t)
        /\ \A l \in 1 .. j - 1 : RepoOf(wanted[l].labels) = Home =>
             ~Duplicate(wanted[j].title, wanted[l].title)
    BY <1>1, <2>1 DEF Vetted
  <2>3. forge = "github" => \A n \in OpenByLoop : issue[n].title \in SeenTitles
    <3> SUFFICES ASSUME forge = "github", NEW n \in OpenByLoop
                 PROVE  issue[n].title \in SeenTitles
      OBVIOUS
    <3>1. n \in Numbers /\ seen[n].known /\ seen[n].title = issue[n].title
      BY <1>2 DEF ObservationInv, SnapshotInv, OpenByLoop, ByLoop
    <3> QED BY <3>1 DEF SeenTitles
  <2>4. \A l \in 1 .. j - 1 : l \in DOMAIN todo' /\ l \in 1 .. k
    BY <1>3, <1>6, <2>1
  <2>5. \A l \in 1 .. j - 1 : Wanted(todo'[l]) =>
          /\ RepoOf(wanted[l].labels) = Home /\ todo'[l].title = wanted[l].title
    BY <1>3, <1>7, <2>4 DEF Wanted
  <2> QED BY <2>1, <2>2, <2>3, <2>5
<1>10. ObservationTypeOK'
  BY <1>2, <1>6 DEF ObservationInv, ObservationTypeOK
<1>11. SnapshotInv' /\ OncePerTitle' /\ NumberedInv'
  BY <1>2, <1>8 DEF ObservationInv, SnapshotInv, OncePerTitle, NumberedInv
<1> QED BY <1>2, <1>9, <1>10, <1>11 DEF ObservationInv

\* build_observation_inputs: on GitHub all that is open is in the snapshot.
LEMMA GatherKeeps == ObservationInv /\ Gather => ObservationInv'
<1> SUFFICES ASSUME ObservationInv, Gather PROVE ObservationInv'
  OBVIOUS
<1>1. /\ todo = <<>> /\ todo' = <<>> /\ step' = "assessing"
      /\ UNCHANGED <<forge, issue, prs, acts, errors>>
      /\ seen' = [n \in Numbers |->
                   IF n \in Listed
                   THEN [title |-> issue[n].title, labels |-> issue[n].labels, known |-> TRUE]
                   ELSE Unseen]
  BY DEF Gather, ObservationInv
<1>2. ObservationTypeOK'
  <2>1. Unseen \in [title: AnyTitle, labels: SUBSET RouteLabels, known: BOOLEAN]
    BY DEF Unseen, AnyTitle
  <2>2. seen' \in [Numbers -> [title: AnyTitle, labels: SUBSET RouteLabels, known: BOOLEAN]]
    <3>1. \A n \in Numbers : issue[n].title \in AnyTitle /\ issue[n].labels \in SUBSET RouteLabels
      BY DEF ObservationInv, ObservationTypeOK, IssueSet
    <3> QED BY <1>1, <2>1, <3>1
  <2> QED BY <1>1, <2>2 DEF ObservationInv, ObservationTypeOK
<1>3. /\ OpenByLoop' = OpenByLoop /\ ByLoop' = ByLoop /\ OpenByLoop \subseteq Numbers
      /\ forge = "github" => OpenByLoop \subseteq Listed
  BY <1>1 DEF OpenByLoop, ByLoop, OpenIssues, Listed
<1>4. SnapshotInv'
  BY <1>1, <1>3 DEF SnapshotInv
<1>5. PendingInv'
  BY <1>1 DEF PendingInv
<1>6. OncePerTitle' /\ NumberedInv'
  BY <1>1, <1>3 DEF ObservationInv, OncePerTitle, NumberedInv
<1> QED BY <1>1, <1>2, <1>4, <1>5, <1>6 DEF ObservationInv

\* A cycle that ends, or is cut short, leaves the issues and forgets the rest.
LEMMA CycleOver ==
  ASSUME ObservationInv, step' = "idle", todo' = <<>>, seen' = [n \in Numbers |-> Unseen],
         UNCHANGED <<forge, issue, prs, acts, errors>>
  PROVE  ObservationInv'
<1>1. Unseen \in [title: AnyTitle, labels: SUBSET RouteLabels, known: BOOLEAN]
  BY DEF Unseen, AnyTitle
<1>2. ObservationTypeOK'
  BY <1>1 DEF ObservationInv, ObservationTypeOK
<1>3. SnapshotInv' /\ PendingInv'
  BY DEF SnapshotInv, PendingInv
<1>4. OncePerTitle' /\ NumberedInv'
  BY DEF ObservationInv, OncePerTitle, NumberedInv, OpenByLoop, ByLoop
<1> QED BY <1>2, <1>3, <1>4 DEF ObservationInv

\* What people do to an issue, and what closes it, opens nothing for the loop.
LEMMA PeopleKeep ==
  ASSUME ObservationInv, UNCHANGED <<forge, step, seen>>,
         prs' \subseteq prs, acts' \in 0 .. MaxActs, errors' \in 0 .. MaxErrors,
         issue' \in [Numbers -> IssueSet], NumberedInv', OpenByLoop' \subseteq OpenByLoop,
         \A n \in ByLoop' : n \in ByLoop /\ issue'[n].title = issue[n].title,
         todo' = todo \/ (step = "acting" /\ todo # <<>> /\ todo' = Tail(todo))
  PROVE  ObservationInv'
<1>1. /\ step' # "acting" => todo' = <<>>
      /\ todo' \in Seq(ActionSet)
      /\ SnapshotInv' /\ PendingInv' /\ OncePerTitle'
  BY NothingOpened
<1> QED BY <1>1 DEF ObservationInv, ObservationTypeOK

LEMMA IssuesSame ==
  ASSUME ObservationInv, UNCHANGED issue
  PROVE  /\ issue' \in [Numbers -> IssueSet] /\ NumberedInv' /\ OpenByLoop' = OpenByLoop
         /\ \A n \in ByLoop' : n \in ByLoop /\ issue'[n].title = issue[n].title
BY DEF ObservationInv, ObservationTypeOK, NumberedInv, OpenByLoop, ByLoop

LEMMA ObservationStarts == ObservationInit => ObservationInv
<1> SUFFICES ASSUME ObservationInit PROVE ObservationInv
  OBVIOUS
<1>1. PICK t \in Titles, l \in {{}, {"needs-human"}} :
        issue = [n \in Numbers |-> IF n = 1 THEN Opened(t, l, "person", Home) ELSE Absent]
  BY DEF ObservationInit
<1>2. t \in AnyTitle /\ l \in SUBSET RouteLabels
  BY DEF RouteLabels, AnyTitle
<1>3. issue \in [Numbers -> IssueSet]
  BY <1>1, <1>2 DEF Opened, Absent, IssueSet, AnyTitle
<1>4. (\A n \in Numbers : issue[n].by # "loop") /\ NumberedInv
  <2>1. Numbers \subseteq Nat
    BY ObservationAssumption DEF Numbers
  <2> QED BY <1>1, <2>1 DEF Opened, Absent, NumberedInv, Numbers
<1>5. Unseen \in [title: AnyTitle, labels: SUBSET RouteLabels, known: BOOLEAN]
  BY DEF Unseen, AnyTitle
<1>6. ObservationTypeOK
  BY <1>3, <1>5, ObservationAssumption DEF ObservationInit, ObservationTypeOK
<1>7. SnapshotInv /\ PendingInv /\ OncePerTitle /\ todo = <<>>
  BY <1>4 DEF ObservationInit, SnapshotInv, PendingInv, OncePerTitle, OpenByLoop, ByLoop
<1> QED BY <1>4, <1>6, <1>7 DEF ObservationInv

\* An edit of one issue that opens none for the loop: of one that is there, or
\* of the next number.
LEMMA EditIs ==
  ASSUME ObservationInv, NEW n \in Numbers, NEW new \in IssueSet,
         issue' = [issue EXCEPT ![n] = new],
         new.by = "loop" => /\ issue[n].by = "loop" /\ new.title = issue[n].title
                            /\ new.repo = issue[n].repo
                            /\ new.state = "open" => issue[n].state = "open",
         \/ new.state = issue[n].state /\ new.by = issue[n].by
         \/ new.state # "absent" /\ issue[n].state # "absent"
         \/ new.state # "absent" /\ \A m \in 1 .. n - 1 : issue[m].state # "absent"
  PROVE  /\ issue' \in [Numbers -> IssueSet] /\ NumberedInv'
         /\ OpenByLoop' \subseteq OpenByLoop
         /\ \A m \in ByLoop' : m \in ByLoop /\ issue'[m].title = issue[m].title
<1>1. issue \in [Numbers -> IssueSet] /\ NumberedInv /\ Numbers \subseteq Nat
  BY ObservationAssumption DEF ObservationInv, ObservationTypeOK, Numbers
<1>2. issue'[n] = new /\ \A m \in Numbers \ {n} : issue'[m] = issue[m]
  BY <1>1
<1>3. /\ OpenByLoop' \subseteq OpenByLoop
      /\ \A m \in ByLoop' : m \in ByLoop /\ issue'[m].title = issue[m].title
  BY <1>2 DEF OpenByLoop, ByLoop
<1>4. NumberedInv'
  <2> SUFFICES ASSUME NEW m \in Numbers, issue'[m].state = "absent"
               PROVE  /\ issue'[m].by = "nobody"
                      /\ \A l \in Numbers : m < l => issue'[l].state = "absent"
    BY DEF NumberedInv
  <2>1. issue[m].state = "absent" /\ issue'[m].by = "nobody"
    BY <1>1, <1>2 DEF NumberedInv
  <2>2. \A l \in Numbers : m < l => issue[l].state = "absent"
    BY <1>1, <2>1 DEF NumberedInv
  <2>3. m < n => new.state = "absent"
    <3>1. m < n => m \in 1 .. n - 1
      BY <1>1 DEF Numbers
    <3> QED BY <1>2, <2>1, <2>2, <3>1
  <2> QED BY <1>2, <2>1, <2>2, <2>3
<1> QED BY <1>1, <1>3, <1>4

LEMMA CloseKeeps == ObservationInv /\ CloseOne => ObservationInv'
<1> SUFFICES ASSUME ObservationInv, CloseOne PROVE ObservationInv'
  OBVIOUS
<1> DEFINE n == Head(todo).number
           was == IF n \in Numbers THEN issue[n] ELSE Absent
           new == [was EXCEPT !.state = IF @ = "open" /\ forge = "github" THEN "closed" ELSE @]
<1>1. /\ issue' = [issue EXCEPT ![n].state =
                     IF @ = "open" /\ forge = "github" THEN "closed" ELSE @]
      /\ step = "acting" /\ todo # <<>> /\ todo' = Tail(todo)
      /\ UNCHANGED <<forge, prs, step, seen, acts, errors>>
  BY DEF CloseOne, Acting
<1>2. /\ acts' \in 0 .. MaxActs /\ errors' \in 0 .. MaxErrors
      /\ issue \in [Numbers -> IssueSet]
  BY <1>1 DEF ObservationInv, ObservationTypeOK
<1>3. CASE n \in Numbers
  <2>1. issue' = [issue EXCEPT ![n] = new]
    BY <1>1, <1>3
  <2>2. was \in IssueSet /\ was = issue[n]
    BY <1>2, <1>3
  <2> HIDE DEF was, n
  <2>3. /\ new \in IssueSet /\ new.by = was.by /\ new.title = was.title /\ new.repo = was.repo
        /\ new.state = was.state \/ (new.state = "closed" /\ was.state = "open")
    BY <2>2 DEF IssueSet
  <2> HIDE DEF new
  <2>4. /\ issue' \in [Numbers -> IssueSet] /\ NumberedInv'
        /\ OpenByLoop' \subseteq OpenByLoop
        /\ \A m \in ByLoop' : m \in ByLoop /\ issue'[m].title = issue[m].title
    BY <1>3, <2>1, <2>2, <2>3, EditIs
  <2> QED BY <1>1, <1>2, <2>4, PeopleKeep
<1>4. CASE n \notin Numbers
  <2>1. issue' = issue
    BY <1>1, <1>2, <1>4
  <2> QED BY <1>1, <1>2, <2>1, IssuesSame, PeopleKeep
<1> QED BY <1>3, <1>4

LEMMA PersonKeeps ==
  ASSUME ObservationInv, NEW n \in Numbers, Asks(n) \/ Files(n) \/ Resolves(n) \/ Accepts(n)
  PROVE  ObservationInv'
<1>1. /\ UNCHANGED <<forge, prs, step, seen, todo, errors>>
      /\ acts' \in 0 .. MaxActs /\ errors' \in 0 .. MaxErrors
  BY ObservationAssumption
  DEF Asks, Files, Resolves, Accepts, Person, ObservationInv, ObservationTypeOK
<1>2. issue \in [Numbers -> IssueSet]
  BY DEF ObservationInv, ObservationTypeOK
<1>3. ASSUME NEW new \in IssueSet, issue' = [issue EXCEPT ![n] = new],
             new.by = "loop" => /\ issue[n].by = "loop" /\ new.title = issue[n].title
                                /\ new.repo = issue[n].repo
                                /\ new.state = "open" => issue[n].state = "open",
             new.state # "absent",
             issue[n].state # "absent" \/ \A m \in 1 .. n - 1 : issue[m].state # "absent"
      PROVE  ObservationInv'
  <2>1. /\ issue' \in [Numbers -> IssueSet] /\ NumberedInv'
        /\ OpenByLoop' \subseteq OpenByLoop
        /\ \A m \in ByLoop' : m \in ByLoop /\ issue'[m].title = issue[m].title
    BY <1>3, EditIs
  <2> QED BY <1>1, <2>1, PeopleKeep
<1>4. CASE Asks(n)
  <2> DEFINE new == [issue[n] EXCEPT !.labels = @ \cup {"needs-human"}]
  <2>1. issue' = [issue EXCEPT ![n] = new] /\ issue[n].state = "open"
    BY <1>2, <1>4 DEF Asks, OpenIssues
  <2>2. /\ new \in IssueSet /\ new.by = issue[n].by /\ new.title = issue[n].title
        /\ new.repo = issue[n].repo /\ new.state = issue[n].state
    BY <1>2 DEF RouteLabels, IssueSet
  <2> HIDE DEF new
  <2> QED BY <1>3, <2>1, <2>2
<1>5. CASE Files(n)
  <2>1. PICK t \in Titles, l \in {{}, {"needs-human"}} :
          /\ issue' = [issue EXCEPT ![n] = Opened(t, l, "person", Home)]
          /\ \A m \in 1 .. n - 1 : issue[m].state # "absent"
    BY <1>5 DEF Files
  <2>2. /\ Opened(t, l, "person", Home) \in IssueSet
        /\ Opened(t, l, "person", Home).by = "person"
        /\ Opened(t, l, "person", Home).state = "open"
    BY DEF Opened, RouteLabels, IssueSet, AnyTitle
  <2> QED BY <1>3, <2>1, <2>2
<1>6. CASE Resolves(n)
  <2> DEFINE new == [issue[n] EXCEPT !.state = "closed"]
  <2>1. issue' = [issue EXCEPT ![n] = new] /\ issue[n].state = "open"
    BY <1>2, <1>6 DEF Resolves, OpenIssues
  <2>2. /\ new \in IssueSet /\ new.by = issue[n].by /\ new.title = issue[n].title
        /\ new.repo = issue[n].repo /\ new.state = "closed"
    BY <1>2 DEF IssueSet
  <2> HIDE DEF new
  <2> QED BY <1>3, <2>1, <2>2
<1>7. CASE Accepts(n)
  <2> DEFINE new == [issue[n] EXCEPT !.accepted = ~@]
  <2>1. issue' = [issue EXCEPT ![n] = new] /\ issue[n].state = "open"
    BY <1>2, <1>7 DEF Accepts, OpenIssues
  <2>2. /\ new \in IssueSet /\ new.by = issue[n].by /\ new.title = issue[n].title
        /\ new.repo = issue[n].repo /\ new.state = issue[n].state
    BY <1>2 DEF IssueSet
  <2> HIDE DEF new
  <2> QED BY <1>3, <2>1, <2>2
<1> QED BY <1>4, <1>5, <1>6, <1>7

LEMMA ObservationStep == ObservationInv /\ [ObservationNext]_observationVars => ObservationInv'
<1> SUFFICES ASSUME ObservationInv, [ObservationNext]_observationVars PROVE ObservationInv'
  OBVIOUS
<1>1. CASE Gather
  BY <1>1, GatherKeeps
<1>2. CASE Plan
  BY <1>2, PlanKeeps
<1>3. CASE Skip
  BY <1>3, CycleOver DEF Skip, ObservationInv
<1>4. CASE CreateIssue
  BY <1>4, CreateKeeps
<1>5. CASE CloseOne
  BY <1>5, CloseKeeps
<1>6. CASE CloseOnePr \/ CommentInstead
  <2>1. prs' \subseteq prs /\ step = "acting" /\ todo # <<>> /\ todo' = Tail(todo)
        /\ UNCHANGED <<forge, issue, step, seen, acts, errors>>
    BY <1>6 DEF CloseOnePr, CommentInstead, Acting
  <2>2. acts' \in 0 .. MaxActs /\ errors' \in 0 .. MaxErrors
    BY <2>1 DEF ObservationInv, ObservationTypeOK
  <2> QED BY <2>1, <2>2, IssuesSame, PeopleKeep
<1>7. CASE RequestFails
  <2>1. /\ prs' = prs /\ step = "acting" /\ todo # <<>> /\ todo' = Tail(todo)
        /\ UNCHANGED <<forge, issue, step, seen, acts>>
    BY <1>7 DEF RequestFails
  <2>2. acts' \in 0 .. MaxActs /\ errors' \in 0 .. MaxErrors
    BY <1>7, <2>1, ObservationAssumption DEF RequestFails, ObservationInv, ObservationTypeOK
  <2> QED BY <2>1, <2>2, IssuesSame, PeopleKeep
<1>8. CASE EndCycle
  BY <1>8, CycleOver DEF EndCycle
<1>9. CASE Forget
  BY <1>9, CycleOver DEF Forget
<1>10. ASSUME NEW n \in Numbers, Asks(n) \/ Files(n) \/ Resolves(n) \/ Accepts(n)
       PROVE  ObservationInv'
  BY <1>10, PersonKeeps
<1>11. CASE UNCHANGED observationVars
  <2>1. UNCHANGED <<forge, issue, prs, step, seen, todo, acts, errors>>
    BY <1>11 DEF observationVars
  <2>2. acts' \in 0 .. MaxActs /\ errors' \in 0 .. MaxErrors
    BY <2>1 DEF ObservationInv, ObservationTypeOK
  <2> QED BY <2>1, <2>2, IssuesSame, PeopleKeep
<1> QED BY <1>1, <1>2, <1>3, <1>4, <1>5, <1>6, <1>7, <1>8, <1>9, <1>10, <1>11 DEF ObservationNext

LEMMA ObservationInvHolds == ObservationSpec => []ObservationInv
BY ObservationStarts, ObservationStep, PTL DEF ObservationSpec

\* Types: the board, the pull requests, the snapshot, the plan and the budgets
\* (observation.py).
THEOREM ObservationTypes == ObservationSpec => []ObservationTypeOK
<1>1. ObservationInv => ObservationTypeOK
  BY DEF ObservationInv
<1> QED BY <1>1, ObservationInvHolds, PTL

\* On GitHub the loop opens nothing for Home that is_duplicate finds in an issue it
\* has open, on Quackback it posts no title twice, however many cycles run and
\* whatever is asked for, accepted, closed or filed meanwhile (plan_actions,
\* _vet_create, _find_duplicate_post).
THEOREM ObservationOpensOnce == ObservationSpec => []OneOpenIssuePerTitle
<1>1. ObservationInv => OneOpenIssuePerTitle
  BY OnceIsOnce DEF ObservationInv
<1> QED BY <1>1, ObservationInvHolds, PTL

-----------------------------------------------------------------------------
(* Supervisor                                                              *)

\* The saved top three are those of the last cycle that kept its state, and the
\* saved fingerprint is of them.
RankInv ==
    /\ ranked = rankRow.top
    /\ rankRow.fingerprint = <<>> \/ rankRow.fingerprint[1] = rankRow.top

SupervisorInv == SupervisorTypeOK /\ RankInv

\* Counting what comes before gives every element of a finite strict total order
\* a place of its own, and fills the places.
LEMMA PlacesAreFilled ==
  ASSUME NEW R, IsFiniteSet(R), NEW B,
         \A n \in R : <<n, n>> \notin B,
         \A m, n \in R : m # n => <<m, n>> \in B \/ <<n, m>> \in B,
         \A l, m, n \in R : <<l, m>> \in B /\ <<m, n>> \in B => <<l, n>> \in B
  PROVE  /\ Cardinality(R) \in Nat
         /\ \A r \in 1 .. Cardinality(R) :
              \E n \in R : 1 + Cardinality({m \in R : <<m, n>> \in B}) = r
         /\ \A n \in R : /\ Cardinality({m \in R : <<m, n>> \in B}) \in Nat
                         /\ Cardinality({m \in R : <<m, n>> \in B}) < Cardinality(R)
         /\ \A m, n \in R : <<m, n>> \in B =>
              Cardinality({l \in R : <<l, m>> \in B}) < Cardinality({l \in R : <<l, n>> \in B})
<1> DEFINE before(n) == {m \in R : <<m, n>> \in B}
           place == [n \in R |-> 1 + Cardinality(before(n))]
           c == Cardinality(R)
<1>1. c \in Nat
  BY FS_CardinalityType
<1>2. ASSUME NEW n \in R
      PROVE  IsFiniteSet(before(n)) /\ Cardinality(before(n)) \in Nat /\ Cardinality(before(n)) < c
  <2>1. before(n) \in SUBSET R /\ before(n) # R
    OBVIOUS
  <2>2. /\ IsFiniteSet(before(n)) /\ Cardinality(before(n)) <= c
        /\ c = Cardinality(before(n)) => R = before(n)
    BY <2>1, FS_Subset
  <2>3. Cardinality(before(n)) \in Nat
    BY <2>2, FS_CardinalityType
  <2> HIDE DEF before, c
  <2> QED BY <1>1, <2>1, <2>2, <2>3
<1>3. ASSUME NEW m \in R, NEW n \in R, <<m, n>> \in B
      PROVE  Cardinality(before(m)) < Cardinality(before(n))
  <2>1. before(m) \in SUBSET before(n) /\ before(m) # before(n)
    BY <1>3
  <2>2. /\ Cardinality(before(m)) <= Cardinality(before(n))
        /\ Cardinality(before(n)) = Cardinality(before(m)) => before(n) = before(m)
    BY <1>2, <2>1, FS_Subset
  <2> HIDE DEF before
  <2> QED BY <1>2, <2>1, <2>2
<1> HIDE DEF before
<1>4. place \in Injection(R, 1 .. c)
  <2>1. place \in [R -> 1 .. c]
    <3>1. \A n \in R : 1 + Cardinality(before(n)) \in 1 .. c
      BY <1>1, <1>2
    <3> QED BY <3>1
  <2>2. ASSUME NEW m \in R, NEW n \in R, place[m] = place[n]
        PROVE  m = n
    <3>1. Cardinality(before(m)) = Cardinality(before(n))
      BY <1>2, <2>2
    <3>2. ~(Cardinality(before(m)) < Cardinality(before(n)))
          /\ ~(Cardinality(before(n)) < Cardinality(before(m)))
      BY <1>2, <3>1
    <3> QED BY <1>3, <3>2
  <2> QED BY <2>1, <2>2 DEF Injection, IsInjective
<1>5. IsFiniteSet(1 .. c) /\ Cardinality(1 .. c) = c
  BY <1>1, FS_Interval
<1>6. place \in Surjection(R, 1 .. c)
  BY <1>4, <1>5, FS_Injection
<1>7. \A r \in 1 .. c : \E n \in R : 1 + Cardinality(before(n)) = r
  BY <1>6 DEF Surjection
<1> QED BY <1>1, <1>2, <1>3, <1>7 DEF before

LEMMA ItemsAreFinite ==
  ASSUME SupervisorTypeOK, NEW R \in SUBSET DOMAIN items
  PROVE  /\ IsFiniteSet(R) /\ Cardinality(R) \in Nat
         /\ R \subseteq 1 .. MaxItem
<1>1. IsFiniteSet(1 .. MaxItem)
  BY FS_Interval, SupervisorAssumption
<1>2. R \in SUBSET (1 .. MaxItem)
  BY DEF SupervisorTypeOK
<1> QED BY <1>1, <1>2, FS_Subset, FS_CardinalityType

LEMMA ScoreIs ==
  ASSUME SupervisorTypeOK, NEW n \in DOMAIN items
  PROVE  Score(n) \in Int /\ Created(n) \in Int /\ n \in Int
<1>1. /\ items[n].created \in Int /\ items[n].updated \in Int /\ hour \in Int /\ n \in Int
  BY SupervisorAssumption DEF SupervisorTypeOK
<1>2. Dwell(n) \in Int /\ Created(n) \in Int
  BY <1>1 DEF Dwell, Created
<1>3. \A s : Blocked(s) \in Int
  <2> SUFFICES ASSUME NEW s PROVE Blocked(s) \in Int
    OBVIOUS
  <2> DEFINE held == {m \in DOMAIN items : items[m].stage \in Behind(s)}
  <2>1. Cardinality(held) \in Nat
    BY ItemsAreFinite
  <2> QED BY <2>1 DEF Blocked
<1>4. \A a, b \in Int : a * b \in Int
  OBVIOUS
<1> QED BY <1>1, <1>2, <1>3, <1>4 DEF Score

LEMMA FunctionsAreSequences ==
  ASSUME NEW S, NEW n \in Nat, NEW f \in [1 .. n -> S]
  PROVE  f \in Seq(S) /\ Len(f) = n
OBVIOUS

\* Every rankable item has a place of its own: the ranking lists the items.
LEMMA OrderIs ==
  ASSUME SupervisorTypeOK
  PROVE  /\ Order \in Seq(1 .. MaxItem)
         /\ Len(Order) = Cardinality(Rankable)
         /\ \A r \in 1 .. Cardinality(Rankable) : Order[r] \in Rankable /\ Place(Order[r]) = r
         /\ \A n \in Rankable : Place(n) \in 1 .. Cardinality(Rankable)
         /\ \A m, n \in Rankable : Above(m, n) => Place(m) < Place(n)
         /\ \A m, n \in Rankable : m # n => Above(m, n) \/ Above(n, m)
<1> DEFINE B == {p \in Rankable \X Rankable : Above(p[1], p[2])}
<1>1. /\ IsFiniteSet(Rankable) /\ Cardinality(Rankable) \in Nat
      /\ Rankable \subseteq 1 .. MaxItem /\ Rankable \subseteq DOMAIN items
  BY ItemsAreFinite DEF Rankable
<1>2. \A n \in Rankable : Score(n) \in Int /\ Created(n) \in Int /\ n \in Int
  BY <1>1, ScoreIs
<1>3. /\ \A n \in Rankable : ~Above(n, n)
      /\ \A m, n \in Rankable : m # n => Above(m, n) \/ Above(n, m)
      /\ \A l, m, n \in Rankable : Above(l, m) /\ Above(m, n) => Above(l, n)
  BY <1>2 DEF Above
<1>4. \A m, n \in Rankable : <<m, n>> \in B <=> Above(m, n)
  OBVIOUS
<1> HIDE DEF B
<1> DEFINE before(n) == {m \in Rankable : <<m, n>> \in B}
<1>5. /\ \A r \in 1 .. Cardinality(Rankable) : \E n \in Rankable : 1 + Cardinality(before(n)) = r
      /\ \A n \in Rankable : /\ Cardinality(before(n)) \in Nat
                               /\ Cardinality(before(n)) < Cardinality(Rankable)
      /\ \A m, n \in Rankable : <<m, n>> \in B => Cardinality(before(m)) < Cardinality(before(n))
  <2>1. /\ \A n \in Rankable : <<n, n>> \notin B
        /\ \A m, n \in Rankable : m # n => <<m, n>> \in B \/ <<n, m>> \in B
        /\ \A l, m, n \in Rankable : <<l, m>> \in B /\ <<m, n>> \in B => <<l, n>> \in B
    BY <1>3, <1>4
  <2>2. IsFiniteSet(Rankable)
    BY <1>1
  <2>3. \A r \in 1 .. Cardinality(Rankable) : \E n \in Rankable : 1 + Cardinality(before(n)) = r
    BY <2>1, <2>2, PlacesAreFilled, Zenon
  <2>4. \A n \in Rankable : /\ Cardinality(before(n)) \in Nat
                            /\ Cardinality(before(n)) < Cardinality(Rankable)
    BY <2>1, <2>2, PlacesAreFilled, Zenon
  <2>5. \A m, n \in Rankable : <<m, n>> \in B => Cardinality(before(m)) < Cardinality(before(n))
    BY <2>1, <2>2, PlacesAreFilled, Zenon
  <2> QED BY <2>3, <2>4, <2>5
<1>6. \A n \in Rankable : before(n) = {m \in Rankable : Above(m, n)}
  BY <1>4
<1> HIDE DEF before
<1>7. \A r \in 1 .. Cardinality(Rankable) : \E n \in Rankable : Place(n) = r
  BY <1>5, <1>6 DEF Place
<1>8. \A r \in 1 .. Cardinality(Rankable) : Order[r] \in Rankable /\ Place(Order[r]) = r
  BY <1>7 DEF Order
<1>9. Order \in [1 .. Cardinality(Rankable) -> 1 .. MaxItem]
  BY <1>1, <1>8 DEF Order
<1>10. Order \in Seq(1 .. MaxItem) /\ Len(Order) = Cardinality(Rankable)
  BY <1>1, <1>9, FunctionsAreSequences
<1>11. \A n \in Rankable : Place(n) = 1 + Cardinality(before(n))
  BY <1>6 DEF Place
<1>12. \A n \in Rankable : Place(n) \in 1 .. Cardinality(Rankable)
  BY <1>1, <1>5, <1>11
<1>13. ASSUME NEW m \in Rankable, NEW n \in Rankable, Above(m, n)
       PROVE  Place(m) < Place(n)
  <2>1. <<m, n>> \in B
    BY <1>4, <1>13
  <2>2. /\ Cardinality(before(m)) \in Nat /\ Cardinality(before(n)) \in Nat
        /\ Cardinality(before(m)) < Cardinality(before(n))
    BY <1>5, <2>1
  <2>3. Place(m) = 1 + Cardinality(before(m)) /\ Place(n) = 1 + Cardinality(before(n))
    BY <1>11
  <2> QED BY <2>2, <2>3
<1> QED BY <1>3, <1>8, <1>10, <1>12, <1>13

\* The ranking is one: it lists every item of a known stage, each once, and one
\* stands before another exactly when its score is higher or, at the same score,
\* it is older (rank_clogs).
THEOREM RankingIsSorted ==
  ASSUME SupervisorTypeOK
  PROVE  /\ \A n \in Rankable : \E r \in 1 .. Len(Order) : Order[r] = n
         /\ \A q, r \in 1 .. Len(Order) : Above(Order[q], Order[r]) <=> q < r
<1>1. ASSUME NEW n \in Rankable PROVE \E r \in 1 .. Len(Order) : Order[r] = n
  <2>1. Place(n) \in 1 .. Len(Order)
    BY OrderIs
  <2>2. Order[Place(n)] \in Rankable /\ Place(Order[Place(n)]) = Place(n)
    BY <2>1, OrderIs
  <2>3. ~Above(n, Order[Place(n)]) /\ ~Above(Order[Place(n)], n)
    BY <2>1, <2>2, OrderIs
  <2> QED BY <2>1, <2>2, <2>3, OrderIs
<1>2. ASSUME NEW q \in 1 .. Len(Order), NEW r \in 1 .. Len(Order)
      PROVE  Above(Order[q], Order[r]) <=> q < r
  <2>1. /\ Order[q] \in Rankable /\ Place(Order[q]) = q
        /\ Order[r] \in Rankable /\ Place(Order[r]) = r
    BY OrderIs
  <2>2. Above(Order[q], Order[r]) => q < r
    BY <2>1, OrderIs
  <2>3. Above(Order[r], Order[q]) => r < q
    BY <2>1, OrderIs
  <2>4. q < r => Order[q] # Order[r]
    BY <2>1
  <2>5. q < r => Above(Order[q], Order[r])
    BY <2>1, <2>3, <2>4, OrderIs
  <2> QED BY <2>2, <2>5
<1> QED BY <1>1, <1>2

LEMMA LeadingIs ==
  ASSUME NEW S, NEW s \in Seq(S), NEW n \in Nat
  PROVE  Leading(s, n) \in Seq(S)
<1> DEFINE k == IF Len(s) < n THEN Len(s) ELSE n
<1>1. k \in Int /\ \A i \in 1 .. k : s[i] \in S
  OBVIOUS
<1> QED BY <1>1, SubSeqProperties DEF Leading

LEMMA StageOfIs == ASSUME NEW k \in ItemKinds PROVE StageOf(k) \in RankStages
<1> DEFINE first == {i \in 1..6 : /\ MatchOrder[i] \in k.matches
                                 /\ \A j \in 1..(i - 1) : MatchOrder[j] \notin k.matches}
<1>1. \A i \in 1..6 : MatchOrder[i] \in RankStages
  BY DEF MatchOrder, RankStages
<1>2. first # {} => MatchOrder[CHOOSE i \in first : TRUE] \in RankStages
  BY <1>1
<1> QED BY <1>2 DEF StageOf, RankStages

LEMMA RankKeeps ==
  ASSUME SupervisorInv, Rank
  PROVE  /\ SupervisorInv'
         /\ ranked' # ranked => \/ rankFaults' > rankFaults
                                \/ /\ rankRow'.top = ranked'
                                   /\ ranked # <<>> => rankRow'.changed
<1> DEFINE top == Leading(Order, 3)
           fingerprint == Fingerprint(Order)
<1>1. PICK found \in {rankRow, NoState}, fails \in BOOLEAN :
        LET misses == (IF found = rankRow THEN 0 ELSE 1) + (IF fails THEN 1 ELSE 0)
            differs == fingerprint # found.fingerprint
        IN  /\ fails => differs
            /\ rankFaults + misses <= MaxRankFaults /\ rankFaults' = rankFaults + misses
            /\ rankRow' = IF differs /\ ~fails /\ fingerprint # rankRow.fingerprint
                          THEN [top |-> top,
                                changed |-> found.top # <<>> /\ found.top # top,
                                run |-> found.run + 1,
                                fingerprint |-> fingerprint]
                          ELSE rankRow
            /\ ranked' = IF fails THEN ranked ELSE top
            /\ UNCHANGED <<items, hour, shifts>>
  BY DEF Rank
<1>2. top \in Seq(1 .. MaxItem)
  BY OrderIs, LeadingIs DEF SupervisorInv
<1>3. fingerprint[1] = top /\ fingerprint # <<>>
  BY DEF Fingerprint
<1> HIDE DEF top, fingerprint
<1>4. /\ found.run \in Nat /\ NoState.fingerprint = <<>>
      /\ rankFaults \in Nat /\ MaxRankFaults \in Nat
  BY SupervisorAssumption DEF NoState, SupervisorInv, SupervisorTypeOK
<1>5. rankFaults' \in 0 .. MaxRankFaults /\ rankFaults' >= rankFaults
  BY <1>1, <1>4
<1>6. CASE fails
  <2>1. UNCHANGED <<items, hour, shifts, rankRow, ranked>>
    BY <1>1, <1>6
  <2> QED BY <1>5, <2>1 DEF SupervisorInv, SupervisorTypeOK, RankInv
<1>7. CASE ~fails /\ fingerprint # found.fingerprint /\ fingerprint # rankRow.fingerprint
  <2>1. /\ rankRow' = [top |-> top, changed |-> found.top # <<>> /\ found.top # top,
                       run |-> found.run + 1, fingerprint |-> fingerprint]
        /\ ranked' = top /\ UNCHANGED <<items, hour, shifts>>
    BY <1>1, <1>7
  <2>2. /\ rankRow'.top = top /\ rankRow'.fingerprint = fingerprint
        /\ rankRow'.run \in Nat
        /\ rankRow'.changed = (found.top # <<>> /\ found.top # top)
    BY <1>4, <2>1
  <2>3. SupervisorInv'
    BY <1>2, <1>3, <1>5, <2>1, <2>2 DEF SupervisorInv, SupervisorTypeOK, RankInv
  <2>4. found # rankRow => rankFaults' > rankFaults
    BY <1>1, <1>4
  <2> QED BY <2>1, <2>2, <2>3, <2>4 DEF SupervisorInv, RankInv
<1>8. CASE ~fails /\ (fingerprint = found.fingerprint \/ fingerprint = rankRow.fingerprint)
  <2>1. fingerprint = rankRow.fingerprint
    BY <1>3, <1>4, <1>8
  <2>2. top = rankRow.top
    BY <1>3, <2>1 DEF SupervisorInv, RankInv
  <2>3. UNCHANGED <<items, hour, shifts, rankRow, ranked>>
    BY <1>1, <1>8, <2>2 DEF SupervisorInv, RankInv
  <2> QED BY <1>5, <2>3 DEF SupervisorInv, SupervisorTypeOK, RankInv
<1> QED BY <1>6, <1>7, <1>8

\* An open item now.
ItemSet == [stage: RankStages, copilot: BOOLEAN, created: 0 .. hour, updated: 0 .. hour]

LEMMA SupervisorStarts == SupervisorInit => SupervisorInv
<1> SUFFICES ASSUME SupervisorInit PROVE SupervisorInv
  OBVIOUS
<1>1. DOMAIN items = {} /\ hour = 0 /\ ranked = <<>> /\ rankRow = NoState
      /\ shifts = 0 /\ rankFaults = 0
  BY DEF SupervisorInit
<1>2. <<>> \in Seq(1 .. MaxItem)
  OBVIOUS
<1> QED BY <1>1, <1>2, SupervisorAssumption DEF SupervisorInv, SupervisorTypeOK, RankInv, NoState

LEMMA SupervisorStep ==
  SupervisorInv /\ [SupervisorNext]_supervisorVars => SupervisorInv'
<1> SUFFICES ASSUME SupervisorInv, [SupervisorNext]_supervisorVars PROVE SupervisorInv'
  OBVIOUS
<1>1. CASE Rank
  BY <1>1, RankKeeps
<1>2. ASSUME Shift, DOMAIN items' \subseteq 1 .. MaxItem,
             \A m \in DOMAIN items' : items'[m] \in ItemSet
      PROVE  SupervisorInv'
  <2>1. UNCHANGED <<hour, rankRow, ranked, rankFaults>> /\ shifts' \in 0 .. MaxShifts
    BY <1>2, SupervisorAssumption DEF Shift, SupervisorInv, SupervisorTypeOK
  <2> QED BY <1>2, <2>1 DEF SupervisorInv, SupervisorTypeOK, RankInv, ItemSet
<1>3. /\ hour \in 0 .. hour /\ DOMAIN items \subseteq 1 .. MaxItem
      /\ \A m \in DOMAIN items : items[m] \in ItemSet
      /\ \A k \in ItemKinds : StageOf(k) \in RankStages /\ k.copilot \in BOOLEAN
  BY StageOfIs, SupervisorAssumption DEF SupervisorInv, SupervisorTypeOK, ItemSet
<1>4. CASE Appears
  <2>1. PICK n \in 1 .. MaxItem, k \in ItemKinds :
          /\ Shift
          /\ items' = [m \in DOMAIN items \cup {n} |->
                          IF m = n THEN [stage |-> StageOf(k), copilot |-> k.copilot,
                                         created |-> hour, updated |-> hour]
                          ELSE items[m]]
    BY <1>4 DEF Appears
  <2>2. [stage |-> StageOf(k), copilot |-> k.copilot, created |-> hour, updated |-> hour]
          \in ItemSet
    BY <1>3 DEF ItemSet
  <2> QED BY <1>2, <1>3, <2>1, <2>2
<1>5. CASE Turns
  <2>1. PICK n \in DOMAIN items, k \in ItemKinds :
          /\ Shift
          /\ items' = [items EXCEPT ![n].stage = StageOf(k), ![n].copilot = k.copilot,
                                    ![n].updated = hour]
    BY <1>5 DEF Turns
  <2>2. DOMAIN items' = DOMAIN items
    BY <2>1
  <2>3. \A m \in DOMAIN items : items'[m] \in ItemSet
    BY <1>3, <2>1 DEF ItemSet
  <2> QED BY <1>2, <1>3, <2>1, <2>2, <2>3
<1>6. CASE Leaves
  <2>1. Shift /\ DOMAIN items' \subseteq DOMAIN items
              /\ \A m \in DOMAIN items' : items'[m] = items[m]
    BY <1>6 DEF Leaves
  <2> QED BY <1>2, <1>3, <2>1
<1>7. CASE HourPasses
  <2>1. /\ hour' = hour + 1 /\ hour < MaxHours
        /\ UNCHANGED <<items, rankRow, ranked, shifts, rankFaults>>
    BY <1>7 DEF HourPasses
  <2>2. hour' \in 0 .. MaxHours /\ 0 .. hour \subseteq 0 .. hour'
    BY <2>1, SupervisorAssumption DEF SupervisorInv, SupervisorTypeOK
  <2>3. \A m \in DOMAIN items : items[m] \in ItemSet'
    BY <1>3, <2>2 DEF ItemSet
  <2> QED BY <2>1, <2>2, <2>3 DEF SupervisorInv, SupervisorTypeOK, RankInv, ItemSet
<1>8. CASE UNCHANGED supervisorVars
  BY <1>8 DEF supervisorVars, SupervisorInv, SupervisorTypeOK, RankInv
<1> QED BY <1>1, <1>4, <1>5, <1>6, <1>7, <1>8 DEF SupervisorNext

LEMMA SupervisorInvHolds == SupervisorSpec => []SupervisorInv
BY SupervisorStarts, SupervisorStep, PTL DEF SupervisorSpec

\* Types: the items, the saved state and the history (supervisor.py,
\* control_loop/__init__.py).
THEOREM SupervisorTypes == SupervisorSpec => []SupervisorTypeOK
<1>1. SupervisorInv => SupervisorTypeOK
  BY DEF SupervisorInv
<1> QED BY <1>1, SupervisorInvHolds, PTL

\* A cycle that finds another top three says so in the state it saves, though it
\* saves only what differs materially from the state it loaded; unless a load or
\* a save failed (build_state, material_fingerprint, save_control_state).
THEOREM SupervisorChangeIsTold == SupervisorSpec => RankChangeIsTold
<1> DEFINE Told == ranked' # ranked => \/ rankFaults' > rankFaults
                                       \/ /\ rankRow'.top = ranked'
                                          /\ ranked # <<>> => rankRow'.changed
<1>1. ASSUME SupervisorInv, SupervisorNext PROVE Told
  <2>1. CASE Rank
    BY <1>1, <2>1, RankKeeps
  <2>2. CASE Appears \/ Turns \/ Leaves \/ HourPasses
    BY <2>2 DEF Appears, Turns, Leaves, HourPasses, Shift
  <2> QED BY <1>1, <2>1, <2>2 DEF SupervisorNext
<1>2. SupervisorInv /\ [SupervisorNext]_supervisorVars => [Told]_supervisorVars
  BY <1>1
<1> QED BY <1>2, SupervisorInvHolds, PTL DEF SupervisorSpec, RankChangeIsTold

-----------------------------------------------------------------------------
(* Strategy audit                                                          *)

\* The stored fingerprint is that of no drift or of the drift last reported:
\* so a drift that is new is never dropped as already stored.
StoredInv == row.fingerprint \in {NoDrift, row.last}

\* While nothing has failed, the last issue is of the drift on record, and one
\* that is about to be opened is of another.
NewsInv ==
  faults = 0 =>
    /\ report = NoReport => lastIssue = row.last
    /\ report # NoReport => report # lastIssue /\ report = row.last

AuditInv == StrategyTypeOK /\ StoredInv /\ NewsInv /\ ReportedHasIssue

LEMMA NoReportIs == NoReport = NoDrift /\ NoDrift \in Fingerprints
BY DEF NoReport, NoDrift, Fingerprints, MetricNames

LEMMA DriftIs ==
  ASSUME NEW base, NEW m
  PROVE  Drift(base, m) \in Fingerprints
<1>1. CASE ~base.audited
  BY <1>1, NoReportIs DEF Drift
<1>2. CASE base.audited
  <2>1. Overdue(m) \in BOOLEAN
    BY DEF Overdue
  <2> QED BY <1>2, <2>1 DEF Drift, Fingerprints, MetricNames
<1> QED BY <1>1, <1>2

LEMMA RowIs ==
  AuditInv => row \in [audited: BOOLEAN, measured: Measures, last: Fingerprints,
                       fingerprint: Fingerprints]
BY DEF AuditInv, StrategyTypeOK

LEMMA NoRowIs ==
  /\ NoRow \in [audited: BOOLEAN, measured: Measures, last: Fingerprints,
                fingerprint: Fingerprints]
  /\ NoRow.last = NoReport
BY NoReportIs DEF NoRow, Measures

\* A cycle over whatever state it loaded.
LEMMA StoredIs ==
  ASSUME AuditInv, NEW base \in {row, NoRow}, NEW m \in Measures, NEW fp \in Fingerprints
  PROVE  /\ Stored(base, m, fp) \in [audited: BOOLEAN, measured: Measures,
                                     last: Fingerprints, fingerprint: Fingerprints]
         /\ Stored(base, m, fp).fingerprint \in {NoDrift, Stored(base, m, fp).last}
         /\ base = row => Stored(base, m, fp).last =
                            IF IsNewDrift(base, fp) THEN fp ELSE row.last
<1>1. base.last \in Fingerprints
  BY RowIs, NoRowIs
<1>2. CASE Stored(base, m, fp) = Audited(base, m, fp)
  <2>1. Audited(base, m, fp) \in [audited: BOOLEAN, measured: Measures,
                                  last: Fingerprints, fingerprint: Fingerprints]
    BY <1>1 DEF Audited
  <2>2. Audited(base, m, fp).fingerprint = fp
    BY DEF Audited
  <2>3. Audited(base, m, fp).last = IF IsNewDrift(base, fp) THEN fp ELSE base.last
    BY DEF Audited
  <2>4. fp \in {NoDrift, Audited(base, m, fp).last}
    BY <2>3 DEF IsNewDrift
  <2> QED BY <1>2, <2>1, <2>2, <2>3, <2>4
<1>3. CASE Stored(base, m, fp) = row /\ Stored(base, m, fp) # Audited(base, m, fp)
  <2>1. base = row => ~IsNewDrift(base, fp)
    <3> SUFFICES ASSUME base = row, IsNewDrift(base, fp) PROVE FALSE
      OBVIOUS
    <3>1. row.fingerprint = fp
      BY <1>3 DEF Stored, Material
    <3> QED BY <3>1 DEF IsNewDrift, AuditInv, StoredInv
  <2> QED BY <1>3, <2>1, RowIs DEF AuditInv, StoredInv
<1> QED BY <1>2, <1>3 DEF Stored

LEMMA AuditKeeps == AuditInv /\ Audit => AuditInv'
<1> SUFFICES ASSUME AuditInv, Audit PROVE AuditInv'
  OBVIOUS
<1>1. PICK read \in {paid, NoData}, load \in Loads :
        LET m == [paid |-> read, stuck |-> others + reports]
            fp == Drift(load.found, m)
        IN /\ \/ row' = Stored(load.found, m, fp) /\ faults' = load.faults
              \/ /\ load.faults < MaxFaults /\ Material(load.found, m, fp)
                 /\ row' = row /\ faults' = load.faults + 1
           /\ report' = IF IsNewDrift(load.found, fp) THEN fp ELSE NoReport
  BY DEF Audit
<1> DEFINE m == [paid |-> read, stuck |-> others + reports]
<1> DEFINE fp == Drift(load.found, m)
<1>2. UNCHANGED <<paid, others, past, reports, issued, lastIssue, changes>>
      /\ report = NoReport
  BY DEF Audit
<1>3. /\ load.found \in {row, NoRow} /\ load.faults \in 0 .. MaxFaults
      /\ load.found = row \/ load.faults = faults + 1
      /\ load.faults >= faults
  BY StrategyAssumption DEF Loads, AuditInv, StrategyTypeOK
<1>4. m \in Measures
  BY StrategyAssumption DEF AuditInv, StrategyTypeOK, Measures
<1>5. fp \in Fingerprints
  BY DriftIs
<1> HIDE DEF m, fp
<1>6. /\ row' \in [audited: BOOLEAN, measured: Measures, last: Fingerprints,
                   fingerprint: Fingerprints]
      /\ row'.fingerprint \in {NoDrift, row'.last}
  BY <1>1, <1>3, <1>4, <1>5, StoredIs, RowIs DEF AuditInv, StoredInv, m, fp
<1>7. report' \in Fingerprints /\ faults' \in 0 .. MaxFaults
  BY <1>1, <1>3, <1>5, NoReportIs, StrategyAssumption DEF m, fp
<1>8. StrategyTypeOK'
  BY <1>2, <1>6, <1>7 DEF AuditInv, StrategyTypeOK
<1>9. faults' = 0 => /\ faults = 0 /\ load.found = row
                     /\ row'.last = IF report' # NoReport THEN report' ELSE row.last
                     /\ report' # NoReport => report' # row.last
  <2> SUFFICES ASSUME faults' = 0
               PROVE  /\ faults = 0 /\ load.found = row
                      /\ row'.last = IF report' # NoReport THEN report' ELSE row.last
                      /\ report' # NoReport => report' # row.last
    OBVIOUS
  <2>1. faults \in Nat
    BY StrategyAssumption DEF AuditInv, StrategyTypeOK
  <2>2. row' = Stored(load.found, m, fp) /\ faults' = load.faults
    BY <1>1, <1>3, StrategyAssumption DEF m, fp
  <2>3. faults = 0 /\ load.found = row
    BY <1>3, <2>1, <2>2
  <2>4. row'.last = IF IsNewDrift(row, fp) THEN fp ELSE row.last
    BY <1>4, <1>5, <2>2, <2>3, StoredIs
  <2>5. report' = IF IsNewDrift(row, fp) THEN fp ELSE NoReport
    BY <1>1, <2>3 DEF m, fp
  <2>6. IsNewDrift(row, fp) => fp # NoReport /\ fp # row.last
    BY NoReportIs DEF IsNewDrift
  <2> QED BY <2>3, <2>4, <2>5, <2>6
<1>10. NewsInv' /\ ReportedHasIssue'
  <2>1. faults' > 0 \/ faults' = 0
    BY <1>7, StrategyAssumption
  <2>2. CASE faults' = 0
    BY <1>2, <1>9, <2>2 DEF AuditInv, NewsInv, ReportedHasIssue
  <2>3. CASE faults' > 0
    BY <2>3 DEF NewsInv, ReportedHasIssue
  <2> QED BY <2>1, <2>2, <2>3
<1> QED BY <1>6, <1>8, <1>10 DEF AuditInv, StoredInv

LEMMA AuditInvHolds == StrategySpec => []AuditInv
<1>1. StrategyInit => AuditInv
  <2> SUFFICES ASSUME StrategyInit PROVE AuditInv
    OBVIOUS
  <2>1. StrategyTypeOK
    <3>1. row \in [audited: BOOLEAN, measured: Measures, last: Fingerprints,
                   fingerprint: Fingerprints]
      BY NoRowIs DEF StrategyInit
    <3>2. report \in Fingerprints /\ lastIssue \in Fingerprints
      BY NoReportIs DEF StrategyInit
    <3>3. /\ paid \in 0 .. MaxPaid /\ others \in 0 .. MaxStuck /\ reports \in Nat
          /\ changes \in 0 .. MaxChanges /\ faults \in 0 .. MaxFaults
      BY StrategyAssumption DEF StrategyInit
    <3>4. past \in BOOLEAN /\ issued \subseteq Fingerprints \ {NoReport}
      BY DEF StrategyInit
    <3> QED BY <3>1, <3>2, <3>3, <3>4 DEF StrategyTypeOK
  <2> QED BY <2>1, NoReportIs
       DEF StrategyInit, AuditInv, StoredInv, NewsInv, ReportedHasIssue, NoRow
<1>2. AuditInv /\ [StrategyNext]_strategyVars => AuditInv'
  <2> SUFFICES ASSUME AuditInv, [StrategyNext]_strategyVars PROVE AuditInv'
    OBVIOUS
  <2> USE DEF AuditInv, StrategyTypeOK, StoredInv, NewsInv, ReportedHasIssue
  <2>1. CASE Audit
    BY <2>1, AuditKeeps
  <2>2. CASE OpenIssue
    <3>1. /\ issued' = issued \cup {report} /\ lastIssue' = report /\ report # NoReport
          /\ reports' = reports + 1 /\ report' = NoReport
          /\ UNCHANGED <<paid, others, past, row, changes, faults>>
      BY <2>2 DEF OpenIssue
    <3>2. issued' \subseteq Fingerprints \ {NoReport} /\ reports' \in Nat
      BY <3>1
    <3>3. report' \in Fingerprints /\ lastIssue' \in Fingerprints
      BY <3>1, NoReportIs
    <3>4. NewsInv'
      BY <3>1
    <3>5. ReportedHasIssue'
      BY <3>1
    <3> QED BY <3>1, <3>2, <3>3, <3>4, <3>5
  <2>3. CASE IssueFails
    BY <2>3, NoReportIs, StrategyAssumption DEF IssueFails
  <2>4. CASE Customers
    BY <2>4, StrategyAssumption DEF Customers, Changes
  <2>5. CASE DatePasses
    BY <2>5 DEF DatePasses
  <2>6. CASE OthersMove
    BY <2>6, StrategyAssumption DEF OthersMove, Changes
  <2>7. CASE ReportClosed
    BY <2>7, StrategyAssumption DEF ReportClosed, Changes
  <2>8. CASE UNCHANGED strategyVars
    BY <2>8 DEF strategyVars
  <2> QED BY <2>1, <2>2, <2>3, <2>4, <2>5, <2>6, <2>7, <2>8 DEF StrategyNext
<1> QED BY <1>1, <1>2, PTL DEF StrategySpec

\* Types: the row of the store, what is about to be reported and the counters
\* of the model (strategy_gather.py, strategy_audit.py).
THEOREM AuditTypeOK == StrategySpec => []StrategyTypeOK
<1>1. AuditInv => StrategyTypeOK
  BY DEF AuditInv
<1> QED BY <1>1, AuditInvHolds, PTL

\* A drift the store calls reported has its issue, unless something failed
\* between the save and the request (run_strategy_cycle).
THEOREM AuditReportedHasIssue == StrategySpec => []ReportedHasIssue
<1>1. AuditInv => ReportedHasIssue
  BY DEF AuditInv
<1> QED BY <1>1, AuditInvHolds, PTL

\* No drift is reported twice in a row, unless something failed (decide and
\* last_reported_drift_fingerprint).
THEOREM AuditNotReportedTwice == StrategySpec => NotReportedTwice
<1>1. AuditInv /\ [StrategyNext]_strategyVars
        => [OpenIssue => report # lastIssue \/ faults > 0]_strategyVars
  <2> SUFFICES ASSUME AuditInv, OpenIssue, faults = 0 PROVE report # lastIssue
    BY StrategyAssumption DEF AuditInv, StrategyTypeOK
  <2> QED BY DEF AuditInv, NewsInv, OpenIssue
<1> QED BY <1>1, AuditInvHolds, PTL DEF StrategySpec, NotReportedTwice

-----------------------------------------------------------------------------
(* The control loop                                                        *)

\* A task of the loop is a step of one module, and the others do not see it.
LEMMA LoopStep ==
  [Next]_loopVars => /\ [SupervisorNext]_supervisorVars /\ [HealNext]_healVars
                     /\ [ObservationNext]_observationVars /\ [StrategyNext]_strategyVars
                     /\ [LaneNext]_laneVars /\ [DecisionNext]_decisionVars
<1> SUFFICES ASSUME [Next]_loopVars
             PROVE  /\ SupervisorNext \/ UNCHANGED supervisorVars
                    /\ HealNext \/ UNCHANGED healVars
                    /\ ObservationNext \/ UNCHANGED observationVars
                    /\ StrategyNext \/ UNCHANGED strategyVars
                    /\ LaneNext \/ UNCHANGED laneVars
                    /\ DecisionNext \/ UNCHANGED decisionVars
  OBVIOUS
<1>1. CASE SupervisorTask
  BY <1>1 DEF SupervisorTask
<1>2. CASE HealTask
  BY <1>2 DEF HealTask
<1>3. CASE ObservationTask
  BY <1>3 DEF ObservationTask
<1>4. CASE StrategyTask
  BY <1>4 DEF StrategyTask
<1>5. CASE MergeLaneTask
  BY <1>5 DEF MergeLaneTask
<1>6. CASE DecisionTask
  BY <1>6 DEF DecisionTask
<1>7. CASE UNCHANGED loopVars
  BY <1>7 DEF loopVars
<1> QED BY <1>1, <1>2, <1>3, <1>4, <1>5, <1>6, <1>7 DEF Next

\* Every run of the loop is a run of each of its modules: a module that shares
\* the loop with the others, live or in shadow, never does what it would not do
\* alone, whatever order the scheduler takes them in (control_loop/__init__.py,
\* _run_task).
THEOREM LoopImplementsModules ==
  Spec => /\ SupervisorSpec /\ HealSpec /\ ObservationSpec
          /\ StrategySpec /\ LaneSpec /\ DecisionSpec
<1>1. Init => /\ SupervisorInit /\ HealInit /\ ObservationInit
              /\ StrategyInit /\ LaneInit /\ DecisionInit
  BY DEF Init
<1> QED BY <1>1, LoopStep, PTL
     DEF Spec, SupervisorSpec, HealSpec, ObservationSpec, StrategySpec, LaneSpec, DecisionSpec

\* Types: the state of every module of the loop.
THEOREM LoopTypes == Spec => []LoopTypeOK
<1>1. SupervisorTypeOK /\ SelfHealTypeOK /\ ObservationTypeOK /\ StrategyTypeOK
      /\ LaneTypeOK /\ DecisionTypeOK => LoopTypeOK
  BY DEF LoopTypeOK
<1> QED BY <1>1, LoopImplementsModules, SupervisorTypes, HealTypeOK, ObservationTypes,
           AuditTypeOK, MergeLaneTypeOK, DecisionLaneTypeOK, PTL

\* What each module guarantees, the loop guarantees: the stage labels (selfheal),
\* no second issue for one it has open (observation), reported drifts
\* (strategy_audit), told changes (supervisor), the author's pushes, attempts,
\* counts and notices, up to failed loads and lost cycles (merge_lane), the
\* threads (decision lane).
THEOREM LoopSafe ==
  Spec => []( /\ StageLabelKept /\ OneOpenIssuePerTitle /\ ReportedHasIssue
              /\ AttemptsBounded /\ CountIsExact /\ NoticesSpaced /\ NoPushLost
              /\ CapHolds /\ AnswersInOrder /\ FinalFollowsProposal /\ NeverTwiceUnlessFailed )
          /\ RankChangeIsTold /\ NotReportedTwice
BY LoopImplementsModules, HealStageLabelKept, ObservationOpensOnce,
   SupervisorChangeIsTold, AuditReportedHasIssue, AuditNotReportedTwice, LaneAttempts,
   LaneCountIsExact, LaneNotices, LaneKeepsPushes,
   LaneCap, LaneAnswersInOrder, LaneFinalFollowsProposal, LaneNeverTwice, PTL
=============================================================================
