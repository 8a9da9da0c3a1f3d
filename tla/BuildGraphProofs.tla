-------------------------- MODULE BuildGraphProofs ---------------------------
(***************************************************************************)
(* What the build graph guarantees on the shared clone for any issues,     *)
(* ladder, configurations and number of faults: its types, that a branch   *)
(* that is pushed carries the work of its own issue, that what auto-merge  *)
(* is enabled on is what the gate has judged, that the ladder ends in one  *)
(* effect, and that a green verification is one of the PR's head.          *)
(***************************************************************************)
EXTENDS BuildGraph, FiniteSetTheorems, TLAPS

Implementing == {"prepared", "ran", "added", "staged", "committed", "pushed"}

\* The node that runs belongs to the stage it was started in, and a call of
\* invoke that goes on has not ended.  An implementation runs where no diff
\* stands for it.
JobInv ==
    /\ job = NoJob <=> job.issue = NoIssue
    /\ job = NoJob <=> job.at = "idle"
    /\ \A i \in Issues : job.issue = i =>
         /\ job.at \in {"spec_added", "spec_committed"} => stage[i] = "specced"
         /\ job.at \in Implementing => stage[i] = "spec_ready" /\ ~Remembers(i)
         /\ job.at \in {"armed", "parked"} => stage[i] = "reviewed"
         /\ job.at = "next" => stage[i] \notin {"awaiting_merge", "escalated", "failed"}

OwnOrLeaked(c, i) == c.of = i \/ c \in leaked

\* The jobs that leave the clone alone: none, one between two nodes, and one
\* whose gate has acted and not written.
Resting == {"idle", "next", "armed", "parked"}

\* Where the changes are while a node runs.  Between two nodes only what a job
\* that was cut short left is staged; what a node adds to the commit its
\* branch started from is its own issue's, or such a leftover, or litter that
\* is taken out again before the commit.
PlaceInv ==
    /\ job.at \in Resting \union {"prepared", "ran"} => index \subseteq leaked
    /\ job.at \in {"spec_added", "prepared", "ran", "added", "staged"} => head = job.from
    /\ \A i \in Issues : job.issue = i =>
         /\ job.at = "spec_added" => \A c \in index : OwnOrLeaked(c, i)
         /\ job.at = "spec_committed" =>
              index = {} /\ \A c \in head \ job.from : OwnOrLeaked(c, i)
         /\ job.at \in {"prepared", "ran"} => \A c \in tree : IsLitter(c) \/ c.of = i
         /\ job.at = "added" =>
              tree = {} /\ \A c \in index : IsLitter(c) \/ OwnOrLeaked(c, i)
         /\ job.at = "staged" =>
              /\ \A c \in tree : IsLitter(c)
              /\ \A c \in index : ~IsLitter(c) /\ OwnOrLeaked(c, i)
         /\ job.at \in {"committed", "pushed"} =>
              /\ index = {}
              /\ \A c \in local[i] \ job.from : ~IsLitter(c) /\ OwnOrLeaked(c, i)
         /\ job.at = "pushed" =>
              /\ base[<<i, "impl">>] = job.from
              /\ remote[<<i, "impl">>] \ {Pushed(i)} \subseteq local[i]

\* The issue is implemented, or a diff that is remembered stands for it.
Stands(i) == stage[i] = "implemented" \/ (stage[i] = "spec_ready" /\ Remembers(i))

\* The diff that stands for an implementation is the one of the PR.
JudgedInv ==
    \A i \in Issues :
        /\ stage[i] \in {"queued", "triaged", "specced"} => memory[i].diff = {}
        /\ i \notin forgot
           /\ (Stands(i) \/ stage[i] \in {"reviewed", "awaiting_merge"}
               \/ i \in armed \ astray) =>
             remote[<<i, "impl">>] \ (base[<<i, "impl">>] \union {Pushed(i)})
                 \subseteq memory[i].diff

\* Auto-merge and needs-human are the ends of the ladder.  Until the row says
\* so the issue is still reviewed, and what it is remembered by is what the
\* gate has judged: a second pass of the gate comes to the same verdict.
EndInv ==
    \A i \in Issues :
        /\ i \in armed /\ i \in parked => i \in astray
        /\ i \in armed /\ i \notin astray =>
             \/ stage[i] \in {"awaiting_merge", "failed"}
             \/ stage[i] = "reviewed" /\ Decide(i) = "merge"
        /\ i \in parked =>
             \/ stage[i] \in {"escalated", "failed"}
             \/ /\ stage[i] = "reviewed" /\ Decide(i) # "merge"
                /\ setup.driver = "invoke" => At(i, "parked")
        /\ At(i, "armed") => Decide(i) = "merge"
        /\ At(i, "parked") => Decide(i) # "merge"

\* What bars an issue is known to the gate when its turn comes.
BarInv ==
    \A i \in Issues :
        /\ wall[i] = "excerpt"
           /\ stage[i] \in {"specced", "spec_ready", "implemented", "reviewed",
                            "awaiting_merge"} =>
             memory[i].wall \/ i \in forgot \/ setup.graph = "langgraph"
        /\ setup.driver = "invoke" /\ stage[i] \notin {"queued", "escalated", "failed"} =>
             surface[i] = "product"
        /\ i \in unsure => i \in again \/ stage[i] = "escalated"

\* Once an issue is implemented its code is in a commit, and nowhere else.
CodeInv ==
    \A i \in Issues :
        Stands(i) \/ (job.issue = i /\ job.at \in {"committed", "pushed"}) =>
          \A c \in index \union tree : c.of = i => c.kind # "code"

BuildInv ==
    /\ BuildTypeOK /\ JobInv /\ PlaceInv /\ PushedIsOwn /\ JudgedInv
    /\ EndInv /\ BarInv /\ BarredNeverArmed /\ CodeInv

-----------------------------------------------------------------------------
(* Changes, jobs and recipes *)

LEMMA Bounds ==
    /\ LadderLength \in Nat \ {0} /\ MaxEscalations \in Nat
    /\ MaxRuns \in Nat /\ MaxFaults \in Nat
    /\ IsFiniteSet(Issues) /\ NoIssue \notin Issues
    /\ \A s \in Setups : /\ s.graph \in {"legacy", "langgraph"}
                         /\ s.executor \in {"goose", "langchain"}
                         /\ s.driver \in {"poller", "invoke"}
BY BuildAssumption

LEMMA ChangesAre ==
    ASSUME NEW i \in Issues
    PROVE  /\ SpecFile(i) \in Change /\ Stray(i) \in Change /\ Output(i) \in Change
           /\ Brief(i) \in Change /\ Pushed(i) \in Change
           /\ \A n \in 0..MaxRuns : Code(i, n) \in Change
           /\ SpecFile(i).of = i /\ Stray(i).of = i /\ Output(i).of = i
           /\ Brief(i).of = i /\ Pushed(i).of = i
           /\ IsLitter(Output(i)) /\ IsLitter(Brief(i)) /\ ~IsLitter(Pushed(i))
           /\ \A n : Code(i, n).of = i /\ Code(i, n).kind = "code"
           /\ SpecFile(i).kind # "code" /\ Stray(i).kind # "code"
BY Bounds DEF SpecFile, Stray, Output, Brief, Pushed, Code, Change, Kinds, IsLitter

LEMMA BranchesAre ==
    ASSUME NEW i \in Issues
    PROVE  /\ <<i, "spec">> \in Branches /\ <<i, "impl">> \in Branches
           /\ <<i, "spec">> # <<i, "impl">>
BY DEF Branches

\* A recipe leaves the tree it was given, with its deliverable at most.
LEMMA RecipeLeaves ==
    ASSUME NEW t, NEW d, NEW b, NEW result \in RunRecipe(t, d, b)
    PROVE  /\ result.ok \in BOOLEAN
           /\ result.tree = t \/ result.tree = t \union {d}
<1>1. result \in GooseRun(t, d) \/ result \in LangchainRun(t, d, b)
    BY DEF RunRecipe
<1>2. \/ result = [tree |-> t, ok |-> FALSE] \/ result = [tree |-> t, ok |-> TRUE]
      \/ result = [tree |-> t \union {d}, ok |-> TRUE]
    BY <1>1, Zenon DEF GooseRun, LangchainRun, Failed
<1>3. CASE result = [tree |-> t, ok |-> FALSE]
    BY <1>3
<1>4. CASE result = [tree |-> t, ok |-> TRUE]
    BY <1>4
<1>5. CASE result = [tree |-> t \union {d}, ok |-> TRUE]
    BY <1>5
<1> QED BY <1>2, <1>3, <1>4, <1>5

\* What the two recipes leave in the tree is the issue's own.
LEMMA SpecTree ==
    ASSUME NEW i \in Issues, Spec(i)
    PROVE  \A c \in tree' : c \in tree \/ c \in {SpecFile(i), Stray(i)}
<1>1. PICK written \in SUBSET {SpecFile(i), Stray(i)} :
      \E result \in RunRecipe(tree \union (written \ (head \union index)), SpecFile(i), FALSE) :
          tree' = result.tree
    BY DEF Spec
<1> DEFINE t == tree \union (written \ (head \union index))
<1>2. tree' = t \/ tree' = t \union {SpecFile(i)}
    BY <1>1, RecipeLeaves
<1> QED BY <1>2

LEMMA RunTree ==
    ASSUME NEW i \in Issues, Run(i)
    PROVE  \A c \in tree' : c \in tree \/ c = Code(i, runs[i]) \/ c = Output(i)
<1>1. PICK written \in SUBSET Writable(i) :
      \E result \in RunRecipe(tree \union (written \ index), Output(i), TRUE) :
          tree' = result.tree
    BY DEF Run
<1> DEFINE t == tree \union (written \ index)
<1>2. tree' = t \/ tree' = t \union {Output(i)}
    BY <1>1, RecipeLeaves
<1>3. \A c \in Writable(i) : c = Code(i, runs[i]) \/ c = Output(i)
    BY DEF Writable
<1> QED BY <1>2, <1>3

\* As long as a run is left, no issue has had them all.
LEMMA RunsRoom ==
    ASSUME BuildTypeOK, Cardinality(RecipesRun) < MaxRuns, NEW i \in Issues
    PROVE  runs[i] < MaxRuns
<1>0. runs[i] \in 0..MaxRuns
    BY DEF BuildTypeOK
<1>1. SUFFICES ASSUME runs[i] = MaxRuns PROVE FALSE
    BY <1>0, Bounds
<1> DEFINE mine == {i} \X (1..MaxRuns)
<1>2. IsFiniteSet(1..MaxRuns) /\ Cardinality(1..MaxRuns) = MaxRuns
    BY Bounds, FS_Interval
<1>3. IsFiniteSet({i}) /\ Cardinality({i}) = 1
    BY FS_Singleton
<1>4. Cardinality(mine) = MaxRuns
    <2>1. Cardinality(mine) = Cardinality({i}) * Cardinality(1..MaxRuns)
        BY <1>2, <1>3, FS_Product
    <2> HIDE DEF mine
    <2> QED BY <2>1, <1>2, <1>3, Bounds
<1>5. IsFiniteSet(RecipesRun)
    <2>1. IsFiniteSet(Issues \X (1..MaxRuns))
        BY <1>2, Bounds, FS_Product
    <2> QED BY <2>1, FS_Subset DEF RecipesRun
<1>6. mine \subseteq RecipesRun
    BY <1>1, Bounds DEF RecipesRun
<1>7. Cardinality(mine) <= Cardinality(RecipesRun) /\ Cardinality(RecipesRun) \in Nat
    BY <1>5, <1>6, FS_Subset, FS_CardinalityType
<1> HIDE DEF mine
<1> QED BY <1>4, <1>7, Bounds

\* Every step but the drivers' own is taken for an issue whose node runs, or
\* may start because no other node does.
LEMMA JobIs ==
    ASSUME BuildTypeOK, JobInv
    PROVE  /\ job # NoJob => job.issue \in Issues
           /\ \A i \in Issues : \A s : MayStart(i, s) =>
                stage[i] = s /\ (job = NoJob \/ (job.issue = i /\ job.at = "next"))
           /\ NoJob.at = "idle" /\ NoJob.issue = NoIssue /\ NoJob.from = {}
           /\ NoJob \in [issue: Issues \union {NoIssue}, at: Points, from: SUBSET Change]
BY DEF BuildTypeOK, JobInv, MayStart, NoJob, Points

LEMMA MemoryIs ==
    ASSUME BuildTypeOK, NEW i \in Issues, NEW b \in BOOLEAN, NEW c \in BOOLEAN,
           NEW d \in SUBSET Change
    PROVE  /\ [memory EXCEPT ![i].wall = b] \in [Issues -> Memory]
           /\ [memory EXCEPT ![i].tests = b, ![i].safe = c] \in [Issues -> Memory]
           /\ [memory EXCEPT ![i].diff = d] \in [Issues -> Memory]
           /\ NoMemory \in Memory
<1>1. /\ [memory EXCEPT ![i].wall = b] \in [Issues -> Memory]
      /\ [memory EXCEPT ![i].diff = d] \in [Issues -> Memory]
      /\ NoMemory \in Memory
    BY DEF BuildTypeOK, Memory, NoMemory
<1> DEFINE reviewed == [memory[i] EXCEPT !.tests = b, !.safe = c]
<1>2. reviewed \in Memory
    <2>1. memory[i] \in Memory
        BY DEF BuildTypeOK
    <2> QED BY <2>1 DEF Memory
<1>3. [memory EXCEPT ![i].tests = b, ![i].safe = c] = [memory EXCEPT ![i] = reviewed]
    BY DEF BuildTypeOK
<1> HIDE DEF reviewed
<1> QED BY <1>1, <1>2, <1>3 DEF BuildTypeOK

LEMMA DoneIs ==
    ASSUME BuildTypeOK, NEW i \in Issues, NEW s \in Stages, Done(i, s)
    PROVE  /\ stage' = [stage EXCEPT ![i] = s] /\ stage' \in [Issues -> Stages]
           /\ \/ job' = NoJob
              \/ /\ job'.issue = i /\ job'.at = "next"
                 /\ s \notin {"awaiting_merge", "escalated"}
                 /\ setup.driver = "invoke"
           /\ job' \in [issue: Issues \union {NoIssue}, at: Points, from: SUBSET Change]
<1>1. stage' = [stage EXCEPT ![i] = s] /\ stage' \in [Issues -> Stages]
    BY DEF Done, BuildTypeOK
<1> DEFINE on == [NoJob EXCEPT !.issue = i, !.at = "next"]
<1>2. on.issue = i /\ on.at = "next"
    BY DEF NoJob
<1>3. \/ job' = NoJob
      \/ job' = on /\ s \notin {"awaiting_merge", "escalated"} /\ setup.driver = "invoke"
    BY DEF Done, GoOn
<1>4. /\ on \in [issue: Issues \union {NoIssue}, at: Points, from: SUBSET Change]
      /\ NoJob \in [issue: Issues \union {NoIssue}, at: Points, from: SUBSET Change]
    BY DEF NoJob, Points
<1> HIDE DEF on
<1> QED BY <1>1, <1>2, <1>3, <1>4

LEMMA GoOnIs ==
    ASSUME BuildTypeOK, NEW i \in Issues, NEW point \in Points, GoOn(i, point)
    PROVE  /\ job'.issue = i /\ job'.at = point
           /\ job' \in [issue: Issues \union {NoIssue}, at: Points, from: SUBSET Change]
BY DEF GoOn, NoJob

LEMMA RaiseIs ==
    ASSUME BuildTypeOK, NEW i \in Issues, Raise(i)
    PROVE  /\ job' = NoJob /\ stage' \in [Issues -> Stages]
           /\ stage' = stage \/ stage' = [stage EXCEPT ![i] = "failed"]
           /\ job' \in [issue: Issues \union {NoIssue}, at: Points, from: SUBSET Change]
BY DEF Raise, NoJob, BuildTypeOK, Points, Stages

-----------------------------------------------------------------------------
(* Types *)

LEMMA TypeInit == Init => BuildTypeOK
<1> SUFFICES ASSUME Init PROVE BuildTypeOK
    OBVIOUS
<1>1. job \in [issue: Issues \union {NoIssue}, at: Points, from: SUBSET Change]
    BY DEF Init, NoJob, Points
<1>2. memory \in [Issues -> Memory] /\ wall \in [Issues -> Walls]
    BY DEF Init, NoMemory, Memory, Walls
<1>3. tier \in [Issues -> 0..(LadderLength - 1)] /\ \A i \in Issues : tier[i] <= MaxEscalations
    BY Bounds DEF Init
<1> QED BY <1>1, <1>2, <1>3, Bounds DEF Init, BuildTypeOK, Stages

JobType == [issue: Issues \union {NoIssue}, at: Points, from: SUBSET Change]
LEMMA TypeStep ==
    ASSUME BuildTypeOK, JobInv, [Next]_buildVars
    PROVE  BuildTypeOK'
<1> USE DEF config, clone, github, progress, learned, past
<1>1. ASSUME NEW i \in Issues, Triage(i) PROVE BuildTypeOK'
    <2>1. Done(i, "triaged")
        BY <1>1 DEF Triage
    <2>2. surface' \in [Issues -> Surfaces \union {"none"}] /\ unsure' \subseteq Issues
        BY <1>1 DEF Triage, Persist, BuildTypeOK
    <2> QED BY <1>1, <2>1, <2>2, DoneIs DEF Triage, BuildTypeOK, Stages
<1>2. ASSUME NEW i \in Issues, ParkAtTriage(i) PROVE BuildTypeOK'
    <2>1. Done(i, "escalated")
        BY <1>2 DEF ParkAtTriage
    <2>2. surface' \in [Issues -> Surfaces \union {"none"}] /\ unsure' \subseteq Issues
        BY <1>2 DEF ParkAtTriage, Persist, BuildTypeOK
    <2> QED BY <1>2, <2>1, <2>2, DoneIs DEF ParkAtTriage, BuildTypeOK, Stages
<1>3. ASSUME NEW i \in Issues, Spec(i) PROVE BuildTypeOK'
    <2>1. tree' \subseteq Change
        <3>1. \A c \in tree' : c \in tree \/ c \in {SpecFile(i), Stray(i)}
            BY <1>3, SpecTree
        <3>2. SpecFile(i) \in Change /\ Stray(i) \in Change /\ tree \subseteq Change
            BY ChangesAre DEF BuildTypeOK
        <3> QED BY <3>1, <3>2
    <2>2. wall' \in [Issues -> Walls] /\ memory' \in [Issues -> Memory]
        <3>1. \/ UNCHANGED <<memory, wall>>
              \/ \E w \in Walls : /\ wall' = [wall EXCEPT ![i] = w]
                                /\ memory' = [memory EXCEPT ![i].wall = Kept(w)]
            BY <1>3 DEF Spec
        <3>2. CASE UNCHANGED <<memory, wall>>
            BY <3>2 DEF BuildTypeOK
        <3>3. ASSUME NEW w \in Walls, wall' = [wall EXCEPT ![i] = w],
                     memory' = [memory EXCEPT ![i].wall = Kept(w)]
              PROVE  wall' \in [Issues -> Walls] /\ memory' \in [Issues -> Memory]
            <4>1. Kept(w) \in BOOLEAN
                BY DEF Kept
            <4>2. memory' \in [Issues -> Memory]
                BY <3>3, <4>1, MemoryIs
            <4> QED BY <3>3, <4>2 DEF BuildTypeOK
        <3> QED BY <3>1, <3>2, <3>3
    <2>3. Done(i, "specced") \/ Raise(i)
        BY <1>3 DEF Spec
    <2>4. stage' \in [Issues -> Stages] /\ job' \in JobType
        BY <2>3, DoneIs, RaiseIs DEF Stages, JobType
    <2> QED BY <1>3, <2>1, <2>2, <2>4 DEF Spec, BuildTypeOK, JobType
<1>4. ASSUME NEW i \in Issues, AddSpec(i) PROVE BuildTypeOK'
    <2>1. head' \subseteq Change
        BY <1>4 DEF AddSpec, StartBranch, BuildTypeOK
    <2>2. index' \subseteq Change /\ tree' \subseteq Change
        BY <1>4 DEF AddSpec, BuildTypeOK
    <2>3. (StartAt(i, "spec_added") /\ UNCHANGED stage) \/ Raise(i)
        BY <1>4 DEF AddSpec
    <2>4. stage' \in [Issues -> Stages] /\ job' \in JobType
        BY <2>1, <2>3, RaiseIs DEF StartAt, JobType, BuildTypeOK, Points
    <2> QED BY <1>4, <2>1, <2>2, <2>4 DEF AddSpec, BuildTypeOK, JobType
<1>5. ASSUME NEW i \in Issues, CommitSpec(i) PROVE BuildTypeOK'
    BY <1>5 DEF CommitSpec, GoTo, BuildTypeOK, Points
<1>6. ASSUME NEW i \in Issues, OpenSpecPr(i) PROVE BuildTypeOK'
    BY <1>6, DoneIs, BranchesAre DEF OpenSpecPr, BuildTypeOK, Stages
<1>7. ASSUME NEW i \in Issues, Prepare(i) PROVE BuildTypeOK'
    <2>1. head' \subseteq Change
        BY <1>7 DEF Prepare, StartBranch, BuildTypeOK
    <2>2. local' \in [Issues -> SUBSET Change] /\ tree' \subseteq Change
        BY <1>7, <2>1, ChangesAre DEF Prepare, Cleaned, Litter, BuildTypeOK
    <2>3. runs' \in [Issues -> 0..MaxRuns]
        <3>1. runs[i] < MaxRuns
            BY <1>7, RunsRoom DEF Prepare
        <3> QED BY <1>7, <3>1, Bounds DEF Prepare, BuildTypeOK
    <2>4. job' \in JobType
        BY <1>7, <2>1 DEF Prepare, StartAt, JobType, Points
    <2> QED BY <1>7, <2>1, <2>2, <2>3, <2>4 DEF Prepare, BuildTypeOK, JobType
<1>8. ASSUME NEW i \in Issues, Run(i) PROVE BuildTypeOK'
    <2>1. Code(i, runs[i]) \in Change /\ Output(i) \in Change
        BY ChangesAre DEF BuildTypeOK
    <2>2. tree' \subseteq Change
        BY <1>8, <2>1, RunTree DEF BuildTypeOK
    <2>3. (GoTo("ran") /\ UNCHANGED stage) \/ Raise(i)
        BY <1>8 DEF Run
    <2>4. stage' \in [Issues -> Stages] /\ job' \in JobType
        BY <2>3, RaiseIs DEF GoTo, JobType, BuildTypeOK, Points
    <2> QED BY <1>8, <2>2, <2>4 DEF Run, BuildTypeOK, JobType
<1>9. ASSUME NEW i \in Issues, AddAll(i) PROVE BuildTypeOK'
    BY <1>9 DEF AddAll, GoTo, BuildTypeOK, Points
<1>10. ASSUME NEW i \in Issues, ResetLitter(i) PROVE BuildTypeOK'
    <2>1. index' \subseteq Change /\ tree' \subseteq Change
        BY <1>10 DEF ResetLitter, Unstaged, Litter, BuildTypeOK
    <2>2. (GoTo("staged") /\ UNCHANGED stage) \/ Raise(i)
        BY <1>10 DEF ResetLitter
    <2>3. stage' \in [Issues -> Stages] /\ job' \in JobType
        BY <2>2, RaiseIs DEF GoTo, JobType, BuildTypeOK, Points
    <2> QED BY <1>10, <2>1, <2>3 DEF ResetLitter, BuildTypeOK, JobType
<1>11. ASSUME NEW i \in Issues, CommitImpl(i) PROVE BuildTypeOK'
    BY <1>11 DEF CommitImpl, GoTo, BuildTypeOK, Points
<1>12. ASSUME NEW i \in Issues, Push(i) PROVE BuildTypeOK'
    BY <1>12, BranchesAre DEF Push, GoTo, BuildTypeOK, Points
<1>13. ASSUME NEW i \in Issues, Implemented(i) PROVE BuildTypeOK'
    <2>1. Done(i, "implemented") \/ Raise(i)
        BY <1>13 DEF Implemented
    <2>2. stage' \in [Issues -> Stages] /\ job' \in JobType
        BY <2>1, DoneIs, RaiseIs DEF Stages, JobType
    <2>3. memory' \in [Issues -> Memory]
        BY <1>13, MemoryIs DEF Implemented, BuildTypeOK
    <2>4. faults' \in 0..MaxFaults
        BY <1>13, Bounds DEF Implemented, BuildTypeOK
    <2> QED BY <1>13, <2>2, <2>3, <2>4 DEF Implemented, BuildTypeOK, JobType
<1>14. ASSUME NEW i \in Issues, ImplementAgain(i) PROVE BuildTypeOK'
    BY <1>14, DoneIs DEF ImplementAgain, BuildTypeOK, Stages
<1>15. ASSUME NEW i \in Issues, Review(i) PROVE BuildTypeOK'
    <2>1. PICK reached, refused, stuck, safe \in BOOLEAN : \E green \in Verdicts(stuck) :
            /\ refused => reached /\ MayRefuse(PrHead(i))
            /\ stuck => (~reached \/ refused) /\ MayRefuse(local[i])
            /\ head' = IF stuck THEN head ELSE CheckedOut(i, reached, refused)
            /\ local' = IF reached /\ ~refused THEN [local EXCEPT ![i] = PrHead(i)] ELSE local
            /\ tested' = [tested EXCEPT ![i] =
                             IF stuck THEN {} ELSE head' \union index \union tree]
            /\ memory' = [memory EXCEPT ![i].tests = green, ![i].safe = safe]
            /\ blind' = IF reached /\ ~refused THEN blind \ {i} ELSE blind \union {i}
        BY <1>15 DEF Review
    <2>2. PrHead(i) \subseteq Change /\ local[i] \subseteq Change
        BY BranchesAre DEF PrHead, BuildTypeOK
    <2>3. head' \subseteq Change /\ local' \in [Issues -> SUBSET Change]
        BY <2>1, <2>2 DEF CheckedOut, BuildTypeOK
    <2>4. tested' \in [Issues -> SUBSET Change] /\ blind' \subseteq Issues
        BY <2>1, <2>3 DEF BuildTypeOK
    <2>5. memory' \in [Issues -> Memory]
        <3>1. PICK green \in BOOLEAN :
                memory' = [memory EXCEPT ![i].tests = green, ![i].safe = safe]
            BY <2>1 DEF Verdicts
        <3> QED BY <3>1, MemoryIs
    <2>6. Done(i, "reviewed")
        BY <1>15 DEF Review
    <2> QED BY <1>15, <2>3, <2>4, <2>5, <2>6, DoneIs DEF Review, BuildTypeOK, Stages
<1>16. ASSUME NEW i \in Issues, Gate(i) PROVE BuildTypeOK'
    <2>1. /\ \/ Done(i, "spec_ready")
             \/ (GoOn(i, "armed") \/ GoOn(i, "parked")) /\ UNCHANGED stage
          /\ armed' \subseteq Issues /\ parked' \subseteq Issues
          /\ tier' = tier \/ (CanRetry(i) /\ tier' = [tier EXCEPT ![i] = @ + 1])
        BY <1>16 DEF Gate, Retries, EffectOfRetry, BuildTypeOK
    <2>2. /\ tier' \in [Issues -> 0..(LadderLength - 1)]
          /\ \A j \in Issues : tier'[j] <= MaxEscalations
        <3>1. CASE tier' = tier
            BY <3>1 DEF BuildTypeOK
        <3>2. CASE CanRetry(i) /\ tier' = [tier EXCEPT ![i] = @ + 1]
            <4>1. tier[i] \in Nat /\ tier[i] + 1 < LadderLength /\ tier[i] < MaxEscalations
                BY <3>2, Bounds DEF CanRetry, BuildTypeOK
            <4>2. tier[i] + 1 \in 0..(LadderLength - 1) /\ tier[i] + 1 <= MaxEscalations
                BY <4>1, Bounds
            <4> QED BY <3>2, <4>2 DEF BuildTypeOK
        <3> QED BY <2>1, <3>1, <3>2
    <2>3. stage' \in [Issues -> Stages] /\ job' \in JobType
        BY <2>1, DoneIs, GoOnIs DEF Stages, Points, JobType, BuildTypeOK
    <2>4. tested' \in [Issues -> SUBSET Change] /\ blind' \subseteq Issues
        BY <1>16 DEF Gate, BuildTypeOK
    <2> QED BY <1>16, <2>1, <2>2, <2>3, <2>4 DEF Gate, BuildTypeOK, JobType
<1>22. ASSUME NEW i \in Issues, GateWritten(i) PROVE BuildTypeOK'
    <2>1. Done(i, "awaiting_merge") \/ Done(i, "escalated")
        BY <1>22 DEF GateWritten
    <2> QED BY <1>22, <2>1, DoneIs DEF GateWritten, BuildTypeOK, Stages
<1>17. ASSUME NEW i \in Issues, InvokeAgain(i) PROVE BuildTypeOK'
    <2>1. memory' \in [Issues -> Memory]
        BY <1>17, MemoryIs DEF InvokeAgain, BuildTypeOK
    <2>2. /\ tier' \in [Issues -> 0..(LadderLength - 1)] /\ faults' \in 0..MaxFaults
          /\ \A j \in Issues : tier'[j] <= MaxEscalations
        BY <1>17, Bounds DEF InvokeAgain, BuildTypeOK
    <2> QED BY <1>17, <2>1, <2>2 DEF InvokeAgain, BuildTypeOK, Stages
<1>18. ASSUME NEW i \in Issues, OthersPush(i) PROVE BuildTypeOK'
    <2>1. remote' \in [Branches -> SUBSET Change]
        <3> DEFINE more == remote[<<i, "impl">>] \union {Pushed(i)}
        <3>1. more \subseteq Change
            BY BranchesAre, ChangesAre DEF BuildTypeOK
        <3>2. remote' = [remote EXCEPT ![<<i, "impl">>] = more]
            BY <1>18 DEF OthersPush
        <3> HIDE DEF more
        <3> QED BY <3>1, <3>2 DEF BuildTypeOK
    <2>2. faults' \in 0..MaxFaults
        BY <1>18, Bounds DEF OthersPush, BuildTypeOK
    <2> QED BY <1>18, <2>1, <2>2 DEF OthersPush, BuildTypeOK
<1>19. ASSUME Cut PROVE BuildTypeOK'
    <2>1. job.issue \in Issues /\ Raise(job.issue)
        BY <1>19, JobIs DEF Cut
    <2>2. faults' \in 0..MaxFaults /\ leaked' \subseteq Change
        BY <1>19, Bounds DEF Cut, BuildTypeOK
    <2> QED BY <1>19, <2>1, <2>2, RaiseIs DEF Cut, BuildTypeOK
<1>20. ASSUME Restart PROVE BuildTypeOK'
    <2>1. UNCHANGED <<job, stage>> \/ (job.issue \in Issues /\ Raise(job.issue))
        BY <1>20, JobIs DEF Restart
    <2>2. stage' \in [Issues -> Stages] /\ job' \in JobType
        BY <2>1, RaiseIs DEF JobType, BuildTypeOK
    <2>3. /\ faults' \in 0..MaxFaults /\ leaked' \subseteq Change
          /\ forgot' \subseteq Issues /\ astray' \subseteq Issues
        BY <1>20, Bounds DEF Restart, BuildTypeOK
    <2>4. memory' \in [Issues -> Memory]
        BY <1>20 DEF Restart, NoMemory, Memory
    <2> QED BY <1>20, <2>2, <2>3, <2>4 DEF Restart, BuildTypeOK, JobType
<1>21. CASE UNCHANGED buildVars
    BY <1>21 DEF buildVars, BuildTypeOK
<1> QED BY <1>1, <1>2, <1>3, <1>4, <1>5, <1>6, <1>7, <1>8, <1>9, <1>10, <1>11, <1>12,
           <1>13, <1>14, <1>15, <1>16, <1>17, <1>18, <1>19, <1>20, <1>21, <1>22 DEF Next, Node

-----------------------------------------------------------------------------
(* The node that runs *)

LEMMA JobInit == Init => JobInv
BY Bounds DEF Init, JobInv, NoJob

LEMMA DoneJob ==
    ASSUME BuildTypeOK, NEW i \in Issues, NEW s \in Stages \ {"failed"}, Done(i, s)
    PROVE  JobInv'
<1>1. CASE job' = NoJob
    BY <1>1, Bounds DEF JobInv, NoJob
<1>2. CASE job' # NoJob
    <2>1. /\ job'.issue = i /\ job'.at = "next" /\ stage'[i] = s
          /\ s \notin {"awaiting_merge", "escalated"}
        BY <1>2, DoneIs DEF BuildTypeOK
    <2> QED BY <1>2, <2>1, Bounds DEF JobInv, Implementing
<1> QED BY <1>1, <1>2

LEMMA NoJobJob ==
    ASSUME job' = NoJob
    PROVE  JobInv'
BY Bounds DEF JobInv, NoJob

\* A node that goes on stays with its issue and its stage.
LEMMA GoToJob ==
    ASSUME BuildTypeOK, JobInv, NEW i \in Issues, NEW from \in Points, NEW to \in Points,
           At(i, from), GoTo(to), UNCHANGED <<stage, memory, tier>>, to \notin Resting,
           to \in {"spec_added", "spec_committed"} => from \in {"spec_added", "spec_committed"},
           to \in Implementing => from \in Implementing
    PROVE  JobInv'
<1>1. job'.issue = i /\ job'.at = to /\ job' # NoJob /\ job # NoJob
    BY Bounds DEF At, GoTo, BuildTypeOK, NoJob
<1> QED BY <1>1, Bounds DEF JobInv, At, Remembers, Implementing, Resting

\* A node that starts has found its stage.
LEMMA StartJob ==
    ASSUME BuildTypeOK, NEW i \in Issues, NEW to \in {"spec_added", "prepared"},
           StartAt(i, to), UNCHANGED <<stage, memory, tier>>,
           to = "spec_added" => stage[i] = "specced",
           to = "prepared" => stage[i] = "spec_ready" /\ ~Remembers(i)
    PROVE  JobInv'
<1>1. job'.issue = i /\ job'.at = to /\ job' # NoJob
    BY Bounds DEF StartAt, NoJob
<1> QED BY <1>1, Bounds DEF JobInv, Remembers, Implementing

\* A gate that has acted is still at its stage.
LEMMA GoOnJob ==
    ASSUME BuildTypeOK, NEW i \in Issues, NEW point \in {"armed", "parked"},
           GoOn(i, point), stage'[i] = "reviewed"
    PROVE  JobInv'
<1>1. job'.issue = i /\ job'.at = point
    BY GoOnIs DEF Points
<1> QED BY <1>1, Bounds DEF JobInv, NoJob, Implementing

LEMMA JobStep ==
    ASSUME BuildTypeOK, JobInv, [Next]_buildVars
    PROVE  JobInv'
<1> USE DEF config, clone, github, progress, learned, past
<1>1. ASSUME NEW i \in Issues,
             \/ Triage(i) \/ ParkAtTriage(i) \/ OpenSpecPr(i) \/ ImplementAgain(i)
             \/ Review(i) \/ GateWritten(i) \/ Spec(i) \/ Implemented(i)
      PROVE  JobInv'
    <2>1. \/ Raise(i)
          \/ \E s \in Stages \ {"failed"} : Done(i, s)
        BY <1>1 DEF Triage, ParkAtTriage, OpenSpecPr, ImplementAgain, Review, GateWritten,
                    Spec, Implemented, Stages
    <2> QED BY <2>1, DoneJob, RaiseIs, NoJobJob
<1>10. ASSUME NEW i \in Issues, Gate(i) PROVE JobInv'
    <2>1. \/ Done(i, "spec_ready")
          \/ /\ GoOn(i, "armed") \/ GoOn(i, "parked")
             /\ stage'[i] = "reviewed"
        BY <1>10 DEF Gate, MayStart
    <2> QED BY <2>1, DoneJob, GoOnJob DEF Stages
<1>2. ASSUME NEW i \in Issues, AddSpec(i) PROVE JobInv'
    <2>1. Raise(i) \/ (StartAt(i, "spec_added") /\ UNCHANGED <<stage, memory, tier>>)
        BY <1>2 DEF AddSpec
    <2>2. stage[i] = "specced"
        BY <1>2 DEF AddSpec, MayStart
    <2> QED BY <2>1, <2>2, StartJob, RaiseIs, NoJobJob
<1>3. ASSUME NEW i \in Issues, Prepare(i) PROVE JobInv'
    <2>1. /\ StartAt(i, "prepared") /\ UNCHANGED <<stage, memory, tier>>
          /\ stage[i] = "spec_ready" /\ ~Remembers(i)
        BY <1>3 DEF Prepare, MayStart
    <2> QED BY <2>1, StartJob
<1>4. ASSUME NEW i \in Issues, Run(i) \/ ResetLitter(i) PROVE JobInv'
    <2>1. \/ Raise(i)
          \/ /\ UNCHANGED <<stage, memory, tier>>
             /\ \/ At(i, "prepared") /\ GoTo("ran")
                \/ At(i, "added") /\ GoTo("staged")
        BY <1>4 DEF Run, ResetLitter
    <2> QED BY <2>1, GoToJob, RaiseIs, NoJobJob DEF Implementing, Resting, Points
<1>5. ASSUME NEW i \in Issues, CommitSpec(i) \/ AddAll(i) \/ CommitImpl(i) \/ Push(i)
      PROVE  JobInv'
    <2>1. /\ UNCHANGED <<stage, memory, tier>>
          /\ \/ At(i, "spec_added") /\ GoTo("spec_committed")
             \/ At(i, "ran") /\ GoTo("added")
             \/ At(i, "staged") /\ GoTo("committed")
             \/ At(i, "committed") /\ GoTo("pushed")
        BY <1>5 DEF CommitSpec, AddAll, CommitImpl, Push
    <2> QED BY <2>1, GoToJob DEF Implementing, Resting, Points
<1>6. ASSUME NEW i \in Issues, InvokeAgain(i) PROVE JobInv'
    BY <1>6, NoJobJob DEF InvokeAgain
<1>7. ASSUME NEW i \in Issues, OthersPush(i) PROVE JobInv'
    BY <1>7 DEF OthersPush, JobInv, Remembers
<1>8. ASSUME Cut \/ Restart PROVE JobInv'
    <2>1. job' = NoJob
        BY <1>8 DEF Cut, Restart, Raise
    <2> QED BY <2>1, NoJobJob
<1>9. CASE UNCHANGED buildVars
    BY <1>9 DEF buildVars, JobInv, Remembers
<1> QED BY <1>1, <1>2, <1>3, <1>4, <1>5, <1>6, <1>7, <1>8, <1>9, <1>10 DEF Next, Node

-----------------------------------------------------------------------------
(* A node works for its own issue *)

\* What a node of issue i leaves alone: all that is known of the other issues,
\* and the history of the faults.
Others(i) ==
    /\ UNCHANGED <<setup, again, leaked, forgot, astray>>
    /\ \A j \in Issues \ {i} :
         /\ stage'[j] = stage[j] /\ memory'[j] = memory[j] /\ tier'[j] = tier[j]
         /\ wall'[j] = wall[j] /\ surface'[j] = surface[j] /\ local'[j] = local[j]
         /\ j \in unsure' <=> j \in unsure
         /\ j \in armed' <=> j \in armed
         /\ j \in parked' <=> j \in parked
         /\ \A kind \in {"spec", "impl"} : /\ remote'[<<j, kind>>] = remote[<<j, kind>>]
                                          /\ base'[<<j, kind>>] = base[<<j, kind>>]

\* A node of issue i adds changes of i only to what is staged or in the tree.
OthersChanges(i) ==
    \A c \in index' \union tree' : c.of # i => c \in index \union tree

\* No node runs, or may start, for an issue at an end.
LEMMA RunsBeforeEnd ==
    ASSUME BuildTypeOK, JobInv, NEW i \in Issues, job.issue = i
    PROVE  stage[i] \notin {"awaiting_merge", "escalated", "failed"}
BY Bounds DEF JobInv, BuildTypeOK, Points, Implementing

LEMMA NodeRuns ==
    ASSUME BuildTypeOK, JobInv, NEW i \in Issues, Node(i)
    PROVE  /\ stage[i] \notin {"awaiting_merge", "escalated", "failed"}
           /\ job.issue \in {i, NoIssue} /\ job'.issue \in {i, NoIssue}
<1>1. \/ \E s \in {"queued", "triaged", "specced", "spec_ready", "implemented", "reviewed"} :
           MayStart(i, s)
      \/ job.issue = i
    BY DEF Node, Triage, ParkAtTriage, Spec, AddSpec, CommitSpec, OpenSpecPr, Prepare, Run,
           AddAll, ResetLitter, CommitImpl, Push, Implemented, ImplementAgain, Review, Gate,
           GateWritten, At
<1>2. job.issue \in {i, NoIssue} /\ stage[i] \notin {"awaiting_merge", "escalated", "failed"}
    BY <1>1, RunsBeforeEnd DEF MayStart, NoJob
<1>3. \/ Raise(i) \/ \E s \in Stages : Done(i, s)
      \/ \E p \in Points : StartAt(i, p) \/ GoOn(i, p)
      \/ job.issue = i /\ \E p \in Points : GoTo(p)
    BY DEF Node, Triage, ParkAtTriage, Spec, AddSpec, CommitSpec, OpenSpecPr, Prepare, Run,
           AddAll, ResetLitter, CommitImpl, Push, Implemented, ImplementAgain, Review, Gate,
           GateWritten, At, Stages, Points
<1>4. CASE Raise(i)
    BY <1>2, <1>4, RaiseIs DEF NoJob
<1>5. CASE \E s \in Stages : Done(i, s)
    BY <1>2, <1>5, DoneIs DEF NoJob
<1>6. CASE \E p \in Points : StartAt(i, p) \/ GoOn(i, p)
    BY <1>2, <1>6, GoOnIs DEF StartAt
<1>7. CASE job.issue = i /\ \E p \in Points : GoTo(p)
    BY <1>2, <1>7 DEF GoTo, BuildTypeOK
<1> QED BY <1>2, <1>3, <1>4, <1>5, <1>6, <1>7

LEMMA StagesOfOthers ==
    ASSUME BuildTypeOK, JobInv, NEW i \in Issues, Node(i)
    PROVE  \A j \in Issues \ {i} : stage'[j] = stage[j]
<1>1. \/ Raise(i) \/ \E s \in Stages : Done(i, s)
      \/ UNCHANGED stage
    BY DEF Node, Triage, ParkAtTriage, Spec, AddSpec, CommitSpec, OpenSpecPr, Prepare, Run,
           AddAll, ResetLitter, CommitImpl, Push, Implemented, ImplementAgain, Review, Gate,
           GateWritten, Stages, progress
<1>2. UNCHANGED stage \/ stage' = [stage EXCEPT ![i] = "failed"]
      \/ \E s \in Stages : stage' = [stage EXCEPT ![i] = s]
    BY <1>1, RaiseIs, DoneIs
<1> QED BY <1>2 DEF BuildTypeOK

LEMMA NodeLeavesOthers ==
    ASSUME BuildTypeOK, JobInv, NEW i \in Issues, Node(i)
    PROVE  Others(i)
<1> USE StagesOfOthers, BranchesAre
    DEF Others, BuildTypeOK, config, clone, github, progress, learned, past
<1>1. ASSUME Triage(i) \/ ParkAtTriage(i) PROVE Others(i)
    <2>1. UNCHANGED <<surface, unsure>> \/ \E r \in Resolutions(i) : Persist(i, r)
        BY <1>1 DEF Triage, ParkAtTriage
    <2>2. \A j \in Issues \ {i} : surface'[j] = surface[j] /\ (j \in unsure' <=> j \in unsure)
        BY <2>1 DEF Persist
    <2> QED BY <1>1, <2>2 DEF Triage, ParkAtTriage
<1>2. ASSUME Spec(i) PROVE Others(i)
    BY <1>2 DEF Spec
<1>3. ASSUME AddSpec(i) \/ CommitSpec(i) PROVE Others(i)
    BY <1>3 DEF AddSpec, CommitSpec
<1>4. ASSUME OpenSpecPr(i) PROVE Others(i)
    BY <1>4 DEF OpenSpecPr
<1>5. ASSUME Prepare(i) PROVE Others(i)
    BY <1>5 DEF Prepare
<1>6. ASSUME Run(i) \/ AddAll(i) \/ ResetLitter(i) \/ ImplementAgain(i) PROVE Others(i)
    BY <1>6 DEF Run, AddAll, ResetLitter, ImplementAgain
<1>7. ASSUME CommitImpl(i) PROVE Others(i)
    BY <1>7 DEF CommitImpl
<1>8. ASSUME Push(i) PROVE Others(i)
    BY <1>8 DEF Push
<1>9. ASSUME Implemented(i) PROVE Others(i)
    BY <1>9 DEF Implemented
<1>10. ASSUME Review(i) PROVE Others(i)
    BY <1>10 DEF Review
<1>11. ASSUME Gate(i) PROVE Others(i)
    BY <1>11 DEF Gate, EffectOfRetry
<1>12. ASSUME GateWritten(i) PROVE Others(i)
    BY <1>12 DEF GateWritten
<1> QED BY <1>1, <1>2, <1>3, <1>4, <1>5, <1>6, <1>7, <1>8, <1>9, <1>10, <1>11, <1>12 DEF Node

LEMMA NodeLeavesOthersChanges ==
    ASSUME BuildTypeOK, JobInv, NEW i \in Issues, Node(i)
    PROVE  OthersChanges(i)
<1> USE ChangesAre DEF OthersChanges, clone
<1>1. ASSUME Spec(i) PROVE OthersChanges(i)
    BY <1>1, SpecTree DEF Spec
<1>2. ASSUME Prepare(i) PROVE OthersChanges(i)
    BY <1>2 DEF Prepare, Cleaned, Litter
<1>3. ASSUME Run(i) PROVE OthersChanges(i)
    <2>1. index' = index
        BY <1>3 DEF Run
    <2>2. \A c \in tree' : c \in tree \/ c = Code(i, runs[i]) \/ c = Output(i)
        BY <1>3, RunTree
    <2> QED BY <2>1, <2>2
<1>4. ASSUME AddSpec(i) \/ CommitSpec(i) PROVE OthersChanges(i)
    BY <1>4 DEF AddSpec, CommitSpec
<1>5. ASSUME AddAll(i) \/ ResetLitter(i) \/ CommitImpl(i) PROVE OthersChanges(i)
    BY <1>5 DEF AddAll, ResetLitter, CommitImpl, Unstaged, Litter
<1>6. ASSUME \/ Triage(i) \/ ParkAtTriage(i) \/ OpenSpecPr(i) \/ Push(i)
             \/ Implemented(i) \/ ImplementAgain(i) \/ Review(i) \/ Gate(i) \/ GateWritten(i)
      PROVE  OthersChanges(i)
    BY <1>6 DEF Triage, ParkAtTriage, OpenSpecPr, Push, Implemented, ImplementAgain, Review,
                Gate, GateWritten
<1> QED BY <1>1, <1>2, <1>3, <1>4, <1>5, <1>6 DEF Node

-----------------------------------------------------------------------------
(* The ends of the ladder *)

LEMMA EndInit == Init => EndInv /\ BarInv /\ BarredNeverArmed
BY Bounds DEF Init, EndInv, BarInv, BarredNeverArmed, At, NoJob

\* The part of the invariant for one issue.
Ends(i) ==
    /\ i \in armed /\ i \in parked => i \in astray
    /\ i \in armed /\ i \notin astray =>
         \/ stage[i] \in {"awaiting_merge", "failed"}
         \/ stage[i] = "reviewed" /\ Decide(i) = "merge"
    /\ i \in parked =>
         \/ stage[i] \in {"escalated", "failed"}
         \/ /\ stage[i] = "reviewed" /\ Decide(i) # "merge"
            /\ setup.driver = "invoke" => At(i, "parked")
    /\ At(i, "armed") => Decide(i) = "merge"
    /\ At(i, "parked") => Decide(i) # "merge"

LEMMA EndParts == EndInv <=> \A i \in Issues : Ends(i)
BY DEF EndInv, Ends

LEMMA DecideIs ==
    ASSUME NEW i \in Issues, memory'[i] = memory[i]
    PROVE  Decide(i)' = Decide(i)
BY DEF Decide, Paywalled

\* Before the gate nothing is decided, and no job is one of the gate's.
LEMMA BeforeGate ==
    ASSUME BuildTypeOK, JobInv, NEW i \in Issues,
           \/ Triage(i) \/ Spec(i) \/ AddSpec(i) \/ CommitSpec(i) \/ OpenSpecPr(i)
           \/ Prepare(i) \/ Run(i) \/ AddAll(i) \/ ResetLitter(i) \/ CommitImpl(i)
           \/ Push(i) \/ Implemented(i) \/ ImplementAgain(i) \/ Review(i)
    PROVE  /\ UNCHANGED <<armed, parked>> /\ job'.at \notin {"armed", "parked"}
           /\ stage[i] \notin {"reviewed", "awaiting_merge", "escalated", "failed"}
<1>1. UNCHANGED <<armed, parked>>
    BY DEF Triage, Spec, AddSpec, CommitSpec, OpenSpecPr, Prepare, Run, AddAll, ResetLitter,
           CommitImpl, Push, Implemented, ImplementAgain, Review, github
<1>2. stage[i] \in {"queued", "triaged", "specced", "spec_ready", "implemented"}
    BY DEF Triage, Spec, AddSpec, CommitSpec, OpenSpecPr, Prepare, Run, AddAll, ResetLitter,
           CommitImpl, Push, Implemented, ImplementAgain, Review, MayStart, At, JobInv,
           Implementing
<1>3. \/ Raise(i) \/ \E s \in Stages : Done(i, s)
      \/ \E p \in Points \ {"armed", "parked"} :
           StartAt(i, p) \/ (job.issue = i /\ GoTo(p))
    BY DEF Triage, Spec, AddSpec, CommitSpec, OpenSpecPr, Prepare, Run, AddAll, ResetLitter,
           CommitImpl, Push, Implemented, ImplementAgain, Review, At, Stages, Points
<1>4. job'.at \notin {"armed", "parked"}
    <2>1. CASE Raise(i) \/ \E s \in Stages : Done(i, s)
        BY <2>1, RaiseIs, DoneIs DEF NoJob
    <2>2. CASE \E p \in Points \ {"armed", "parked"} :
                 StartAt(i, p) \/ (job.issue = i /\ GoTo(p))
        BY <2>2 DEF StartAt, GoTo, BuildTypeOK
    <2> QED BY <1>3, <2>1, <2>2
<1> QED BY <1>1, <1>2, <1>4

\* A node ends the ladder with one effect, for its own issue.
LEMMA EndNode ==
    ASSUME BuildTypeOK, JobInv, EndInv, NEW i \in Issues, Node(i)
    PROVE  Ends(i)'
<1>1. /\ Ends(i) /\ UNCHANGED <<astray, setup>>
      /\ stage[i] \notin {"awaiting_merge", "escalated", "failed"}
    BY EndParts, NodeLeavesOthers, NodeRuns DEF Others
<1>2. CASE \/ Triage(i) \/ Spec(i) \/ AddSpec(i) \/ CommitSpec(i) \/ OpenSpecPr(i)
           \/ Prepare(i) \/ Run(i) \/ AddAll(i) \/ ResetLitter(i) \/ CommitImpl(i)
           \/ Push(i) \/ Implemented(i) \/ ImplementAgain(i) \/ Review(i)
    BY <1>1, <1>2, BeforeGate DEF Ends, At
<1>3. CASE ParkAtTriage(i)
    <2>1. /\ stage[i] = "queued" /\ stage'[i] = "escalated" /\ armed' = armed
          /\ job'.at = "idle"
        BY <1>3, DoneIs DEF ParkAtTriage, MayStart, NoJob, Stages, BuildTypeOK
    <2> QED BY <1>1, <2>1 DEF Ends, At
<1>4. CASE Gate(i)
    <2>1. /\ stage[i] = "reviewed" /\ Decide(i)' = Decide(i)
          /\ (setup.driver = "invoke" => ~At(i, "parked"))
        BY <1>4, DecideIs, Bounds DEF Gate, MayStart, At, NoJob, BuildTypeOK
    <2>2. CASE /\ Decide(i) = "merge" /\ UNCHANGED <<stage, parked>>
               /\ armed' = armed \union {i} /\ GoOn(i, "armed")
        <3>1. i \notin parked /\ job'.issue = i /\ job'.at = "armed"
            BY <1>1, <2>1, <2>2, GoOnIs DEF Ends, Points
        <3> QED BY <2>1, <2>2, <3>1 DEF Ends, At
    <2>3. CASE /\ Retries(i) /\ UNCHANGED <<armed, parked>> /\ Done(i, "spec_ready")
        <3>1. setup.driver = "invoke" /\ Decide(i) # "merge"
            BY <2>3 DEF Retries, CanRetry
        <3>2. i \notin parked /\ (i \in armed => i \in astray)
            BY <1>1, <2>1, <3>1 DEF Ends
        <3>3. job'.at \notin {"armed", "parked"}
            BY <2>3, DoneIs DEF NoJob, Stages
        <3> QED BY <1>1, <2>3, <3>2, <3>3 DEF Ends, At
    <2>4. CASE /\ Decide(i) # "merge" /\ UNCHANGED <<stage, armed>>
               /\ parked' = parked \union {i} /\ GoOn(i, "parked")
        <3>1. /\ (i \in armed => i \in astray)
              /\ job'.issue = i /\ job'.at = "parked"
            BY <1>1, <2>1, <2>4, GoOnIs DEF Ends, Points
        <3> QED BY <1>1, <2>1, <2>4, <3>1 DEF Ends, At
    <2> QED BY <1>4, <2>2, <2>3, <2>4 DEF Gate, EffectOfRetry
<1>5. CASE GateWritten(i)
    <2>1. /\ UNCHANGED <<armed, parked>> /\ job'.at = "idle"
          /\ \/ At(i, "armed") /\ stage'[i] = "awaiting_merge"
             \/ At(i, "parked") /\ stage'[i] = "escalated"
        BY <1>5, DoneIs DEF GateWritten, github, NoJob, Stages, BuildTypeOK
    <2>2. stage[i] = "reviewed"
        BY <2>1 DEF JobInv, At
    <2> QED BY <1>1, <2>1, <2>2 DEF Ends, At
<1> QED BY <1>2, <1>3, <1>4, <1>5 DEF Node

\* The ends of another issue stay as they are.
LEMMA EndOthers ==
    ASSUME BuildTypeOK, JobInv, EndInv, NEW i \in Issues, Node(i), NEW j \in Issues \ {i}
    PROVE  Ends(j)'
<1>1. Ends(j) /\ Others(i)
    BY EndParts, NodeLeavesOthers
<1>2. job.issue # j /\ job'.issue # j
    BY NodeRuns, Bounds
<1>3. Decide(j)' = Decide(j)
    BY <1>1, DecideIs DEF Others
<1> QED BY <1>1, <1>2, <1>3 DEF Ends, Others, At

\* A node that raises, or is cut short, is not at an end.
LEMMA EndRaise ==
    ASSUME BuildTypeOK, JobInv, NEW i \in Issues, job.issue = i, Raise(i)
    PROVE  \A j \in Issues :
             /\ stage[j] \in {"awaiting_merge", "escalated"} => stage'[j] = stage[j]
             /\ stage'[j] = stage[j] \/ stage'[j] = "failed"
BY RunsBeforeEnd, RaiseIs DEF BuildTypeOK

LEMMA CutIs ==
    ASSUME BuildTypeOK, JobInv, Cut \/ Restart
    PROVE  \A j \in Issues :
             /\ stage[j] \in {"awaiting_merge", "escalated"} => stage'[j] = stage[j]
             /\ stage'[j] = stage[j] \/ stage'[j] = "failed"
<1>1. UNCHANGED stage \/ (job # NoJob /\ Raise(job.issue))
    BY DEF Cut, Restart
<1> QED BY <1>1, EndRaise, JobIs

LEMMA EndStep ==
    ASSUME BuildTypeOK, JobInv, EndInv, [Next]_buildVars
    PROVE  EndInv'
<1>1. ASSUME NEW i \in Issues, Node(i) PROVE EndInv'
    BY <1>1, EndNode, EndOthers DEF EndInv, Ends
<1>2. ASSUME NEW i \in Issues, InvokeAgain(i) PROVE EndInv'
    <2> SUFFICES ASSUME NEW j \in Issues PROVE Ends(j)'
        BY DEF EndInv, Ends
    <2>1. Ends(j) /\ job.issue # j /\ job'.issue # j
        BY <1>2, EndParts, Bounds DEF InvokeAgain, NoJob
    <2>2. CASE j = i
        BY <1>2, <2>1, <2>2 DEF InvokeAgain, Ends, At
    <2>3. CASE j # i
        <3>1. Decide(j)' = Decide(j) /\ stage'[j] = stage[j]
            BY <1>2, <2>3, DecideIs DEF InvokeAgain, BuildTypeOK
        <3> QED BY <1>2, <2>1, <2>3, <3>1 DEF InvokeAgain, Ends, At
    <2> QED BY <2>2, <2>3
<1>3. ASSUME NEW i \in Issues, OthersPush(i) PROVE EndInv'
    BY <1>3 DEF OthersPush, progress, learned, config, EndInv, Decide, Paywalled, At
<1>4. ASSUME Cut \/ Restart PROVE EndInv'
    <2> SUFFICES ASSUME NEW j \in Issues PROVE Ends(j)'
        BY DEF EndInv, Ends
    <2>1. /\ Ends(j) /\ UNCHANGED <<armed, parked, setup>> /\ job'.issue # j
          /\ stage'[j] \in {stage[j], "failed"}
          /\ stage[j] \in {"awaiting_merge", "escalated"} => stage'[j] = stage[j]
        BY <1>4, EndParts, CutIs, Bounds DEF Cut, Restart, Raise, NoJob, github, config
    <2>2. setup.driver = "invoke" /\ At(j, "parked") => stage'[j] = "failed"
        BY <1>4, Bounds DEF Cut, Restart, Raise, At, NoJob, BuildTypeOK
    <2>3. CASE Cut
        <3>1. Decide(j)' = Decide(j) /\ astray' = astray
            BY <2>3, DecideIs DEF Cut, learned
        <3> QED BY <2>1, <2>2, <3>1 DEF Ends, At
    <2>4. CASE Restart
        <3>1. /\ memory'[j] = NoMemory /\ astray \subseteq astray'
              /\ j \in armed /\ stage[j] # "awaiting_merge" => j \in astray'
            BY <2>4 DEF Restart
        <3>2. Decide(j)' # "merge"
            BY <3>1 DEF Decide, NoMemory
        <3> QED BY <2>1, <2>2, <3>1, <3>2 DEF Ends, At
    <2> QED BY <1>4, <2>3, <2>4
<1>5. CASE UNCHANGED buildVars
    BY <1>5 DEF buildVars, github, progress, learned, past, config, EndInv, Decide, Paywalled,
                At
<1> QED BY <1>1, <1>2, <1>3, <1>4, <1>5 DEF Next

-----------------------------------------------------------------------------
(* What bars an issue *)

\* The parts of the invariant for one issue.
WallKnown(i) ==
    wall[i] = "excerpt"
    /\ stage[i] \in {"specced", "spec_ready", "implemented", "reviewed",
                     "awaiting_merge"} =>
        memory[i].wall \/ i \in forgot \/ setup.graph = "langgraph"
IsProduct(i) ==
    setup.driver = "invoke" /\ stage[i] \notin {"queued", "escalated", "failed"} =>
        surface[i] = "product"
Guessed(i) == i \in unsure => i \in again \/ stage[i] = "escalated"
Barred(i) ==
    /\ wall[i] = "excerpt" => i \in forgot \union astray \/ setup.graph = "langgraph"
    /\ setup.driver = "invoke" => surface[i] = "product"
    /\ i \in unsure => i \in again

LEMMA BarParts ==
    /\ BarInv <=> \A i \in Issues : WallKnown(i) /\ IsProduct(i) /\ Guessed(i)
    /\ BarredNeverArmed <=> \A i \in armed : Barred(i)
BY DEF BarInv, BarredNeverArmed, WallKnown, IsProduct, Guessed, Barred

LEMMA BarNode ==
    ASSUME BuildTypeOK, JobInv, EndInv, BarInv, BarredNeverArmed, NEW i \in Issues, Node(i)
    PROVE  /\ WallKnown(i)' /\ IsProduct(i)' /\ Guessed(i)'
           /\ i \in armed' => Barred(i)'
<1> USE BarParts, NodeRuns DEF config, github, progress, learned, past
<1>1. /\ WallKnown(i) /\ IsProduct(i) /\ Guessed(i) /\ (i \in armed => Barred(i))
      /\ stage[i] \notin {"awaiting_merge", "escalated", "failed"}
      /\ i \in armed /\ stage[i] # "reviewed" => i \in astray
    BY EndParts DEF Ends
<1>2. UNCHANGED <<setup, again, forgot, astray>>
    BY NodeLeavesOthers DEF Others
<1>3. CASE Triage(i)
    <2>1. stage'[i] = "triaged" /\ stage[i] = "queued" /\ UNCHANGED <<wall, memory, armed>>
        BY <1>3, DoneIs DEF Triage, MayStart, Stages, BuildTypeOK
    <2>2. /\ setup.driver = "invoke" => surface'[i] = "product"
          /\ i \in unsure' => i \in unsure
        BY <1>3, Bounds DEF Triage, Builds, Persist, Surfaces, BuildTypeOK
    <2> QED BY <1>1, <1>2, <2>1, <2>2 DEF WallKnown, IsProduct, Guessed, Barred
<1>4. CASE ParkAtTriage(i)
    <2>1. stage'[i] = "escalated" /\ UNCHANGED <<armed, wall>>
        BY <1>4, DoneIs DEF ParkAtTriage, Stages, BuildTypeOK
    <2>2. ASSUME i \in armed PROVE UNCHANGED <<surface, unsure>>
        <3>1. setup.driver = "invoke" => \A q \in Resolutions(i) : Builds(q)
            BY <1>1, <2>2 DEF Barred, Resolutions, Builds
        <3> QED BY <1>4, <3>1 DEF ParkAtTriage
    <2> QED BY <1>1, <1>2, <2>1, <2>2 DEF WallKnown, IsProduct, Guessed, Barred
<1>5. CASE Spec(i)
    <2>1. /\ UNCHANGED <<surface, unsure, armed>> /\ stage[i] = "triaged"
          /\ stage'[i] \in {"specced", "triaged", "failed"}
        BY <1>5, DoneIs, RaiseIs DEF Spec, MayStart, Stages, BuildTypeOK
    <2>2. stage'[i] = "specced" /\ wall'[i] = "excerpt" =>
            memory'[i].wall \/ setup.graph = "langgraph"
        <3>1. CASE \E w \in Walls : /\ wall' = [wall EXCEPT ![i] = w]
                                   /\ memory' = [memory EXCEPT ![i].wall = Kept(w)]
            <4>1. PICK w \in Walls : /\ wall' = [wall EXCEPT ![i] = w]
                                    /\ memory' = [memory EXCEPT ![i].wall = Kept(w)]
                BY <3>1
            <4>2. wall'[i] = w /\ memory'[i].wall = Kept(w)
                BY <4>1 DEF BuildTypeOK, Memory
            <4>3. setup.graph \in {"legacy", "langgraph"}
                BY Bounds DEF BuildTypeOK
            <4> QED BY <4>2, <4>3 DEF Kept
        <3>2. CASE Raise(i)
            <4>1. stage'[i] # "specced"
                BY <2>1, <3>2, RaiseIs DEF BuildTypeOK
            <4> QED BY <4>1
        <3> QED BY <1>5, <3>1, <3>2 DEF Spec
    <2> QED BY <1>1, <1>2, <2>1, <2>2 DEF WallKnown, IsProduct, Guessed, Barred
<1>6. CASE Gate(i)
    <2>1. /\ UNCHANGED <<surface, unsure, wall, memory>> /\ stage[i] = "reviewed"
          /\ stage'[i] \in {"reviewed", "spec_ready"}
        BY <1>6, DoneIs DEF Gate, MayStart, Stages, BuildTypeOK
    <2>2. i \in armed' => i \in armed \/ ~memory[i].wall
        BY <1>6 DEF Gate, Decide, Paywalled
    <2> QED BY <1>1, <1>2, <2>1, <2>2 DEF WallKnown, IsProduct, Guessed, Barred
<1>9. CASE GateWritten(i)
    <2>1. /\ UNCHANGED <<surface, unsure, wall, memory, armed>> /\ stage[i] = "reviewed"
          /\ stage'[i] \in {"awaiting_merge", "escalated"}
        BY <1>9, DoneIs DEF GateWritten, At, JobInv, Stages, BuildTypeOK
    <2> QED BY <1>1, <1>2, <2>1 DEF WallKnown, IsProduct, Guessed, Barred
<1>7. CASE Implemented(i) \/ Review(i)
    <2>1. /\ UNCHANGED <<surface, unsure, wall, armed>>
          /\ stage[i] \in {"spec_ready", "implemented"}
          /\ stage'[i] \in {"spec_ready", "implemented", "reviewed", "failed"}
        BY <1>7, DoneIs, RaiseIs DEF Implemented, Review, MayStart, At, JobInv, Implementing,
                                     Stages, BuildTypeOK
    <2>2. memory'[i].wall = memory[i].wall
        <3>1. CASE Implemented(i)
            BY <3>1 DEF Implemented, BuildTypeOK, Memory
        <3>2. CASE Review(i)
            BY <3>2 DEF Review, BuildTypeOK, Memory
        <3> QED BY <1>7, <3>1, <3>2
    <2> QED BY <1>1, <1>2, <2>1, <2>2 DEF WallKnown, IsProduct, Guessed, Barred
<1>8. CASE \/ AddSpec(i) \/ CommitSpec(i) \/ OpenSpecPr(i) \/ Prepare(i) \/ Run(i)
           \/ AddAll(i) \/ ResetLitter(i) \/ CommitImpl(i) \/ Push(i) \/ ImplementAgain(i)
    <2>1. /\ UNCHANGED <<surface, unsure, wall, memory, armed>>
          /\ \/ UNCHANGED stage \/ Raise(i)
             \/ /\ stage[i] \in {"specced", "spec_ready"}
                /\ Done(i, "spec_ready") \/ Done(i, "implemented")
        BY <1>8 DEF AddSpec, CommitSpec, OpenSpecPr, Prepare, Run, AddAll, ResetLitter,
                    CommitImpl, Push, ImplementAgain, MayStart, At, JobInv
    <2>2. \/ stage'[i] \in {stage[i], "failed"}
          \/ /\ stage[i] \in {"specced", "spec_ready"}
             /\ stage'[i] \in {"spec_ready", "implemented"}
        BY <2>1, DoneIs, RaiseIs DEF Stages, BuildTypeOK
    <2> QED BY <1>1, <1>2, <2>1, <2>2 DEF WallKnown, IsProduct, Guessed, Barred
<1> QED BY <1>3, <1>4, <1>5, <1>6, <1>7, <1>8, <1>9 DEF Node

LEMMA BarStep ==
    ASSUME BuildTypeOK, JobInv, EndInv, BarInv, BarredNeverArmed, [Next]_buildVars
    PROVE  BarInv' /\ BarredNeverArmed'
<1>0. armed \subseteq Issues
    BY DEF BuildTypeOK
<1>1. ASSUME NEW i \in Issues, Node(i) PROVE BarInv' /\ BarredNeverArmed'
    <2>1. Others(i)
        BY <1>1, NodeLeavesOthers
    <2>2. ASSUME NEW j \in Issues \ {i}
          PROVE  /\ WallKnown(j)' /\ IsProduct(j)' /\ Guessed(j)'
                 /\ j \in armed' => Barred(j)'
        BY <2>1, BarParts DEF Others, WallKnown, IsProduct, Guessed, Barred
    <2>3. armed' \subseteq Issues
        BY <1>1, TypeStep DEF Next, BuildTypeOK
    <2>4. \A j \in Issues : /\ WallKnown(j)' /\ IsProduct(j)' /\ Guessed(j)'
                            /\ j \in armed' => Barred(j)'
        BY <1>1, <2>2, BarNode
    <2> QED BY <2>3, <2>4 DEF BarInv, BarredNeverArmed, WallKnown, IsProduct, Guessed, Barred
<1>2. ASSUME NEW i \in Issues, InvokeAgain(i) PROVE BarInv' /\ BarredNeverArmed'
    BY <1>0, <1>2 DEF InvokeAgain, BarInv, BarredNeverArmed, BuildTypeOK, EndInv
<1>3. ASSUME NEW i \in Issues, OthersPush(i) PROVE BarInv' /\ BarredNeverArmed'
    BY <1>3 DEF OthersPush, BarInv, BarredNeverArmed, config, progress, learned
<1>4. ASSUME Cut \/ Restart PROVE BarInv' /\ BarredNeverArmed'
    <2>1. /\ UNCHANGED <<setup, surface, unsure, again, wall, armed>>
          /\ forgot \subseteq forgot' /\ astray \subseteq astray'
          /\ \A j \in Issues : memory[j].wall => memory'[j].wall \/ j \in forgot'
        BY <1>4 DEF Cut, Restart, config, github, learned, NoMemory
    <2> QED BY <1>0, <1>4, <2>1, CutIs DEF BarInv, BarredNeverArmed
<1>5. CASE UNCHANGED buildVars
    BY <1>5 DEF buildVars, BarInv, BarredNeverArmed, config, github, progress, learned, past
<1> QED BY <1>1, <1>2, <1>3, <1>4, <1>5 DEF Next

-----------------------------------------------------------------------------
(* Where the changes are *)

LEMMA PlaceInit == Init => PlaceInv /\ PushedIsOwn
BY Bounds, BranchesAre DEF Init, PlaceInv, PushedIsOwn, NoJob

\* Between two nodes, only leftovers are staged.
LEMMA AtRest ==
    ASSUME job'.at \in Resting, index' \subseteq leaked'
    PROVE  PlaceInv'
BY DEF PlaceInv, Resting

LEMMA RestsAfter ==
    ASSUME BuildTypeOK, NEW i \in Issues, Raise(i) \/ \E s \in Stages : Done(i, s)
    PROVE  job'.at \in {"idle", "next"}
BY RaiseIs, DoneIs DEF NoJob

LEMMA MayStartPlace ==
    ASSUME BuildTypeOK, JobInv, PlaceInv, NEW i \in Issues, NEW s, MayStart(i, s)
    PROVE  index \subseteq leaked
BY JobIs DEF PlaceInv, Resting

\* For a node of issue i, the invariant is about i alone.
LEMMA PlaceOfOne ==
    ASSUME NEW i \in Issues, job'.issue = i,
           job'.at \in {"prepared", "ran"} => index' \subseteq leaked',
           job'.at \in {"spec_added", "prepared", "ran", "added", "staged"} =>
               head' = job'.from,
           job'.at \notin Resting,
           job'.at = "spec_added" => \A c \in index' : OwnOrLeaked(c, i)',
           job'.at = "spec_committed" =>
               index' = {} /\ \A c \in head' \ job'.from : OwnOrLeaked(c, i)',
           job'.at \in {"prepared", "ran"} => \A c \in tree' : IsLitter(c) \/ c.of = i,
           job'.at = "added" =>
               tree' = {} /\ \A c \in index' : IsLitter(c) \/ OwnOrLeaked(c, i)',
           job'.at = "staged" =>
               /\ \A c \in tree' : IsLitter(c)
               /\ \A c \in index' : ~IsLitter(c) /\ OwnOrLeaked(c, i)',
           job'.at \in {"committed", "pushed"} =>
               /\ index' = {}
               /\ \A c \in local'[i] \ job'.from : ~IsLitter(c) /\ OwnOrLeaked(c, i)',
           job'.at = "pushed" =>
               /\ base'[<<i, "impl">>] = job'.from
               /\ remote'[<<i, "impl">>] \ {Pushed(i)} \subseteq local'[i]
    PROVE  PlaceInv'
BY DEF PlaceInv, OwnOrLeaked, Resting

LEMMA GoToIs ==
    ASSUME BuildTypeOK, NEW i \in Issues, NEW from, NEW to, At(i, from), GoTo(to)
    PROVE  job'.issue = i /\ job'.at = to /\ job'.from = job.from
BY DEF At, GoTo, BuildTypeOK

LEMMA PlaceNode ==
    ASSUME BuildTypeOK, JobInv, PlaceInv, NEW i \in Issues, Node(i)
    PROVE  PlaceInv'
<1> USE DEF clone, Resting
<1>0. leaked' = leaked
    BY NodeLeavesOthers DEF Others
<1>1. CASE \/ Triage(i) \/ ParkAtTriage(i) \/ Spec(i) \/ ImplementAgain(i)
           \/ Review(i) \/ Gate(i) \/ GateWritten(i) \/ OpenSpecPr(i) \/ Implemented(i)
    <2>1. \/ Raise(i) \/ \E s \in Stages : Done(i, s)
          \/ \E p \in {"armed", "parked"} : GoOn(i, p)
        BY <1>1 DEF Triage, ParkAtTriage, Spec, ImplementAgain, Review, Gate, GateWritten,
                    OpenSpecPr, Implemented, Stages
    <2>4. job'.at \in Resting
        BY <2>1, RestsAfter, GoOnIs DEF Points
    <2>2. index' = index
        BY <1>1 DEF Triage, ParkAtTriage, Spec, ImplementAgain, Review, Gate, GateWritten,
                    OpenSpecPr, Implemented
    <2>3. index \subseteq leaked
        <3>1. \/ \E s \in Stages : MayStart(i, s)
              \/ \E p \in {"spec_committed", "pushed", "armed", "parked"} : At(i, p)
            BY <1>1 DEF Triage, ParkAtTriage, Spec, ImplementAgain, Review, Gate, GateWritten,
                        OpenSpecPr, Implemented, Stages
        <3> QED BY <3>1, MayStartPlace DEF PlaceInv, At
    <2> QED BY <1>0, <2>2, <2>3, <2>4, AtRest
<1>2. CASE AddSpec(i)
    <2>1. index \subseteq leaked
        BY <1>2, MayStartPlace DEF AddSpec
    <2>2. CASE Raise(i)
        <3>1. job'.at = "idle"
            BY <2>2, RaiseIs DEF NoJob
        <3>2. ~StartAt(i, "spec_added")
            BY <3>1 DEF StartAt
        <3>3. index' = index
            BY <1>2, <3>2 DEF AddSpec
        <3> QED BY <1>0, <2>1, <3>1, <3>3, AtRest
    <2>3. CASE StartAt(i, "spec_added")
        <3>1. job'.issue = i /\ job'.at = "spec_added" /\ job'.from = head'
            BY <2>3 DEF StartAt
        <3>2. \A c \in index' : c \in index \/ c = SpecFile(i)
            BY <1>2 DEF AddSpec
        <3>3. \A c \in index' : OwnOrLeaked(c, i)'
            BY <1>0, <2>1, <3>2, ChangesAre DEF OwnOrLeaked
        <3> QED BY <3>1, <3>3, PlaceOfOne
    <2> QED BY <1>2, <2>2, <2>3 DEF AddSpec
<1>3. CASE CommitSpec(i)
    <2>1. /\ job'.issue = i /\ job'.at = "spec_committed" /\ job'.from = job.from
          /\ index' = {} /\ head' = head \union index
        BY <1>3, GoToIs DEF CommitSpec
    <2>2. head = job.from /\ \A c \in index : OwnOrLeaked(c, i)
        BY <1>3 DEF CommitSpec, At, PlaceInv
    <2>3. \A c \in head' \ job'.from : OwnOrLeaked(c, i)'
        BY <1>0, <2>1, <2>2 DEF OwnOrLeaked
    <2> QED BY <2>1, <2>3, PlaceOfOne
<1>4. CASE Prepare(i)
    <2>1. index \subseteq leaked
        BY <1>4, MayStartPlace DEF Prepare
    <2>2. /\ job'.issue = i /\ job'.at = "prepared" /\ job'.from = head' /\ index' = index
          /\ tree' = Litter(tree) \union {Brief(i)}
        BY <1>4 DEF Prepare, StartAt, Cleaned
    <2>3. \A c \in tree' : IsLitter(c) \/ c.of = i
        BY <2>2, ChangesAre DEF Litter
    <2> QED BY <1>0, <2>1, <2>2, <2>3, PlaceOfOne
<1>5. CASE Run(i)
    <2>1. /\ index \subseteq leaked /\ head = job.from
          /\ \A c \in tree : IsLitter(c) \/ c.of = i
        BY <1>5 DEF Run, At, PlaceInv
    <2>2. index' = index /\ head' = head /\ (Raise(i) \/ GoTo("ran"))
        BY <1>5 DEF Run
    <2>3. CASE Raise(i)
        BY <1>0, <2>1, <2>2, <2>3, AtRest, RestsAfter
    <2>4. CASE GoTo("ran")
        <3>1. job'.issue = i /\ job'.at = "ran" /\ job'.from = job.from
            BY <1>5, <2>4, GoToIs DEF Run
        <3>2. \A c \in tree' : IsLitter(c) \/ c.of = i
            BY <1>5, <2>1, RunTree, ChangesAre
        <3> QED BY <1>0, <2>1, <2>2, <3>1, <3>2, PlaceOfOne
    <2> QED BY <2>2, <2>3, <2>4
<1>6. CASE AddAll(i)
    <2>1. /\ index \subseteq leaked /\ head = job.from
          /\ \A c \in tree : IsLitter(c) \/ c.of = i
        BY <1>6 DEF AddAll, At, PlaceInv
    <2>2. /\ job'.issue = i /\ job'.at = "added" /\ job'.from = job.from
          /\ index' = index \union tree /\ tree' = {} /\ head' = head
        BY <1>6, GoToIs DEF AddAll
    <2>3. \A c \in index' : IsLitter(c) \/ OwnOrLeaked(c, i)'
        BY <1>0, <2>1, <2>2 DEF OwnOrLeaked
    <2> QED BY <2>1, <2>2, <2>3, PlaceOfOne
<1>7. CASE ResetLitter(i)
    <2>1. /\ tree = {} /\ head = job.from
          /\ \A c \in index : IsLitter(c) \/ OwnOrLeaked(c, i)
        BY <1>7 DEF ResetLitter, At, PlaceInv
    <2>2. /\ head' = head /\ index' = index \ Litter(index)
          /\ tree' = tree \union Litter(index)
          /\ (index' = {} /\ Raise(i)) \/ GoTo("staged")
        BY <1>7 DEF ResetLitter, Unstaged
    <2>3. CASE index' = {} /\ Raise(i)
        BY <2>3, AtRest, RestsAfter
    <2>4. CASE GoTo("staged")
        <3>1. job'.issue = i /\ job'.at = "staged" /\ job'.from = job.from
            BY <1>7, <2>4, GoToIs DEF ResetLitter
        <3>2. \A c \in tree' : IsLitter(c)
            BY <2>1, <2>2 DEF Litter
        <3>3. \A c \in index' : ~IsLitter(c) /\ OwnOrLeaked(c, i)'
            BY <1>0, <2>1, <2>2 DEF Litter, OwnOrLeaked
        <3> QED BY <2>1, <2>2, <3>1, <3>2, <3>3, PlaceOfOne
    <2> QED BY <2>2, <2>3, <2>4
<1>8. CASE CommitImpl(i)
    <2>1. head = job.from /\ \A c \in index : ~IsLitter(c) /\ OwnOrLeaked(c, i)
        BY <1>8 DEF CommitImpl, At, PlaceInv
    <2>2. /\ job'.issue = i /\ job'.at = "committed" /\ job'.from = job.from
          /\ index' = {} /\ local'[i] = head \union index
        BY <1>8, GoToIs DEF CommitImpl, BuildTypeOK
    <2>3. \A c \in local'[i] \ job'.from : ~IsLitter(c) /\ OwnOrLeaked(c, i)'
        BY <1>0, <2>1, <2>2 DEF OwnOrLeaked
    <2> QED BY <2>2, <2>3, PlaceOfOne
<1>9. CASE Push(i)
    <2>1. index = {} /\ \A c \in local[i] \ job.from : ~IsLitter(c) /\ OwnOrLeaked(c, i)
        BY <1>9 DEF Push, At, PlaceInv
    <2>2. /\ job'.issue = i /\ job'.at = "pushed" /\ job'.from = job.from
          /\ index' = index /\ local' = local
          /\ remote'[<<i, "impl">>] = local[i] /\ base'[<<i, "impl">>] = job.from
        BY <1>9, GoToIs, BranchesAre DEF Push, BuildTypeOK
    <2>3. \A c \in local'[i] \ job'.from : ~IsLitter(c) /\ OwnOrLeaked(c, i)'
        BY <1>0, <2>1, <2>2 DEF OwnOrLeaked
    <2> QED BY <2>1, <2>2, <2>3, PlaceOfOne
<1> QED BY <1>1, <1>2, <1>3, <1>4, <1>5, <1>6, <1>7, <1>8, <1>9 DEF Node

LEMMA PlaceStep ==
    ASSUME BuildTypeOK, JobInv, PlaceInv, [Next]_buildVars
    PROVE  PlaceInv'
<1> USE DEF clone, past, Resting
<1>1. ASSUME NEW i \in Issues, Node(i) PROVE PlaceInv'
    BY <1>1, PlaceNode
<1>2. ASSUME NEW i \in Issues, InvokeAgain(i) PROVE PlaceInv'
    <2>1. job'.at = "idle" /\ index' = index /\ leaked' = leaked /\ index \subseteq leaked
        BY <1>2 DEF InvokeAgain, NoJob, PlaceInv
    <2> QED BY <2>1, AtRest
<1>3. ASSUME NEW i \in Issues, OthersPush(i) PROVE PlaceInv'
    <2>1. \A j \in Issues : remote'[<<j, "impl">>] \ {Pushed(j)}
                              \subseteq remote[<<j, "impl">>]
        BY <1>3, BranchesAre DEF OthersPush, BuildTypeOK
    <2>2. UNCHANGED <<job, head, index, tree, local, base, leaked>>
        BY <1>3 DEF OthersPush
    <2> QED BY <2>1, <2>2 DEF PlaceInv, OwnOrLeaked
<1>4. ASSUME Cut \/ Restart PROVE PlaceInv'
    <2>1. job'.at = "idle" /\ index' = index /\ index \subseteq leaked'
        BY <1>4 DEF Cut, Restart, Raise, NoJob
    <2> QED BY <2>1, AtRest
<1>5. CASE UNCHANGED buildVars
    BY <1>5 DEF buildVars, github, PlaceInv, OwnOrLeaked
<1> QED BY <1>1, <1>2, <1>3, <1>4, <1>5 DEF Next

\* What is pushed is what was committed on top of the commit the branch
\* started from.
LEMMA PushedStep ==
    ASSUME BuildTypeOK, JobInv, PlaceInv, PushedIsOwn, [Next]_buildVars
    PROVE  PushedIsOwn'
<1> DEFINE Own(i, k) ==
        \A c \in remote[<<i, k>>] \ base[<<i, k>>] :
            /\ c.of = i \/ c \in leaked
            /\ k = "impl" => ~IsLitter(c)
<1>1. PushedIsOwn <=> \A i \in Issues, k \in {"spec", "impl"} : Own(i, k)
    BY DEF PushedIsOwn, Branches
<1>2. ASSUME \A i \in Issues, k \in {"spec", "impl"} : Own(i, k)'
      PROVE  PushedIsOwn'
    <2> SUFFICES ASSUME NEW b \in Branches, NEW c \in (remote'[b] \ base'[b])
                 PROVE  (c.of = b[1] \/ c \in leaked') /\ (b[2] = "impl" => ~IsLitter(c))
        BY DEF PushedIsOwn, IsLitter
    <2>1. PICK i \in Issues, k \in {"spec", "impl"} : b = <<i, k>>
        BY DEF Branches
    <2>2. Own(i, k)'
        BY <1>2
    <2> QED BY <2>1, <2>2 DEF IsLitter
<1>3. \A i \in Issues, k \in {"spec", "impl"} : <<i, k>> \in Branches
    BY DEF Branches
<1> SUFFICES ASSUME NEW j \in Issues, NEW k \in {"spec", "impl"}
             PROVE  Own(j, k)'
    BY <1>2
<1>4. Own(j, k)
    BY <1>1
<1>5. ASSUME remote'[<<j, k>>] = remote[<<j, k>>], base'[<<j, k>>] = base[<<j, k>>],
             leaked \subseteq leaked'
      PROVE  Own(j, k)'
    BY <1>4, <1>5
<1>6. ASSUME NEW i \in Issues, Node(i) PROVE Own(j, k)'
    <2>1. leaked' = leaked
        BY <1>6, NodeLeavesOthers DEF Others
    <2>2. CASE i # j
        BY <1>5, <1>6, <2>1, <2>2, NodeLeavesOthers DEF Others
    <2>3. CASE i = j /\ OpenSpecPr(i)
        <3>1. /\ remote' = [remote EXCEPT ![<<j, "spec">>] = head]
              /\ base' = [base EXCEPT ![<<j, "spec">>] = job.from]
              /\ \A c \in head \ job.from : OwnOrLeaked(c, j)
            BY <2>3 DEF OpenSpecPr, At, PlaceInv
        <3> QED BY <1>3, <1>4, <2>1, <3>1 DEF OwnOrLeaked, BuildTypeOK
    <2>4. CASE i = j /\ Push(i)
        <3>1. /\ remote' = [remote EXCEPT ![<<j, "impl">>] = local[j]]
              /\ base' = [base EXCEPT ![<<j, "impl">>] = job.from]
              /\ \A c \in local[j] \ job.from : ~IsLitter(c) /\ OwnOrLeaked(c, j)
            BY <2>4 DEF Push, At, PlaceInv
        <3> QED BY <1>3, <1>4, <2>1, <3>1 DEF OwnOrLeaked, BuildTypeOK
    <2>5. CASE ~OpenSpecPr(i) /\ ~Push(i)
        <3>1. remote' = remote /\ base' = base
            BY <1>6, <2>5 DEF Node, Triage, ParkAtTriage, Spec, AddSpec, CommitSpec, Prepare,
                Run, AddAll, ResetLitter, CommitImpl, Implemented, ImplementAgain, Review, Gate,
                GateWritten, github
        <3> QED BY <1>5, <2>1, <3>1
    <2> QED BY <2>2, <2>3, <2>4, <2>5
<1>7. ASSUME NEW i \in Issues, OthersPush(i) PROVE Own(j, k)'
    <2>1. \A c \in remote'[<<j, k>>] :
            c \in remote[<<j, k>>] \/ (j = i /\ c = Pushed(i))
        BY <1>3, <1>7 DEF OthersPush, BuildTypeOK
    <2>2. base' = base /\ leaked' = leaked
        BY <1>7 DEF OthersPush
    <2> QED BY <1>4, <2>1, <2>2, ChangesAre
<1>8. ASSUME \/ Cut \/ Restart \/ UNCHANGED buildVars \/ \E i \in Issues : InvokeAgain(i)
      PROVE  Own(j, k)'
    <2>1. remote' = remote /\ base' = base /\ leaked \subseteq leaked'
        BY <1>8 DEF Cut, Restart, buildVars, InvokeAgain, github, past
    <2> QED BY <1>5, <2>1
<1> QED BY <1>6, <1>7, <1>8 DEF Next

-----------------------------------------------------------------------------
(* What the gate has judged *)

\* The parts of the invariants for one issue.
NothingYet(i) == stage[i] \in {"queued", "triaged", "specced"} => memory[i].diff = {}
IsJudged(i) ==
    remote[<<i, "impl">>] \ (base[<<i, "impl">>] \union {Pushed(i)}) \subseteq memory[i].diff
Judged(i) ==
    i \notin forgot
    /\ (Stands(i) \/ stage[i] \in {"reviewed", "awaiting_merge"} \/ i \in armed \ astray) =>
        IsJudged(i)
NoCode(i) == \A c \in index \union tree : c.of = i => c.kind # "code"
Committed(i) ==
    Stands(i) \/ (job.issue = i /\ job.at \in {"committed", "pushed"}) => NoCode(i)

LEMMA JudgedInit == Init => JudgedInv /\ CodeInv
BY DEF Init, JudgedInv, CodeInv, NoMemory, Stands

LEMMA JudgedParts ==
    /\ JudgedInv <=> \A i \in Issues : NothingYet(i) /\ Judged(i)
    /\ CodeInv <=> \A i \in Issues : Committed(i)
BY DEF JudgedInv, CodeInv, NothingYet, Judged, IsJudged, Committed, NoCode

LEMMA JudgedNode ==
    ASSUME BuildInv, NEW i \in Issues, Node(i)
    PROVE  NothingYet(i)' /\ Judged(i)' /\ Committed(i)'
<1> USE JudgedParts
    DEF BuildInv, config, clone, github, progress, learned, past
<1>1. NothingYet(i) /\ Judged(i) /\ Committed(i)
    OBVIOUS
<1>2. /\ forgot' = forgot /\ astray' = astray
      /\ i \in armed /\ stage[i] # "reviewed" => i \in astray
    BY NodeLeavesOthers, NodeRuns, EndParts DEF Others, Ends
<1>10. CASE Gate(i) \/ GateWritten(i)
    <2>1. /\ stage[i] = "reviewed" /\ UNCHANGED <<remote, base, memory>>
          /\ stage'[i] \in {"reviewed", "awaiting_merge", "spec_ready", "escalated"}
          /\ job'.at \in Resting
        <3>1. CASE Gate(i)
            BY <3>1, DoneIs, RestsAfter, GoOnIs DEF Gate, MayStart, Resting, Stages, Points,
                BuildTypeOK
        <3>2. CASE GateWritten(i)
            BY <3>2, DoneIs, RestsAfter DEF GateWritten, At, JobInv, Resting, Stages,
                BuildTypeOK
        <3> QED BY <1>10, <3>1, <3>2
    <2>2. stage'[i] = "spec_ready" => tier'[i] = tier[i] + 1
        <3>1. CASE Gate(i)
            BY <2>1, <3>1 DEF Gate, BuildTypeOK
        <3>2. CASE GateWritten(i)
            BY <3>2, DoneIs DEF GateWritten, Stages, BuildTypeOK
        <3> QED BY <1>10, <3>1, <3>2
    <2>3. ~Stands(i)'
        BY <2>1, <2>2, Bounds DEF Stands, Remembers, BuildTypeOK
    <2> QED BY <1>1, <1>2, <2>1, <2>3
            DEF NothingYet, Judged, IsJudged, Committed, Stands, Resting
<1>3. CASE Triage(i) \/ ParkAtTriage(i) \/ Spec(i)
    <2>1. /\ stage[i] \in {"queued", "triaged"}
          /\ stage'[i] \in {"triaged", "escalated", "specced", "failed"}
          /\ job'.at \in {"idle", "next"}
        <3>1. /\ stage[i] \in {"queued", "triaged"}
              /\ \/ Raise(i) /\ stage[i] = "triaged"
                 \/ \E s \in {"triaged", "escalated", "specced"} : Done(i, s)
            BY <1>3 DEF Triage, ParkAtTriage, Spec, MayStart
        <3>2. CASE Raise(i) /\ stage[i] = "triaged"
            BY <3>1, <3>2, RaiseIs, RestsAfter DEF BuildTypeOK
        <3>3. CASE \E s \in {"triaged", "escalated", "specced"} : Done(i, s)
            BY <3>1, <3>3, DoneIs, RestsAfter DEF Stages, BuildTypeOK
        <3> QED BY <3>1, <3>2, <3>3
    <2>2. memory'[i].diff = memory[i].diff
        <3>1. \/ memory' = memory
              \/ \E w \in Walls : memory' = [memory EXCEPT ![i].wall = Kept(w)]
            BY <1>3 DEF Triage, ParkAtTriage, Spec
        <3> QED BY <3>1 DEF BuildTypeOK, Memory
    <2>3. armed' = armed
        BY <1>3 DEF Triage, ParkAtTriage, Spec
    <2> QED BY <1>1, <1>2, <2>1, <2>2, <2>3 DEF NothingYet, Judged, Stands, Committed
<1>4. CASE AddSpec(i) \/ CommitSpec(i) \/ OpenSpecPr(i)
    <2>1. /\ stage[i] = "specced" /\ stage'[i] \in {"specced", "spec_ready", "failed"}
          /\ UNCHANGED memory
          /\ job'.at \in {"idle", "next", "spec_added", "spec_committed"}
        BY <1>4, DoneIs, RaiseIs, RestsAfter, GoToIs
        DEF AddSpec, CommitSpec, OpenSpecPr, MayStart, At, StartAt, JobInv, Stages, BuildTypeOK
    <2>2. armed' = armed
        BY <1>4 DEF AddSpec, CommitSpec, OpenSpecPr
    <2> QED BY <1>1, <1>2, <2>1, <2>2 DEF NothingYet, Judged, Stands, Committed, Remembers
<1>5. CASE Prepare(i) \/ Run(i) \/ AddAll(i) \/ ResetLitter(i)
    <2>1. /\ stage[i] = "spec_ready" /\ ~Remembers(i) /\ stage'[i] \in {"spec_ready", "failed"}
          /\ UNCHANGED <<memory, tier>>
          /\ job'.at \notin {"committed", "pushed"}
        <3>1. /\ stage[i] = "spec_ready" /\ ~Remembers(i) /\ UNCHANGED <<memory, tier>>
            BY <1>5 DEF Prepare, Run, AddAll, ResetLitter, MayStart, At, JobInv, Implementing
        <3>2. \/ Raise(i)
              \/ /\ UNCHANGED stage
                 /\ \/ StartAt(i, "prepared")
                    \/ \E from \in Points, to \in {"ran", "added", "staged"} :
                         At(i, from) /\ GoTo(to)
            BY <1>5 DEF Prepare, Run, AddAll, ResetLitter, At, Points
        <3>3. CASE Raise(i)
            BY <3>1, <3>3, RaiseIs DEF NoJob, BuildTypeOK
        <3>4. CASE UNCHANGED stage /\ StartAt(i, "prepared")
            BY <3>1, <3>4 DEF StartAt
        <3>5. CASE /\ UNCHANGED stage
                   /\ \E from \in Points, to \in {"ran", "added", "staged"} :
                        At(i, from) /\ GoTo(to)
            BY <3>1, <3>5, GoToIs
        <3> QED BY <3>2, <3>3, <3>4, <3>5
    <2>2. armed' = armed
        BY <1>5 DEF Prepare, Run, AddAll, ResetLitter
    <2> QED BY <1>2, <2>1, <2>2 DEF NothingYet, Judged, Stands, Committed, Remembers
<1>6. CASE CommitImpl(i) \/ Push(i)
    <2>1. /\ stage[i] = "spec_ready" /\ ~Remembers(i) /\ UNCHANGED <<stage, memory, tier>>
        BY <1>6 DEF CommitImpl, Push, At, JobInv, Implementing
    <2>2. NoCode(i)'
        <3>1. CASE CommitImpl(i)
            BY <3>1 DEF CommitImpl, At, PlaceInv, NoCode, IsLitter
        <3>2. CASE Push(i)
            BY <1>1, <3>2 DEF Push, At, Committed, NoCode
        <3> QED BY <1>6, <3>1, <3>2
    <2>3. armed' = armed
        BY <1>6 DEF CommitImpl, Push
    <2> QED BY <1>2, <2>1, <2>2, <2>3 DEF NothingYet, Judged, Stands, Committed, Remembers
<1>7. CASE Implemented(i)
    <2>1. /\ UNCHANGED <<index, tree, remote, base>> /\ NoCode(i)
          /\ memory'[i].diff = local[i] \ job.from
          /\ base[<<i, "impl">>] = job.from
          /\ remote[<<i, "impl">>] \ {Pushed(i)} \subseteq local[i]
        BY <1>1, <1>7 DEF Implemented, At, PlaceInv, Committed, BuildTypeOK
    <2>2. stage'[i] \in {"implemented", "spec_ready", "failed"}
        BY <1>7, DoneIs, RaiseIs DEF Implemented, At, JobInv, Implementing, Stages, BuildTypeOK
    <2>3. IsJudged(i)' /\ NoCode(i)'
        BY <2>1 DEF IsJudged, NoCode
    <2> QED BY <2>2, <2>3 DEF NothingYet, Judged, Committed
<1>8. CASE ImplementAgain(i)
    <2>1. Stands(i) /\ stage'[i] = "implemented"
        BY <1>8, DoneIs DEF ImplementAgain, MayStart, Stands, Stages, BuildTypeOK
    <2>2. UNCHANGED <<index, tree, remote, base, memory>>
        BY <1>8 DEF ImplementAgain
    <2> QED BY <1>1, <1>2, <2>1, <2>2 DEF NothingYet, Judged, IsJudged, Committed, NoCode
<1>9. CASE Review(i)
    <2>1. /\ stage[i] = "implemented" /\ stage'[i] = "reviewed"
          /\ UNCHANGED <<remote, base, armed>>
          /\ memory'[i].diff = memory[i].diff
          /\ job'.at \in {"idle", "next"}
        BY <1>9, DoneIs, RestsAfter DEF Review, MayStart, Stages, BuildTypeOK, Memory
    <2> QED BY <1>1, <1>2, <2>1 DEF NothingYet, Judged, IsJudged, Committed, Stands
<1> QED BY <1>3, <1>4, <1>5, <1>6, <1>7, <1>8, <1>9, <1>10 DEF Node

LEMMA JudgedStep ==
    ASSUME BuildInv, [Next]_buildVars
    PROVE  JudgedInv' /\ CodeInv'
<1> SUFFICES ASSUME NEW j \in Issues PROVE NothingYet(j)' /\ Judged(j)' /\ Committed(j)'
    BY DEF JudgedInv, CodeInv, NothingYet, Judged, IsJudged, Committed, NoCode
<1> USE JudgedParts DEF BuildInv
<1>1. NothingYet(j) /\ Judged(j) /\ Committed(j)
    OBVIOUS
<1>2. ASSUME NEW i \in Issues, Node(i) PROVE NothingYet(j)' /\ Judged(j)' /\ Committed(j)'
    <2>1. CASE i = j
        BY <1>2, <2>1, JudgedNode
    <2>2. CASE i # j
        <3>1. Others(i) /\ OthersChanges(i) /\ job'.issue # j
            BY <1>2, <2>2, NodeLeavesOthers, NodeLeavesOthersChanges, NodeRuns, Bounds
        <3>2. NoCode(j) => NoCode(j)'
            BY <2>2, <3>1 DEF OthersChanges, NoCode
        <3>3. Stands(j)' <=> Stands(j)
            BY <2>2, <3>1 DEF Others, Stands, Remembers
        <3>4. NothingYet(j)' /\ Judged(j)'
            BY <1>1, <2>2, <3>1, <3>3 DEF Others, NothingYet, Judged, IsJudged
        <3> QED BY <1>1, <3>1, <3>2, <3>3, <3>4 DEF Committed
    <2> QED BY <2>1, <2>2
<1>3. ASSUME NEW i \in Issues, InvokeAgain(i) PROVE NothingYet(j)' /\ Judged(j)' /\ Committed(j)'
    <2>1. UNCHANGED <<job, index, tree, remote, base, forgot, armed>> /\ job = NoJob
        BY <1>3 DEF InvokeAgain, clone
    <2>2. CASE i = j
        <3>1. stage'[j] = "queued" /\ memory'[j].diff = {} /\ (j \in armed => j \in astray')
            BY <1>3, <2>2 DEF InvokeAgain, NoMemory, BuildTypeOK
        <3> QED BY <2>1, <3>1, Bounds DEF NothingYet, Judged, Stands, Committed, NoJob
    <2>3. CASE i # j
        <3>1. /\ stage'[j] = stage[j] /\ memory'[j] = memory[j] /\ tier'[j] = tier[j]
              /\ j \in astray => j \in astray'
            BY <1>3, <2>3 DEF InvokeAgain, BuildTypeOK
        <3> QED BY <1>1, <2>1, <3>1
                DEF NothingYet, Judged, IsJudged, Stands, Remembers, Committed, NoCode
    <2> QED BY <2>2, <2>3
<1>4. ASSUME NEW i \in Issues, OthersPush(i) PROVE NothingYet(j)' /\ Judged(j)' /\ Committed(j)'
    <2>1. UNCHANGED <<job, index, tree, base, forgot, armed, astray, stage, memory, tier>>
        BY <1>4 DEF OthersPush, clone, progress, learned
    <2>2. remote'[<<j, "impl">>] \ {Pushed(j)} \subseteq remote[<<j, "impl">>]
        BY <1>4, BranchesAre DEF OthersPush, BuildTypeOK
    <2>3. IsJudged(j) => IsJudged(j)'
        BY <2>1, <2>2 DEF IsJudged
    <2> QED BY <1>1, <2>1, <2>3 DEF NothingYet, Judged, Stands, Remembers, Committed, NoCode
<1>5. ASSUME Cut \/ Restart PROVE NothingYet(j)' /\ Judged(j)' /\ Committed(j)'
    <2>1. /\ UNCHANGED <<index, tree, remote, base, tier, armed>> /\ job' = NoJob
          /\ stage'[j] = stage[j] \/ stage'[j] = "failed"
          /\ astray \subseteq astray'
        BY <1>5, CutIs DEF Cut, Restart, Raise, clone, github, NoJob
    <2>2. \/ memory'[j] = memory[j] /\ forgot' = forgot
          \/ memory'[j].diff = {} /\ (j \in forgot' \/ memory'[j] = memory[j])
             /\ forgot \subseteq forgot'
        <3>1. CASE Cut
            BY <3>1 DEF Cut, learned
        <3>2. CASE Restart
            <4>1. memory'[j] = NoMemory /\ forgot \subseteq forgot'
                  /\ (memory[j] # NoMemory => j \in forgot')
                BY <3>2 DEF Restart
            <4> QED BY <4>1 DEF NoMemory
        <3> QED BY <1>5, <3>1, <3>2
    <2>3. Stands(j)' => Stands(j)
        BY <2>1, <2>2 DEF Stands, Remembers
    <2>4. NoCode(j) => NoCode(j)'
        BY <2>1 DEF NoCode
    <2>5. NothingYet(j)'
        BY <1>1, <2>1, <2>2 DEF NothingYet
    <2>6. Judged(j)'
        BY <1>1, <2>1, <2>2, <2>3 DEF Judged, IsJudged
    <2>7. Committed(j)'
        BY <1>1, <2>1, <2>3, <2>4, Bounds DEF Committed, NoJob
    <2> QED BY <2>5, <2>6, <2>7
<1>6. CASE UNCHANGED buildVars
    BY <1>1, <1>6 DEF buildVars, clone, github, progress, learned, past,
        NothingYet, Judged, IsJudged, Stands, Remembers, Committed, NoCode
<1> QED BY <1>2, <1>3, <1>4, <1>5, <1>6 DEF Next

-----------------------------------------------------------------------------
(* The theorems *)

LEMMA BuildStep == BuildInv /\ [Next]_buildVars => BuildInv'
BY TypeStep, JobStep, PlaceStep, PushedStep, JudgedStep, EndStep, BarStep DEF BuildInv

LEMMA BuildInit == Init => BuildInv
BY TypeInit, JobInit, PlaceInit, JudgedInit, EndInit DEF BuildInv

LEMMA BuildAlways == BuildSpec => []BuildInv
BY BuildInit, BuildStep, PTL DEF BuildSpec

\* Type correctness of the build graph on the clone, in which the recipes that
\* are run stay within their bound and an issue climbs the ladder neither past
\* its models nor past the escalations allowed (can_retry).
THEOREM BuildGraphTypeOK == BuildSpec => []BuildTypeOK
BY BuildAlways, PTL DEF BuildInv

\* No branch that is pushed carries another issue's change, but where a job that
\* was cut short had left it staged or the branch started from a commit that
\* has it; and no litter of the models, whatever is in the clone when a node
\* starts and wherever a job is cut short (implement.py, spec_pr.py).
THEOREM BuildPushedIsOwn == BuildSpec => []PushedIsOwn
BY BuildAlways, PTL DEF BuildInv

\* Auto-merge is enabled on changes the gate has had before it: the diff that
\* is remembered when an issue is merged is that of the PR, also where the diff
\* stood for a run on a later tick (implement_node, gate_node).
THEOREM BuildArmedIsJudged == BuildSpec => []ArmedIsJudged
<1>1. BuildInv => ArmedIsJudged
    BY DEF BuildInv, JudgedInv, EndInv, ArmedIsJudged, BuildTypeOK
<1> QED BY <1>1, BuildAlways, PTL

\* The ladder acts on its last verdict only, and a gate whose row was not
\* written comes to the same verdict again, so that no issue is both set to
\* merge by itself and handed to a person, but one whose memory was lost between
\* the arm and the row (gate_node's suppress_effects, poller.py:195-219).
THEOREM BuildParkedOrArmed == BuildSpec => []ParkedOrArmed
<1>1. BuildInv => ParkedOrArmed
    BY DEF BuildInv, EndInv, ParkedOrArmed, BuildTypeOK
<1> QED BY <1>1, BuildAlways, PTL

\* A paywall in the excerpt of the spec is missed by the gate only where the
\* excerpt was lost, and invoke merges nothing that is not a product, or that was one by
\* a guess in its first call (decide_gate, decide_surface_gate).
THEOREM BuildBarredNeverArmed == BuildSpec => []BarredNeverArmed
BY BuildAlways, PTL DEF BuildInv

\* A review that is green, and reached the PR's head, has tested every change of
\* the PR and no other code of its issue: all of it was committed, and what
\* others leave in the clone is theirs (run_verification, implement_node).
THEOREM BuildGreenIsOfTheHead == BuildSpec => GreenIsOfTheHead
<1> DEFINE Green ==
      \A i \in Issues :
          stage[i] = "implemented" /\ stage'[i] = "reviewed" /\ memory'[i].tests
          /\ i \notin blind' =>
             /\ remote[<<i, "impl">>] \subseteq tested'[i]
             /\ \A c \in tested'[i] \ remote[<<i, "impl">>] :
                   c.of = i => c.kind # "code"
<1>1. ASSUME BuildInv, [Next]_buildVars, NEW i \in Issues, stage[i] = "implemented",
             stage'[i] = "reviewed", i \notin blind'
      PROVE  /\ remote[<<i, "impl">>] \subseteq tested'[i]
             /\ \A c \in tested'[i] \ remote[<<i, "impl">>] :
                   c.of = i => c.kind # "code"
    <2>1. Review(i)
        <3>1. ASSUME NEW j \in Issues, Node(j) PROVE Review(i)
            <4>1. i = j
                BY <1>1, <3>1, StagesOfOthers DEF BuildInv
            <4>2. CASE \/ AddSpec(i) \/ CommitSpec(i) \/ OpenSpecPr(i) \/ Prepare(i)
                       \/ Run(i) \/ AddAll(i) \/ ResetLitter(i) \/ CommitImpl(i)
                       \/ Push(i) \/ Implemented(i)
                BY <1>1, <4>2 DEF AddSpec, CommitSpec, OpenSpecPr, Prepare, Run, AddAll,
                    ResetLitter, CommitImpl, Push, Implemented, MayStart, At, BuildInv, JobInv,
                    Implementing
            <4>3. CASE \/ Triage(i) \/ ParkAtTriage(i) \/ Spec(i) \/ ImplementAgain(i)
                       \/ Gate(i) \/ GateWritten(i)
                BY <1>1, <4>3 DEF Triage, ParkAtTriage, Spec, ImplementAgain, Gate, GateWritten,
                    MayStart, At, BuildInv, JobInv
            <4> QED BY <3>1, <4>1, <4>2, <4>3 DEF Node
        <3>2. ASSUME NEW j \in Issues, InvokeAgain(j) \/ OthersPush(j) PROVE FALSE
            BY <1>1, <3>2 DEF InvokeAgain, OthersPush, progress, BuildInv, BuildTypeOK
        <3>3. ASSUME Cut \/ Restart PROVE FALSE
            BY <1>1, <3>3, CutIs DEF BuildInv
        <3>4. ASSUME UNCHANGED buildVars PROVE FALSE
            BY <1>1, <3>4 DEF buildVars, progress
        <3> QED BY <1>1, <3>1, <3>2, <3>3, <3>4 DEF Next
    <2>2. tested'[i] = remote[<<i, "impl">>] \union index \union tree
        <3>1. PICK reached, refused, stuck, safe \in BOOLEAN :
                /\ stuck => (~reached \/ refused) /\ MayRefuse(local[i])
                /\ head' = IF stuck THEN head ELSE CheckedOut(i, reached, refused)
                /\ tested' = [tested EXCEPT ![i] =
                                 IF stuck THEN {} ELSE head' \union index \union tree]
                /\ blind' = IF reached /\ ~refused THEN blind \ {i} ELSE blind \union {i}
            BY <2>1 DEF Review
        <3>2. reached /\ ~refused /\ ~stuck
            BY <1>1, <3>1
        <3> QED BY <1>1, <3>1, <3>2 DEF CheckedOut, PrHead, BuildInv, BuildTypeOK
    <2>3. \A c \in index \union tree : c.of = i => c.kind # "code"
        BY <1>1 DEF BuildInv, CodeInv, Stands
    <2> QED BY <2>2, <2>3
<1>2. BuildInv /\ [Next]_buildVars => [Green]_buildVars
    BY <1>1
<1> QED BY <1>2, BuildAlways, PTL DEF BuildSpec, GreenIsOfTheHead
=============================================================================
