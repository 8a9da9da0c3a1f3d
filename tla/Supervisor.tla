------------------------------ MODULE Supervisor ------------------------------
(***************************************************************************)
(* The supervisor rank (supervisor.py) and the cycle that keeps its state  *)
(* (control_loop/__init__.py): the open items are classified, scored by    *)
(* how long they have waited times what they hold up, and the ranking is   *)
(* saved when it differs materially from the saved one.  It recommends     *)
(* and does nothing else.                                                  *)
(*                                                                         *)
(* The numbers of one repository stand for the items.  Snapshot says       *)
(* whether they come with their times and review states: the box's forge   *)
(* has none of these, so every score on the box is 0.                      *)
(***************************************************************************)
EXTENDS Integers, FiniteSets, Sequences

CONSTANTS
    MaxItem,        \* bound: the numbers of the items
    ItemKinds,      \* what an item may look like
    Snapshot,       \* the items come from a snapshot, not from the forge
    Action,         \* the allowlisted action the taxonomy recommends for a stage, or "none"
    MaxHours,       \* bound: hours that pass
    MaxShifts,      \* bound: items that come, go or change
    MaxRankFaults   \* bound: loads and saves that fail

MatchOrder == <<"revenue", "verify", "review", "build", "spec", "triage">>
RankStages == {"triage", "spec", "build", "review", "merge", "verify", "revenue",
               "unknown"}

ASSUME SupervisorAssumption ==
    /\ MaxItem \in Nat /\ Snapshot \in BOOLEAN /\ DOMAIN Action = RankStages
    /\ MaxHours \in Nat /\ MaxShifts \in Nat /\ MaxRankFaults \in Nat
    \* human: labelled needs-human; spec: titled "spec:"; ready: an approved PR
    \* that may be merged; copilot: labelled copilot-triaging; matches: the rules
    \* of the taxonomy that apply.
    /\ ItemKinds \subseteq [human: BOOLEAN, spec: BOOLEAN, ready: BOOLEAN,
                            copilot: BOOLEAN,
                            matches: SUBSET (RankStages \ {"unknown", "merge"})]

VARIABLES
    items,          \* the open items: stage, whether labelled copilot-triaging, and
                    \* createdAt and updatedAt in hours
    hour,           \* now
    rankRow,        \* supervisor-rank in the box store
    ranked,         \* history: the top three of the last cycle that kept its state
    shifts, rankFaults

supervisorVars == <<items, hour, rankRow, ranked, shifts, rankFaults>>

NoState == [top |-> <<>>, changed |-> FALSE, run |-> 0, fingerprint |-> <<>>]

SupervisorInit ==
    /\ items = [n \in {} |-> 0] /\ hour = 0
    /\ rankRow = NoState /\ ranked = <<>>
    /\ shifts = 0 /\ rankFaults = 0

-----------------------------------------------------------------------------
(* rank_clogs *)

\* classify_stage: three overrides, then the first rule that matches.
StageOf(kind) ==
    LET first == {k \in 1..6 : /\ MatchOrder[k] \in kind.matches
                               /\ \A j \in 1..(k - 1) : MatchOrder[j] \notin kind.matches}
    IN  IF kind.human THEN "review"
        ELSE IF kind.spec THEN "spec"
        ELSE IF kind.ready /\ Snapshot THEN "merge"
        ELSE IF first = {} THEN "unknown"
        ELSE MatchOrder[CHOOSE k \in first : TRUE]

Created(n) == IF Snapshot THEN items[n].created ELSE 0

\* What waits for copilot's triage waits since it was last touched.
Dwell(n) ==
    IF ~Snapshot THEN 0
    ELSE hour - IF items[n].stage = "triage" /\ items[n].copilot THEN items[n].updated
                                                                ELSE items[n].created

\* What a clog at a stage holds up: at least itself, and nothing when unknown.
Behind(s) == IF s = "spec" THEN {"build"}
             ELSE IF s = "triage" THEN {"spec", "build", "review"}
             ELSE IF s = "merge" THEN {"merge"} ELSE {}
Blocked(s) ==
    LET held == Cardinality({m \in DOMAIN items : items[m].stage \in Behind(s)})
    IN  IF s = "unknown" THEN 0 ELSE IF held > 1 THEN held ELSE 1

Rankable == {n \in DOMAIN items : items[n].stage # "unknown"}
Score(n) == Dwell(n) * Blocked(items[n].stage)

\* The highest score first, then what was created first, then by number; without
\* times all are created alike.
Above(m, n) == \/ Score(m) > Score(n)
               \/ /\ Score(m) = Score(n)
                  /\ \/ Created(m) < Created(n)
                     \/ Created(m) = Created(n) /\ m < n
Place(n) == 1 + Cardinality({m \in Rankable : Above(m, n)})
Order == [r \in 1..Cardinality(Rankable) |-> CHOOSE n \in Rankable : Place(n) = r]

-----------------------------------------------------------------------------
(* build_state, and the cycle *)

Summary == [s \in RankStages |-> Cardinality({n \in DOMAIN items : items[n].stage = s})]

Leading(order, k) == SubSeq(order, 1, IF Len(order) < k THEN Len(order) ELSE k)

\* Fault: the numbers of the items are not part of it.
FingerprintOfStages(order) == <<Summary>>

\* material_fingerprint: the top three, the summary, and the top five's actions.
Fingerprint(order) ==
    <<Leading(order, 3), Summary,
      [r \in DOMAIN Leading(order, 5) |-> <<order[r], Action[items[order[r]].stage]>>]>>

\* A load that fails is no previous state; the state is saved when its
\* fingerprint is not the loaded one, nor that in the store; a save that fails
\* is logged.
Rank ==
    LET order == Order
        top == Leading(order, 3)
        fingerprint == Fingerprint(order)
    IN  \E found \in {rankRow, NoState}, fails \in BOOLEAN :
           LET faults == (IF found = rankRow THEN 0 ELSE 1) + (IF fails THEN 1 ELSE 0)
               material == fingerprint # found.fingerprint
           IN  /\ fails => material
               /\ rankFaults + faults <= MaxRankFaults /\ rankFaults' = rankFaults + faults
               /\ rankRow' = IF material /\ ~fails /\ fingerprint # rankRow.fingerprint
                             THEN [top |-> top,
                                   changed |-> found.top # <<>> /\ found.top # top,
                                   run |-> found.run + 1,
                                   fingerprint |-> fingerprint]
                             ELSE rankRow
               /\ ranked' = IF fails THEN ranked ELSE top
               /\ UNCHANGED <<items, hour, shifts>>

-----------------------------------------------------------------------------
(* The world *)

Shift == shifts < MaxShifts /\ shifts' = shifts + 1
         /\ UNCHANGED <<hour, rankRow, ranked, rankFaults>>

\* An item is opened; labelled, retitled or approved; or closed.
Appears == \E n \in 1..MaxItem, k \in ItemKinds :
    /\ n \notin DOMAIN items /\ Shift
    /\ items' = [m \in DOMAIN items \cup {n} |->
                    IF m = n THEN [stage |-> StageOf(k), copilot |-> k.copilot,
                                   created |-> hour, updated |-> hour]
                    ELSE items[m]]
Turns == \E n \in DOMAIN items, k \in ItemKinds :
    /\ Shift
    /\ items' = [items EXCEPT ![n].stage = StageOf(k), ![n].copilot = k.copilot,
                             ![n].updated = hour]
    /\ items' # items
Leaves == \E n \in DOMAIN items :
    /\ Shift
    /\ items' = [m \in DOMAIN items \ {n} |-> items[m]]

HourPasses == /\ hour < MaxHours /\ hour' = hour + 1
              /\ UNCHANGED <<items, rankRow, ranked, shifts, rankFaults>>

SupervisorNext == Rank \/ Appears \/ Turns \/ Leaves \/ HourPasses
SupervisorSpec == SupervisorInit /\ [][SupervisorNext]_supervisorVars

-----------------------------------------------------------------------------
(* Properties *)

SupervisorTypeOK ==
    /\ DOMAIN items \subseteq 1..MaxItem
    /\ \A n \in DOMAIN items : items[n] \in [stage: RankStages, copilot: BOOLEAN,
                                               created: 0..hour, updated: 0..hour]
    /\ hour \in 0..MaxHours
    /\ rankRow.top \in Seq(1..MaxItem) /\ rankRow.changed \in BOOLEAN /\ rankRow.run \in Nat
    /\ ranked \in Seq(1..MaxItem)
    /\ shifts \in 0..MaxShifts /\ rankFaults \in 0..MaxRankFaults

\* What the saved state says of the top three is what the last cycle found, and
\* when that is not what the cycle before it found, it says so: nothing is lost
\* by saving only what differs materially, unless a load or a save failed.
RankChangeIsTold ==
    [][ranked' # ranked =>
          \/ rankFaults' > rankFaults
          \/ rankRow'.top = ranked' /\ (ranked # <<>> => rankRow'.changed)]_supervisorVars
===============================================================================
