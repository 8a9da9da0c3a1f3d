-------------------------- MODULE ClaimQueueProofs --------------------------
(***************************************************************************)
(* Type correctness of the claim order and NoOvertaking, for any set of    *)
(* issues, any listing of them and any number of requeues.                 *)
(*                                                                         *)
(* The order of updated_at stays a strict total order of the rows because  *)
(* a pass writes the rows it renews in the order of its listing.  A row    *)
(* that was claimed over the head of i since i was last written has been   *)
(* written since (PassedInv), so i comes first the next time.              *)
(***************************************************************************)
EXTENDS ClaimQueue, TLAPS

\* Only a failed row has spent its attempts, so a back-off is one of the first
\* two cooldowns.
SpentInv == \A i \in Issues : row[i].attempts = MaxAttempts => row[i].stage = "failed"

\* What has been claimed since i was last written was written later than i.
PassedInv ==
  mode # "shadow" =>
    \A i, j \in Issues : i \in Rows /\ j \in passed[i] /\ j # i => <<i, j>> \in older

QueueInv == TypeOK /\ SpentInv /\ PassedInv

-----------------------------------------------------------------------------
(* The order                                                               *)

\* Every two issues of the listing are written one before the other.
LEMMA BeforeIsTotal ==
  /\ \A i \in Issues : ~Before(i, i)
  /\ \A i, j \in Issues : i # j => Before(i, j) \/ Before(j, i)
  /\ \A i, j, k \in Issues : Before(i, j) /\ Before(j, k) => Before(i, k)
<1> USE QueueAssumption
<1>0. /\ DOMAIN Listing = 1..Len(Listing)  /\ Len(Listing) \in Nat
      /\ \A a, b \in DOMAIN Listing : Listing[a] = Listing[b] => a = b
      /\ \A i \in Issues : \E a \in DOMAIN Listing : Listing[a] = i
  <2>1. Listing \in Seq(Issues)
    OBVIOUS
  <2>2. DOMAIN Listing = 1..Len(Listing) /\ Len(Listing) \in Nat
    BY <2>1
  <2>3. \A a, b \in DOMAIN Listing : Listing[a] = Listing[b] => a = b
    BY DEF IsInjective
  <2>4. \A i \in Issues : \E a \in DOMAIN Listing : Listing[a] = i
    BY <2>2 DEF ToSet
  <2> QED BY <2>2, <2>3, <2>4
<1>1. \A i \in Issues : ~Before(i, i)
  BY <1>0 DEF Before
<1>2. ASSUME NEW i \in Issues, NEW j \in Issues, i # j
      PROVE Before(i, j) \/ Before(j, i)
  <2>1. PICK a \in DOMAIN Listing, b \in DOMAIN Listing : Listing[a] = i /\ Listing[b] = j
    BY <1>0
  <2>2. a # b /\ a \in Int /\ b \in Int
    BY <2>1, <1>2, <1>0
  <2>3. a < b \/ b < a
    BY <2>2
  <2> QED BY <2>1, <2>3 DEF Before
<1>3. ASSUME NEW i \in Issues, NEW j \in Issues, NEW k \in Issues, Before(i, j), Before(j, k)
      PROVE Before(i, k)
  <2>1. PICK a \in DOMAIN Listing, b \in DOMAIN Listing :
          a < b /\ Listing[a] = i /\ Listing[b] = j
    BY <1>3 DEF Before
  <2>2. PICK c \in DOMAIN Listing, d \in DOMAIN Listing :
          c < d /\ Listing[c] = j /\ Listing[d] = k
    BY <1>3 DEF Before
  <2>3. b = c
    BY <2>1, <2>2, <1>0
  <2>4. a < d
    BY <2>1, <2>2, <2>3, <1>0
  <2> QED BY <2>1, <2>2, <2>4 DEF Before
<1> QED BY <1>1, <1>2, <1>3

\* Renewing rows, new ones among them, leaves a strict total order.
LEMMA RenewedIsOrder ==
  ASSUME NEW R, NEW S \in SUBSET Issues, NEW new \in SUBSET Issues, Orders(R, S)
  PROVE  Orders(RenewedOrder(R, S, new), S \cup new)
<1> DEFINE T == RenewedOrder(R, S, new)
<1>0. \A i, j : <<i, j>> \in T <=>
        \/ <<i, j>> \in R /\ i \notin new /\ j \notin new
        \/ i \in S \ new /\ j \in new
        \/ i \in new /\ j \in new /\ Before(i, j)
  BY DEF RenewedOrder
<1>1. \A p \in T : p \in (S \cup new) \X (S \cup new)
  BY DEF RenewedOrder, Orders
<1>r. /\ \A i, j : <<i, j>> \in R => i \in S /\ j \in S
      /\ \A i \in S : <<i, i>> \notin R
      /\ \A i, j \in S : i # j => <<i, j>> \in R \/ <<j, i>> \in R
      /\ \A i, j, k \in S : <<i, j>> \in R /\ <<j, k>> \in R => <<i, k>> \in R
  BY DEF Orders
<1> HIDE DEF T
<1>2. \A i \in S \cup new : <<i, i>> \notin T
  BY <1>0, <1>r, BeforeIsTotal
<1>3. \A i, j \in S \cup new : i # j => <<i, j>> \in T \/ <<j, i>> \in T
  BY <1>0, <1>r, BeforeIsTotal
<1>4. ASSUME NEW i \in S \cup new, NEW j \in S \cup new, NEW k \in S \cup new,
             <<i, j>> \in T, <<j, k>> \in T
      PROVE <<i, k>> \in T
  <2>1. CASE k \in new /\ i \in new
    BY <2>1, <1>4, <1>0, BeforeIsTotal
  <2>2. CASE k \in new /\ i \notin new
    BY <2>2, <1>4, <1>0
  <2>3. CASE k \notin new
    BY <2>3, <1>4, <1>0, <1>r
  <2> QED BY <2>1, <2>2, <2>3
<1>5. Orders(T, S \cup new)
  BY <1>1, <1>2, <1>3, <1>4 DEF Orders
<1> QED BY <1>5 DEF T

\* A write of the rows in W that forgets what passed them keeps the order, the
\* ages and PassedInv.
LEMMA RenewKeeps ==
  ASSUME QueueInv, NEW W \in SUBSET Issues, Renew(W), mode' = mode,
         Rows' = Rows \cup W,
         passed' \in [Issues -> SUBSET Issues],
         \A k \in Issues : passed'[k] \subseteq IF k \in W THEN {} ELSE passed[k] \cup W
  PROVE  Orders(older', Rows') /\ age' \in [Issues -> 0..Cooldown(MaxAttempts - 1)] /\ PassedInv'
<1>1. Orders(older', Rows')
  <2>1. Rows \in SUBSET Issues /\ Orders(older, Rows)
    BY DEF QueueInv, TypeOK, Rows
  <2>2. older' = RenewedOrder(older, Rows, W)
    BY DEF Renew
  <2> QED BY <2>1, <2>2, RenewedIsOrder
<1>2. age' \in [Issues -> 0..Cooldown(MaxAttempts - 1)]
  BY DEF QueueInv, TypeOK, Renew, Cooldown, MaxAttempts
<1>3. ASSUME mode' # "shadow", NEW i \in Issues, NEW j \in Issues,
             i \in Rows', j \in passed'[i], j # i
      PROVE <<i, j>> \in older'
  <2>1. i \notin W /\ i \in Rows
    BY <1>3
  <2>2. CASE j \in W
    BY <2>1, <2>2 DEF Renew, RenewedOrder
  <2>3. CASE j \notin W
    <3>1. j \in passed[i]
      BY <2>1, <2>3, <1>3
    <3>2. <<i, j>> \in older
      BY <3>1, <2>1, <1>3 DEF QueueInv, PassedInv
    <3> QED BY <3>2, <2>1, <2>3 DEF Renew, RenewedOrder
  <2> QED BY <2>2, <2>3
<1> QED BY <1>1, <1>2, <1>3 DEF PassedInv

-----------------------------------------------------------------------------
(* The actions                                                             *)

RowType == [stage : Stages \cup {Absent}, attempts : 0..MaxAttempts]

\* A failure is counted, and fails the row exactly when it was the last one.
LEMMA BumpAttemptRow ==
  ASSUME NEW r \in RowType, r.stage \in Stages \ TerminalStages, r.attempts # MaxAttempts
  PROVE  /\ BumpAttempt(r) \in RowType /\ BumpAttempt(r).stage # Absent
         /\ BumpAttempt(r).attempts = MaxAttempts => BumpAttempt(r).stage = "failed"
<1> DEFINE n == r.attempts + 1
           s == IF n >= MaxAttempts THEN "failed" ELSE r.stage
<1>1. n \in 0..MaxAttempts /\ (n = MaxAttempts => s = "failed")
  BY DEF RowType, MaxAttempts
<1>2. s \in Stages \cup {Absent} /\ s # Absent
  BY DEF Stages, Absent
<1>3. BumpAttempt(r) = [r EXCEPT !.attempts = n, !.stage = s]
  BY DEF BumpAttempt
<1> HIDE DEF n, s
<1>4. BumpAttempt(r).attempts = n /\ BumpAttempt(r).stage = s
  BY <1>3 DEF RowType
<1>5. BumpAttempt(r) \in RowType
  BY <1>1, <1>2, <1>3 DEF RowType
<1> QED BY <1>1, <1>2, <1>4, <1>5

LEMMA RequeueFailedRow ==
  ASSUME NEW r \in RowType
  PROVE  /\ RequeueFailed(r, "spec_ready") \in RowType
         /\ RequeueFailed(r, "spec_ready").stage = "spec_ready"
         /\ RequeueFailed(r, "spec_ready").attempts = 0
<1>1. "spec_ready" \in Stages /\ 0 \in 0..MaxAttempts
  BY DEF Stages, MaxAttempts
<1> QED BY <1>1 DEF RequeueFailed, RowType

LEMMA StageFacts ==
  /\ Absent \notin Stages
  /\ ActionableStages \cup {"spec_opened"} = Stages \ TerminalStages
  /\ TerminalStages \subseteq Stages
  /\ \A s \in Stages : Successors[s] \subseteq Stages \ {"failed"}
BY DEF Stages, TerminalStages, ActionableStages, Successors, Absent

\* The types that no action but an operator's or a pass' touches stay apart from
\* those of the rows.
LEMMA RowsPreserved ==
  ASSUME QueueInv, Next,
         row' \in [Issues -> RowType], SpentInv',
         Orders(older', Rows'), age' \in [Issues -> 0..Cooldown(MaxAttempts - 1)],
         passed' \in [Issues -> SUBSET Issues], PassedInv',
         mode' = mode, tags' \in [Issues -> SUBSET Tags], filed' \in SUBSET Issues,
         pr' \in [Issues -> {"none", "open", "merged", "closed"}],
         claiming' \in BOOLEAN, claimed' \in Issues \cup {NoIssue},
         requeues' \in 0..MaxRequeues
  PROVE  QueueInv'
BY DEF QueueInv, TypeOK, RowType

\* A claimed row is in flight and has a failure to spare.
LEMMA ClaimedRow ==
  ASSUME QueueInv, NEW i \in Issues, Claim(i)
  PROVE  /\ i \in Rows
         /\ row[i].stage \in Stages \ TerminalStages
         /\ row[i].attempts \in 0..(MaxAttempts - 1)
         /\ claiming' \in BOOLEAN /\ claimed' \in Issues
<1>1. row[i].stage \in Stages \ TerminalStages
  BY StageFacts DEF Claim, NextIs, Claimable, ClaimStages
<1>2. row[i].attempts \in 0..MaxAttempts
  BY DEF QueueInv, TypeOK
<1>3. row[i].attempts # MaxAttempts
  BY <1>1 DEF QueueInv, SpentInv, TerminalStages
<1>4. row[i].attempts \in 0..(MaxAttempts - 1)
  BY <1>2, <1>3 DEF MaxAttempts
<1>5. i \in Rows
  BY <1>1, StageFacts DEF Rows
<1>6. claiming' \in BOOLEAN /\ claimed' \in Issues
  BY DEF Claim
<1> QED BY <1>1, <1>4, <1>5, <1>6

\* A stage writes the row it has claimed.
LEMMA WriteKeeps ==
  ASSUME QueueInv, NEW i \in Issues, Claim(i), NEW r \in RowType, Write(i, r), mode' = mode,
         r.stage # Absent, r.attempts = MaxAttempts => r.stage = "failed"
  PROVE  /\ row' \in [Issues -> RowType] /\ SpentInv'
         /\ Orders(older', Rows') /\ age' \in [Issues -> 0..Cooldown(MaxAttempts - 1)]
         /\ passed' \in [Issues -> SUBSET Issues] /\ PassedInv'
<1>1. row \in [Issues -> RowType] /\ row' = [row EXCEPT ![i] = r]
  BY DEF QueueInv, TypeOK, RowType, Write
<1>2. row' \in [Issues -> RowType]
  BY <1>1
<1>3. SpentInv'
  BY <1>1 DEF QueueInv, SpentInv
<1>4. Rows' = Rows \cup {i}
  BY <1>1 DEF Rows
<1>5. passed' \in [Issues -> SUBSET Issues]
  BY DEF QueueInv, TypeOK, Write
<1>6. \A k \in Issues : passed'[k] \subseteq IF k \in {i} THEN {} ELSE passed[k] \cup {i}
  BY DEF Write
<1>7. Renew({i})
  BY DEF Write
<1> QED BY <1>2, <1>3, <1>4, <1>5, <1>6, <1>7, RenewKeeps

LEMMA WritePreserves ==
  ASSUME QueueInv, Next, NEW i \in Issues, Claim(i), NEW r \in RowType, Write(i, r),
         r.stage # Absent, r.attempts = MaxAttempts => r.stage = "failed",
         mode' = mode, tags' \in [Issues -> SUBSET Tags], filed' = filed,
         pr' \in [Issues -> {"none", "open", "merged", "closed"}], requeues' = requeues
  PROVE  QueueInv'
<1>1. filed' \in SUBSET Issues /\ requeues' \in 0..MaxRequeues
  BY DEF QueueInv, TypeOK
<1> QED BY <1>1, WriteKeeps, ClaimedRow, RowsPreserved

\* A write that keeps the attempts and leaves the pipeline nowhere but forward.
LEMMA SetStageRow ==
  ASSUME QueueInv, NEW i \in Issues, Claim(i), NEW s \in Stages
  PROVE  LET r == SetStage(row[i], s)
         IN  r \in RowType /\ r.stage # Absent /\ r.attempts # MaxAttempts
<1>1. row[i] \in RowType
  BY DEF QueueInv, TypeOK, RowType
<1> QED BY <1>1, ClaimedRow, StageFacts DEF SetStage, RowType, MaxAttempts

LEMMA WorkPreserves ==
  ASSUME QueueInv, Next, NEW i \in Issues, Work(i)
  PROVE  QueueInv'
<1> USE StageFacts
<1>t. /\ tags \in [Issues -> SUBSET Tags] /\ pr \in [Issues -> {"none", "open", "merged", "closed"}]
      /\ row[i] \in RowType /\ filed \in SUBSET Issues /\ requeues \in 0..MaxRequeues
  BY DEF QueueInv, TypeOK, RowType
<1>1. CASE DoStage(i)
  <2>1. PICK to \in Successors[row[i].stage] : Write(i, SetStage(row[i], to))
    BY <1>1 DEF DoStage
  <2>2. Claim(i) /\ mode' = mode /\ tags' = tags /\ filed' = filed /\ pr' = pr /\ requeues' = requeues
    BY <1>1 DEF DoStage
  <2>3. to \in Stages
    BY <2>1, <2>2, ClaimedRow
  <2> QED BY <1>t, <2>1, <2>2, <2>3, SetStageRow, WritePreserves
<1>2. CASE OpenSpecPr(i)
  <2>1. PICK s \in {"spec_opened", "spec_ready"} : Write(i, SetStage(row[i], s))
    BY <1>2 DEF OpenSpecPr
  <2>2. Claim(i) /\ mode' = mode /\ filed' = filed /\ pr' = pr /\ requeues' = requeues
    BY <1>2 DEF OpenSpecPr
  <2>3. tags' \in [Issues -> SUBSET Tags]
    BY <1>2, <1>t DEF OpenSpecPr, Tags
  <2>4. s \in Stages
    BY DEF Stages
  <2> QED BY <1>t, <2>1, <2>2, <2>3, <2>4, SetStageRow, WritePreserves
<1>3. CASE OpenImplPr(i)
  <2>1. Claim(i) /\ Write(i, SetStage(row[i], "implemented")) /\ mode' = mode /\ tags' = tags
        /\ filed' = filed /\ requeues' = requeues
    BY <1>3 DEF OpenImplPr
  <2>2. pr' \in [Issues -> {"none", "open", "merged", "closed"}]
    BY <1>3, <1>t DEF OpenImplPr
  <2>3. "implemented" \in Stages
    BY DEF Stages
  <2> QED BY <1>t, <2>1, <2>2, <2>3, SetStageRow, WritePreserves
<1>4. CASE ParkIssue(i)
  <2>1. Claim(i) /\ Write(i, SetStage(row[i], "escalated")) /\ mode' = mode /\ tags' = tags
        /\ filed' = filed /\ pr' = pr /\ requeues' = requeues
    BY <1>4 DEF ParkIssue
  <2>2. "escalated" \in Stages
    BY DEF Stages
  <2> QED BY <1>t, <2>1, <2>2, SetStageRow, WritePreserves
<1>5. CASE FinishMerged(i)
  <2>1. Claim(i) /\ Write(i, SetStage(row[i], "merged")) /\ mode' = mode /\ tags' = tags
        /\ filed' = filed /\ pr' = pr /\ requeues' = requeues
    BY <1>5 DEF FinishMerged
  <2>2. "merged" \in Stages
    BY DEF Stages
  <2> QED BY <1>t, <2>1, <2>2, SetStageRow, WritePreserves
<1>6. CASE PollOpenPr(i)
  <2>1. Claim(i) /\ Write(i, row[i]) /\ mode' = mode /\ tags' = tags
        /\ filed' = filed /\ pr' = pr /\ requeues' = requeues
    BY <1>6 DEF PollOpenPr
  <2>2. row[i].stage # Absent /\ row[i].attempts # MaxAttempts
    BY <2>1, ClaimedRow DEF MaxAttempts
  <2> QED BY <1>t, <2>1, <2>2, WritePreserves
<1>7. CASE StageFails(i)
  <2>1. Claim(i) /\ Write(i, BumpAttempt(row[i])) /\ mode' = mode
        /\ filed' = filed /\ pr' = pr /\ requeues' = requeues
    BY <1>7 DEF StageFails
  <2>2. tags' \in [Issues -> SUBSET Tags]
    BY <1>7, <1>t DEF StageFails
  <2>3. /\ BumpAttempt(row[i]) \in RowType /\ BumpAttempt(row[i]).stage # Absent
        /\ BumpAttempt(row[i]).attempts = MaxAttempts => BumpAttempt(row[i]).stage = "failed"
    <3>1. row[i].stage \in Stages \ TerminalStages /\ row[i].attempts # MaxAttempts
      BY <2>1, ClaimedRow DEF MaxAttempts
    <3> QED BY <1>t, <3>1, BumpAttemptRow
  <2> QED BY <1>t, <2>1, <2>2, <2>3, WritePreserves
<1>8. CASE HoldInShadow(i)
  <2>1. /\ mode = "shadow" /\ Claim(i)
        /\ UNCHANGED <<mode, row, older, age, tags, filed, pr, requeues>>
        /\ passed' = [j \in Issues |-> passed[j] \cup {i}]
    BY <1>8 DEF HoldInShadow, Held
  <2>2. passed' \in [Issues -> SUBSET Issues] /\ PassedInv'
    BY <2>1 DEF QueueInv, TypeOK, PassedInv
  <2> QED BY <2>1, <2>2, ClaimedRow DEF QueueInv, TypeOK, SpentInv, Rows
<1> QED BY <1>1, <1>2, <1>3, <1>4, <1>5, <1>6, <1>7, <1>8 DEF Work

\* A pass writes the rows it meets and renews, and nothing else of the store.
LEMMA PassPreserves ==
  ASSUME QueueInv, Next, NEW n \in Nat, n \in 0..Len(Listing), NEW found, NEW cleared,
         Pass(n, found, cleared), claiming' \in BOOLEAN
  PROVE  QueueInv'
<1> DEFINE met     == filed \cap {Listing[k] : k \in 1..n}
           written == {i \in met : Renews(i) /\ (row[i].stage = Absent /\ tags[i] = {} => i \in found)}
           beyond  == {i \in met : InFlight(i) /\ row[i].stage # "queued"}
<1>1. /\ row' = [i \in Issues |-> IF i \in written /\ row[i].stage = Absent
                                    THEN SetStage(row[i], "queued") ELSE row[i]]
      /\ Renew(written)
      /\ passed' = [i \in Issues |-> IF i \in written THEN {} ELSE passed[i]]
      /\ tags' = [i \in Issues |-> IF i \in beyond \cap cleared /\ mode # "shadow"
                                     THEN tags[i] \ {"needs-triage"} ELSE tags[i]]
      /\ claimed' = NoIssue
      /\ UNCHANGED <<mode, filed, pr, requeues>>
  BY DEF Pass
<1>2. written \in SUBSET Issues /\ \A i \in written : Renews(i)
  BY DEF QueueInv, TypeOK
<1> HIDE DEF met, written, beyond
<1>3. row \in [Issues -> RowType] /\ \A i \in Issues : row[i].stage = Absent => row[i].attempts # MaxAttempts
  BY DEF QueueInv, TypeOK, SpentInv, RowType, Absent
<1>4. row' \in [Issues -> RowType]
  BY <1>1, <1>3 DEF SetStage, RowType, Stages
<1>5. SpentInv'
  BY <1>1, <1>3 DEF QueueInv, SpentInv, SetStage, RowType
<1>6. Rows' = Rows \cup written
  <2>1. \A i \in Issues : row'[i].stage # Absent <=> row[i].stage # Absent \/ i \in written
    BY <1>1, <1>3 DEF SetStage, RowType, Absent
  <2> QED BY <2>1, <1>2 DEF Rows
<1>7. passed' \in [Issues -> SUBSET Issues]
  BY <1>1 DEF QueueInv, TypeOK
<1>8. \A k \in Issues : passed'[k] \subseteq IF k \in written THEN {} ELSE passed[k] \cup written
  BY <1>1
<1>9. Orders(older', Rows') /\ age' \in [Issues -> 0..Cooldown(MaxAttempts - 1)] /\ PassedInv'
  BY <1>1, <1>2, <1>6, <1>7, <1>8, RenewKeeps
<1>10. tags' \in [Issues -> SUBSET Tags]
  BY <1>1 DEF QueueInv, TypeOK
<1>11. /\ filed' \in SUBSET Issues /\ pr' \in [Issues -> {"none", "open", "merged", "closed"}]
       /\ requeues' \in 0..MaxRequeues
  BY <1>1 DEF QueueInv, TypeOK
<1> QED BY <1>1, <1>4, <1>5, <1>7, <1>9, <1>10, <1>11, RowsPreserved

LEMMA RequeuePreserves ==
  ASSUME QueueInv, Next, RequeueFailedMain
  PROVE  QueueInv'
<1>1. PICK i \in Issues :
        /\ row[i].stage = "failed"
        /\ row' = [row EXCEPT ![i] = RequeueFailed(@, "spec_ready")]
        /\ Renew({i})
        /\ passed' = [passed EXCEPT ![i] = {}]
  BY DEF RequeueFailedMain
<1>2. /\ requeues > 0 /\ requeues' = requeues - 1
      /\ UNCHANGED <<mode, tags, filed, pr, claiming, claimed>>
  BY DEF RequeueFailedMain
<1>3. row \in [Issues -> RowType] /\ row[i] \in RowType
  BY DEF QueueInv, TypeOK, RowType
<1> DEFINE r == RequeueFailed(row[i], "spec_ready")
<1>4. row' = [row EXCEPT ![i] = r] /\ r \in RowType /\ r.stage # Absent /\ r.attempts # MaxAttempts
  BY <1>1, <1>3, RequeueFailedRow DEF MaxAttempts, Absent
<1> HIDE DEF r
<1>5. row' \in [Issues -> RowType]
  BY <1>3, <1>4
<1>6. SpentInv'
  BY <1>3, <1>4 DEF QueueInv, SpentInv
<1>7. Rows' = Rows \cup {i}
  BY <1>3, <1>4 DEF Rows
<1>8. passed' \in [Issues -> SUBSET Issues]
  BY <1>1 DEF QueueInv, TypeOK
<1>9. \A k \in Issues : passed'[k] \subseteq IF k \in {i} THEN {} ELSE passed[k] \cup {i}
  BY <1>1 DEF QueueInv, TypeOK
<1>10. Orders(older', Rows') /\ age' \in [Issues -> 0..Cooldown(MaxAttempts - 1)] /\ PassedInv'
  BY <1>1, <1>2, <1>7, <1>8, <1>9, RenewKeeps
<1>11. /\ tags' \in [Issues -> SUBSET Tags] /\ filed' \in SUBSET Issues
       /\ pr' \in [Issues -> {"none", "open", "merged", "closed"}]
       /\ claiming' \in BOOLEAN /\ claimed' \in Issues \cup {NoIssue}
       /\ requeues' \in 0..MaxRequeues
  BY <1>2, QueueAssumption DEF QueueInv, TypeOK
<1> QED BY <1>2, <1>5, <1>6, <1>8, <1>10, <1>11, RowsPreserved

\* A back-off that has not run out is of a row with a failure to spare.
LEMMA ElapsePreserves ==
  ASSUME QueueInv, Elapse
  PROVE  QueueInv'
<1>1. \A i \in Issues : BacksOff(i) => age[i] \in Nat /\ age[i] < 2
  <2> SUFFICES ASSUME NEW i \in Issues, BacksOff(i)  PROVE age[i] \in Nat /\ age[i] < 2
    OBVIOUS
  <2>1. row[i].attempts \in 0..MaxAttempts /\ row[i].attempts # MaxAttempts
    BY DEF QueueInv, TypeOK, SpentInv, BacksOff, InFlight, TerminalStages
  <2>2. Cooldown(row[i].attempts) \in 0..2
    BY <2>1 DEF Cooldown, MaxAttempts
  <2>3. age[i] \in 0..2 /\ age[i] < Cooldown(row[i].attempts)
    BY DEF QueueInv, TypeOK, BacksOff, Cooldown, MaxAttempts
  <2> QED BY <2>2, <2>3
<1>2. Cooldown(MaxAttempts - 1) = 2
  BY DEF Cooldown, MaxAttempts
<1>3. age' \in [Issues -> 0..Cooldown(MaxAttempts - 1)]
  <2>1. \A i \in Issues : age[i] \in 0..2
    BY <1>2 DEF QueueInv, TypeOK
  <2>2. age' = [i \in Issues |-> IF BacksOff(i) THEN age[i] + 1 ELSE age[i]]
    BY DEF Elapse
  <2> HIDE DEF BacksOff
  <2>3. \A i \in Issues : (IF BacksOff(i) THEN age[i] + 1 ELSE age[i]) \in 0..2
    BY <1>1, <2>1
  <2> QED BY <1>2, <2>2, <2>3
<1> QED BY <1>3 DEF Elapse, QueueInv, TypeOK, SpentInv, PassedInv, Rows

-----------------------------------------------------------------------------
(* The theorems                                                            *)

LEMMA QueueInit == Init => QueueInv
<1> SUFFICES ASSUME Init PROVE QueueInv
  OBVIOUS
<1>1. Rows = {} /\ Orders(older, Rows)
  BY DEF Init, Rows, Orders
<1>2. 0 \in 0..MaxAttempts /\ 0 \in 0..Cooldown(MaxAttempts - 1)
  BY DEF MaxAttempts, Cooldown
<1>3. TypeOK
  <2>1. row \in [Issues -> [stage : Stages \cup {Absent}, attempts : 0..MaxAttempts]]
    BY <1>2 DEF Init
  <2>2. age \in [Issues -> 0..Cooldown(MaxAttempts - 1)]
    BY <1>2 DEF Init
  <2>3. tags \in [Issues -> SUBSET Tags]
    BY DEF Init, Tags
  <2>4. mode \in Modes /\ filed \in SUBSET Issues /\ claiming \in BOOLEAN
        /\ claimed \in Issues \cup {NoIssue}
    BY DEF Init
  <2>r. requeues \in 0..MaxRequeues
    <3>1. MaxRequeues \in Nat
      BY QueueAssumption
    <3> QED BY <3>1 DEF Init
  <2>5. /\ pr \in [Issues -> {"none", "open", "merged", "closed"}]
        /\ passed \in [Issues -> SUBSET Issues]
    BY DEF Init
  <2> QED BY <1>1, <2>1, <2>2, <2>3, <2>4, <2>5, <2>r DEF TypeOK
<1> QED BY <1>1, <1>3 DEF Init, QueueInv, SpentInv, PassedInv, MaxAttempts

LEMMA QueueStep == QueueInv /\ [Next]_vars => QueueInv'
<1> SUFFICES ASSUME QueueInv, [Next]_vars PROVE QueueInv'
  OBVIOUS
<1>s. CASE UNCHANGED vars
  BY <1>s DEF vars, QueueInv, TypeOK, SpentInv, PassedInv, Rows
<1>n. CASE Next
  <2> USE <1>n
  <2>1. CASE Reconcile
    <3>1. Len(Listing) \in Nat
      BY QueueAssumption
    <3>2. PICK found \in SUBSET LookedUp, cleared \in SUBSET Labelled : Pass(Len(Listing), found, cleared)
      BY <2>1 DEF Reconcile
    <3> QED BY <2>1, <3>1, <3>2, PassPreserves DEF Reconcile
  <2>2. CASE ReconcileAborted
    <3>1. Len(Listing) \in Nat
      BY QueueAssumption
    <3>2. PICK n \in 0..(Len(Listing) - 1), found \in SUBSET LookedUp, cleared \in SUBSET Labelled :
            Pass(n, found, cleared)
      BY <2>2 DEF ReconcileAborted
    <3>3. n \in Nat /\ n \in 0..Len(Listing) /\ claiming' \in BOOLEAN
      BY <2>2, <3>1 DEF ReconcileAborted, QueueInv, TypeOK
    <3> QED BY <3>2, <3>3, PassPreserves
  <2>3. CASE NothingToClaim
    BY <2>3 DEF NothingToClaim, QueueInv, TypeOK, SpentInv, PassedInv, Rows
  <2>4. CASE \E i \in Issues : Work(i)
    BY <2>4, WorkPreserves
  <2>5. CASE Elapse
    BY <2>5, ElapsePreserves
  <2>6. CASE FileIssue
    BY <2>6 DEF FileIssue, QueueInv, TypeOK, SpentInv, PassedInv, Rows
  <2>7. CASE PrEnds
    BY <2>7 DEF PrEnds, QueueInv, TypeOK, SpentInv, PassedInv, Rows
  <2>8. CASE RequeueFailedMain
    BY <2>8, RequeuePreserves
  <2> QED BY <2>1, <2>2, <2>3, <2>4, <2>5, <2>6, <2>7, <2>8 DEF Next, ClaimNext
<1> QED BY <1>s, <1>n

\* Of two rows one always has the earlier updated_at, and a row in flight has
\* failed less than max_attempts times (store.py, claim_next and bump_attempt).
THEOREM QueueTypeOK == Spec => []TypeOK
<1>1. QueueInv => TypeOK
  BY DEF QueueInv
<1> QED BY <1>1, QueueInit, QueueStep, PTL DEF Spec

\* Outside shadow mode no row is claimed twice over the head of one that could be
\* claimed (store.py, claim_next): fairness among the claimable rows, as far as
\* nothing else writes them.
THEOREM QueueNoOvertaking == Spec => NoOvertaking
<1>1. ASSUME QueueInv, Next
      PROVE  \A i, j \in Issues :
               claiming /\ ~claiming' /\ claimed' = j /\ j # i /\ j \in passed[i]
                 => mode = "shadow" \/ ~Claimable(i)
  <2> SUFFICES ASSUME NEW i \in Issues, NEW j \in Issues, claiming, ~claiming', claimed' = j,
                      j # i, j \in passed[i], mode # "shadow", Claimable(i)
               PROVE  FALSE
    OBVIOUS
  <2>1. Claim(j)
    <3>1. ClaimNext
      BY <1>1 DEF Next, Reconcile, ReconcileAborted, Elapse, FileIssue, PrEnds, RequeueFailedMain
    <3>2. PICK k \in Issues : Work(k)
      BY <3>1, QueueAssumption DEF ClaimNext, NothingToClaim
    <3>3. Claim(k)
      BY <3>2 DEF Work, DoStage, OpenSpecPr, OpenImplPr, ParkIssue, FinishMerged, PollOpenPr,
                  StageFails, HoldInShadow
    <3>4. k = j
      BY <3>3 DEF Claim
    <3> QED BY <3>3, <3>4
  <2>2. <<j, i>> \in older
    BY <2>1 DEF Claim, NextIs
  <2>3. i \in Rows /\ j \in Rows
    BY <1>1, <2>2 DEF QueueInv, TypeOK, Orders
  <2>4. <<i, j>> \in older
    BY <1>1, <2>3 DEF QueueInv, PassedInv
  <2> QED BY <1>1, <2>2, <2>3, <2>4 DEF QueueInv, TypeOK, Orders
<1>2. QueueInv /\ [Next]_vars =>
        [\A i, j \in Issues :
           claiming /\ ~claiming' /\ claimed' = j /\ j # i /\ j \in passed[i]
             => mode = "shadow" \/ ~Claimable(i)]_vars
  BY <1>1
<1> QED BY <1>2, QueueInit, QueueStep, PTL DEF Spec, NoOvertaking
=============================================================================
