------------------------ MODULE TreasurySafetyProofs ------------------------
(***************************************************************************)
(* More proofs about the treasury, from the types and the invariants of    *)
(* TreasuryProofs: what the pending index and the hold reasons say, what a *)
(* pause stops, how disputes end, that the treasury implements             *)
(* SettlementLifecycle, and where its money went.                          *)
(***************************************************************************)
EXTENDS TreasuryProofs, AggregateProofs

(***************************************************************************)
(* The pending index and the hold reasons.                                 *)
(***************************************************************************)

(* The reason a settlement has when it is written as Pending: none, or the  *)
(* one it had while Pending.                                                *)
ReasonKept(old, new) ==
  new.status = "Pending" =>
    \/ new.hold_reason = "None"
    \/ old.status = "Pending" /\ new.hold_reason = old.hold_reason

(* What a call does to one settlement and its place in the index: nothing,  *)
(* a write_settlement, or the direct write of batch_execute_settlements.    *)
IndexShape(j) ==
  \/ settlements'[j] = settlements[j] /\ (j \in pendingIndex' <=> j \in pendingIndex)
  \/ /\ j \in pendingIndex' <=> settlements'[j].status = "Pending"
     /\ ReasonKept(settlements[j], settlements'[j])
  \/ /\ settlements[j].status = "Pending" /\ settlements'[j].status = "Executed"
     /\ pendingIndex' = pendingIndex

(* write_settlement has an index shape.                                     *)
LEMMA WriteIndexShape ==
  ASSUME NEW ids \in SUBSET Ids, NEW new, NEW expiry, write_settlement(ids, new, expiry),
         NEW j \in Ids, j \notin ids => new[j] = settlements[j],
         j \in ids => ReasonKept(settlements[j], new[j])
  PROVE  IndexShape(j)
BY DEF write_settlement, IndexShape

(* A status change other than to Pending keeps no reason to check.          *)
LEMMA StatusIndexShape ==
  ASSUME TypeOK, NEW ids \in SUBSET Ids, NEW st, st # "Pending",
         write_settlement(ids, WithStatus(ids, st), holdExpiry), NEW j \in Ids
  PROVE  IndexShape(j)
<1>0. settlements \in [Ids -> Settlement]
  BY DEF TypeOK, SettlementTypeOK
<1>1. /\ j \notin ids => WithStatus(ids, st)[j] = settlements[j]
      /\ j \in ids => ReasonKept(settlements[j], WithStatus(ids, st)[j])
  BY <1>0, WithStatusEffect DEF ReasonKept
<1> QED BY <1>1, WriteIndexShape

(* An approval keeps the status and the reason.                             *)
LEMMA ApprovalIndexShape ==
  ASSUME TypeOK, NEW ids \in SUBSET Ids, NEW s,
         \A i \in ids : settlements[i].status = "Pending",
         write_settlement(ids, WithApproval(ids, s), holdExpiry), NEW j \in Ids
  PROVE  IndexShape(j)
<1>0. settlements \in [Ids -> Settlement]
  BY DEF TypeOK, SettlementTypeOK
<1>1. j \notin ids => WithApproval(ids, s)[j] = settlements[j]
  BY <1>0, WithApprovalEffect
<1>2. j \in ids => ReasonKept(settlements[j], WithApproval(ids, s)[j])
  BY <1>0 DEF WithApproval, ReasonKept, Settlement
<1> QED BY <1>1, <1>2, WriteIndexShape

(* A hold leaves Pending, a release clears the reason.                      *)
LEMMA HoldIndexShape ==
  ASSUME TypeOK, NEW i \in Ids, NEW st, NEW r, st = "Pending" => r = "None",
         NEW expiry, write_settlement({i}, WithHold(i, st, r), expiry), NEW j \in Ids
  PROVE  IndexShape(j)
<1>0. settlements \in [Ids -> Settlement]
  BY DEF TypeOK, SettlementTypeOK
<1>1. j # i => WithHold(i, st, r)[j] = settlements[j]
  BY <1>0, WithHoldEffect
<1>2. j = i => ReasonKept(settlements[j], WithHold(i, st, r)[j])
  BY <1>0 DEF WithHold, ReasonKept, Settlement
<1> QED BY <1>1, <1>2, WriteIndexShape

(* The release at the end of a dispute has an index shape.                  *)
LEMMA ReleaseIndexShape ==
  ASSUME TypeOK, NEW i \in Ids, NEW table,
         release_settlement_hold_if_no_open_disputes(table, i), NEW j \in Ids
  PROVE  IndexShape(j)
<1>1. CASE write_settlement({i}, WithHold(i, "Pending", "None"), holdExpiry)
  BY <1>1, HoldIndexShape
<1>2. CASE UNCHANGED tableVars
  BY <1>2 DEF tableVars, IndexShape
<1> QED BY <1>1, <1>2 DEF release_settlement_hold_if_no_open_disputes

(* A proposal writes a pending settlement without a reason.                 *)
LEMMA ProposeIndexShape ==
  ASSUME TypeOK, NEW s, NEW m, NEW a, NEW dl, propose(s, m, a, dl), NEW j \in Ids
  PROVE  IndexShape(j)
<1> DEFINE id == settlementCount + 1
           stl == [merchant |-> m, amount |-> a, approvals |-> {s},
                   approval_weight |-> counted_weight({}, 0, s),
                   status |-> "Pending", hold_reason |-> "None",
                   proposed_at |-> now, execution_deadline |-> dl]
           new == [settlements EXCEPT ![id] = stl]
<1>0. settlements \in [Ids -> Settlement]
  BY DEF TypeOK, SettlementTypeOK
<1>1. id \in Ids /\ write_settlement({id}, new, holdExpiry)
  BY DEF propose
<1>2. stl.hold_reason = "None"
  OBVIOUS
<1> HIDE DEF stl, id
<1>3. j # id => new[j] = settlements[j]
  BY <1>0
<1>4. j = id => ReasonKept(settlements[j], new[j])
  BY <1>0, <1>1, <1>2 DEF ReasonKept
<1> HIDE DEF new
<1> QED BY <1>1, <1>3, <1>4, WriteIndexShape

(* Every settlement entry point has an index shape.                         *)
LEMMA SettlementIndexShape ==
  ASSUME TypeOK, SettlementNext, NEW j \in Ids
  PROVE  IndexShape(j)
<1>0. settlements \in [Ids -> Settlement]
  BY DEF TypeOK, SettlementTypeOK
<1>1. ASSUME NEW s, NEW m, NEW a, NEW d, propose_settlement(s, m, a, d)
      PROVE  IndexShape(j)
  BY <1>1, ProposeIndexShape DEF propose_settlement
<1>2. ASSUME NEW s, NEW m, NEW a, propose_settlement_with_token(s, m, a)
      PROVE  IndexShape(j)
  BY <1>2, ProposeIndexShape DEF propose_settlement_with_token
<1>3. ASSUME NEW s, NEW i \in Ids, approve_settlement(s, i) PROVE IndexShape(j)
  BY <1>3, ApprovalIndexShape DEF approve_settlement, is_pending
<1>4. ASSUME NEW s, NEW i \in Ids, revoke_approval(s, i) PROVE IndexShape(j)
  <2> DEFINE new == [settlements EXCEPT ![i].approvals = @ \ {s},
                                        ![i].approval_weight = revoked_weight(@, s)]
  <2>1. write_settlement({i}, new, holdExpiry) /\ settlements[i].status = "Pending"
    BY <1>4 DEF revoke_approval, is_pending
  <2>2. j # i => new[j] = settlements[j]
    BY <1>0
  <2>3. j = i => ReasonKept(settlements[j], new[j])
    BY <1>0, <2>1 DEF ReasonKept, Settlement
  <2> HIDE DEF new
  <2> QED BY <2>1, <2>2, <2>3, WriteIndexShape
<1>5. ASSUME NEW s, NEW ids \in SUBSET Ids, batch_approve_settlements(s, ids)
      PROVE  IndexShape(j)
  BY <1>5, ApprovalIndexShape DEF batch_approve_settlements, is_pending
<1>6. ASSUME NEW s, NEW i \in Ids, NEW part, approve_partial_settlement(s, i, part)
      PROVE  IndexShape(j)
  BY <1>6, ApprovalIndexShape DEF approve_partial_settlement, is_pending
<1>7. ASSUME NEW s, NEW i \in Ids, NEW t, execute_settlement(s, i, t) PROVE IndexShape(j)
  BY <1>7, StatusIndexShape DEF execute_settlement
<1>8. ASSUME NEW s, NEW ids \in SUBSET Ids, NEW t, batch_execute_settlements(s, ids, t)
      PROVE  IndexShape(j)
  <2> DEFINE due == {i \in ids : /\ is_pending(i)
                                 /\ meets_threshold(settlements[i].approval_weight)}
  <2>1. settlements' = WithStatus(due, "Executed") /\ pendingIndex' = pendingIndex
    BY <1>8 DEF batch_execute_settlements
  <2>2. j \in due => settlements[j].status = "Pending"
    BY DEF is_pending
  <2> HIDE DEF due
  <2> QED BY <1>0, <2>1, <2>2, WithStatusEffect DEF IndexShape
<1>9. ASSUME NEW s, NEW i \in Ids, NEW t, NEW part, partially_execute_settlement(s, i, part, t)
      PROVE  IndexShape(j)
  BY <1>9, StatusIndexShape DEF partially_execute_settlement
<1>10. ASSUME NEW s, NEW i \in Ids, cancel_settlement(s, i) PROVE IndexShape(j)
  BY <1>10, StatusIndexShape DEF cancel_settlement
<1>11. ASSUME NEW ids \in SUBSET Ids, batch_cancel_settlements(ids) PROVE IndexShape(j)
  BY <1>11, StatusIndexShape DEF batch_cancel_settlements
<1>12. ASSUME NEW i \in Ids, force_cancel_settlement(i) \/ expire_settlement(i)
       PROVE  IndexShape(j)
  BY <1>12, StatusIndexShape DEF force_cancel_settlement, expire_settlement
<1>13. ASSUME NEW i \in Ids, NEW r, NEW e, hold_settlement(i, r, e) PROVE IndexShape(j)
  BY <1>13, HoldIndexShape DEF hold_settlement
<1>14. ASSUME NEW i \in Ids, release_hold(i) PROVE IndexShape(j)
  BY <1>14, HoldIndexShape DEF release_hold
<1>15. CASE Configure
  BY <1>15 DEF Configure, tableVars, IndexShape
<1> QED
  BY <1>1, <1>2, <1>3, <1>4, <1>5, <1>6, <1>7, <1>8, <1>9, <1>10, <1>11,
     <1>12, <1>13, <1>14, <1>15 DEF SettlementNext

(* Every step of the treasury has an index shape.                           *)
LEMMA StepIndexShape ==
  ASSUME TypeOK, [Next]_vars, NEW j \in Ids
  PROVE  IndexShape(j)
<1>0. \A d \in DisputeIds : disputes[d].settlement_id \in Ids
  BY DEF TypeOK, Dispute
<1>1. ASSUME NEW i \in Ids, NEW a, NEW e, raise_dispute(i, a, e) PROVE IndexShape(j)
  <2>1. CASE is_pending(i)
    BY <1>1, <2>1, StatusIndexShape DEF raise_dispute
  <2>2. CASE ~is_pending(i)
    BY <1>1, <2>2 DEF raise_dispute, tableVars, IndexShape
  <2> QED BY <2>1, <2>2
<1>2. ASSUME NEW d \in DisputeIds, expire_dispute(d) PROVE IndexShape(j)
  BY <1>0, <1>2, ReleaseIndexShape DEF expire_dispute
<1>3. ASSUME NEW d \in DisputeIds, NEW c, resolve_dispute(d, c) PROVE IndexShape(j)
  BY <1>0, <1>3, ReleaseIndexShape DEF resolve_dispute
<1>4. ASSUME NEW d \in DisputeIds, NEW b, NEW t, resolve_dispute_split(d, b, t)
      PROVE  IndexShape(j)
  BY <1>0, <1>4, ReleaseIndexShape DEF resolve_dispute_split
<1>5. ASSUME NEW s, NEW d, NEW c, vote_dispute_resolution(s, d, c) PROVE IndexShape(j)
  BY <1>5 DEF vote_dispute_resolution, tableVars, IndexShape
<1>6. CASE UNCHANGED settlementVars
  BY <1>6 DEF settlementVars, tableVars, IndexShape
<1> QED BY <1>1, <1>2, <1>3, <1>4, <1>5, <1>6, SettlementIndexShape DEF Next, DisputeNext, vars

(* The pending index lists every pending settlement, and otherwise only     *)
(* executed ones that batch_execute_settlements left behind.                *)
THEOREM IndexListsPending == Spec => []PendingAlwaysIndexed
<1>1. Init => PendingAlwaysIndexed
  <2> SUFFICES ASSUME Init, NEW i \in Ids PROVE ~is_pending(i) /\ i \notin pendingIndex
    BY DEF PendingAlwaysIndexed
  <2> QED BY DEF Init, SettlementInit, NoSettlement, is_pending
<1>2. TypeOK /\ PendingAlwaysIndexed /\ [Next]_vars => PendingAlwaysIndexed'
  <2> SUFFICES ASSUME TypeOK, PendingAlwaysIndexed, [Next]_vars, NEW i \in Ids
               PROVE  /\ settlements'[i].status = "Pending" => i \in pendingIndex'
                      /\ i \in pendingIndex' =>
                           settlements'[i].status \in {"Pending", "Executed"}
    BY DEF PendingAlwaysIndexed, is_pending
  <2>1. IndexShape(i)
    BY StepIndexShape
  <2> QED BY <2>1 DEF IndexShape, PendingAlwaysIndexed, is_pending
<1> QED BY <1>1, <1>2, TypeCorrect, PTL DEF Spec

(* No settlement returns to Pending with the reason of an earlier hold.     *)
THEOREM ReleasedHoldsLeaveNoReason == Spec => []PendingHasNoHoldReason
<1>1. Init => PendingHasNoHoldReason
  <2> SUFFICES ASSUME Init, NEW i \in Ids PROVE ~is_pending(i)
    BY DEF PendingHasNoHoldReason
  <2> QED BY DEF Init, SettlementInit, NoSettlement, is_pending
<1>2. TypeOK /\ PendingHasNoHoldReason /\ [Next]_vars => PendingHasNoHoldReason'
  <2> SUFFICES ASSUME TypeOK, PendingHasNoHoldReason, [Next]_vars, NEW i \in Ids,
                      settlements'[i].status = "Pending"
               PROVE  settlements'[i].hold_reason = "None"
    BY DEF PendingHasNoHoldReason, is_pending
  <2>1. IndexShape(i)
    BY StepIndexShape
  <2> QED BY <2>1 DEF IndexShape, ReasonKept, PendingHasNoHoldReason, is_pending
<1> QED BY <1>1, <1>2, TypeCorrect, PTL DEF Spec

(***************************************************************************)
(* The merchants' settlement indexes.                                      *)
(***************************************************************************)

(* Pushing a newer id onto a full list drops the oldest one, and the list   *)
(* still holds the newest.                                                  *)
LEMMA PushKeepsNewest ==
  ASSUME NEW list \in Seq(Nat), NEW own \in SUBSET Nat, ListsNewest(list, own),
         NEW id \in Nat, \A i \in own : i < id,
         NEW kept,
         Len(list) >= MAX_MERCHANT_SETTLEMENTS => kept = Tail(list),
         ~ (Len(list) >= MAX_MERCHANT_SETTLEMENTS) => kept = list
  PROVE  ListsNewest(Append(kept, id), own \cup {id})
<1> DEFINE cap == MAX_MERCHANT_SETTLEMENTS
           n == Len(list)
           new == Append(kept, id)
<1>0. cap \in Nat \ {0} /\ n \in Nat /\ DOMAIN list = 1 .. n
  BY SettlementAssumption
<1>1. /\ ToSet(list) \subseteq own /\ n <= cap
      /\ \A i, j \in 1 .. n : i < j => list[i] < list[j]
      /\ \A i \in own \ ToSet(list) : n = cap /\ \A j \in ToSet(list) : i < j
  BY <1>0 DEF ListsNewest, ListsInOrder
<1>2. \A k \in 1 .. n : list[k] \in own /\ list[k] < id /\ list[k] \in Nat /\ list[k] \in ToSet(list)
  BY <1>0, <1>1 DEF ToSet
<1>3. CASE n < cap
  <2>0. ~ (n >= cap)
    <3> HIDE DEF n, cap
    <3> QED
      BY <1>0, <1>3
  <2>1. kept = list
    BY <2>0
  <2>2. /\ new \in Seq(Nat) /\ Len(new) = n + 1 /\ DOMAIN new = 1 .. n + 1 /\ new[n + 1] = id
        /\ \A k \in 1 .. n : new[k] = list[k]
    <3>1. /\ new \in Seq(Nat) /\ Len(new) = n + 1 /\ new[n + 1] = id
          /\ \A k \in 1 .. n : new[k] = list[k]
      BY <2>1, AppendProperties
    <3> HIDE DEF new, n
    <3>2. DOMAIN new = 1 .. Len(new)
      BY <3>1, LenProperties
    <3> QED
      BY <3>1, <3>2
  <2> HIDE DEF n, new, cap
  <2>3. 1 .. n + 1 = (1 .. n) \cup {n + 1}
    BY <1>0
  <2>4. ToSet(new) = ToSet(list) \cup {id}
    <3>1. ToSet(new) = {new[k] : k \in 1 .. n + 1} /\ ToSet(list) = {list[k] : k \in 1 .. n}
      BY <1>0, <2>2 DEF ToSet
    <3>2. {new[k] : k \in 1 .. n + 1} = {new[k] : k \in 1 .. n} \cup {new[n + 1]}
      BY <2>3
    <3>3. {new[k] : k \in 1 .. n} = {list[k] : k \in 1 .. n}
      BY <2>2
    <3> QED
      BY <2>2, <3>1, <3>2, <3>3
  <2>5. \A i, j \in 1 .. n + 1 : i < j => new[i] < new[j]
    <3> SUFFICES ASSUME NEW i \in 1 .. n + 1, NEW j \in 1 .. n + 1, i < j
                 PROVE  new[i] < new[j]
      OBVIOUS
    <3>1. i \in 1 .. n
      BY <1>0
    <3>2. CASE j \in 1 .. n
      BY <1>1, <2>2, <3>1, <3>2
    <3>3. CASE j = n + 1
      BY <1>2, <2>2, <3>1, <3>3
    <3> QED
      BY <2>3, <3>2, <3>3
  <2>6. own \subseteq ToSet(list)
    BY <1>0, <1>1, <1>3
  <2>7. ToSet(new) = own \cup {id}
    BY <1>1, <2>4, <2>6
  <2>8. Len(new) <= cap
    BY <1>0, <1>3, <2>2
  <2>9. ListsNewest(new, own \cup {id})
    BY <2>2, <2>5, <2>7, <2>8 DEF ListsNewest, ListsInOrder, cap
  <2> QED
    BY <2>9 DEF new
<1>4. CASE ~ (n < cap)
  <2>0. n = cap /\ n >= 1 /\ n >= cap
    <3> HIDE DEF n, cap
    <3> QED
      BY <1>0, <1>1, <1>4
  <2>1. n = cap /\ n >= 1 /\ kept = Tail(list)
    BY <2>0
  <2>2. /\ kept \in Seq(Nat) /\ Len(kept) = n - 1
        /\ \A k \in 1 .. n - 1 : kept[k] = list[k + 1]
    BY <2>1, HeadTailProperties
  <2>3. /\ new \in Seq(Nat) /\ Len(new) = n /\ DOMAIN new = 1 .. n /\ new[n] = id
        /\ \A k \in 1 .. n - 1 : new[k] = list[k + 1]
    <3>1. /\ new \in Seq(Nat) /\ Len(new) = (n - 1) + 1 /\ new[(n - 1) + 1] = id
          /\ \A k \in 1 .. n - 1 : new[k] = kept[k]
      BY <2>2, AppendProperties
    <3>2. (n - 1) + 1 = n
      BY <1>0
    <3> HIDE DEF new, n
    <3> QED
      BY <2>2, <3>1, <3>2, LenProperties
  <2> HIDE DEF n, new, cap
  <2>4. /\ 1 .. n = (1 .. n - 1) \cup {n} /\ 1 \in 1 .. n
        /\ \A k \in 1 .. n - 1 : k + 1 \in 1 .. n /\ 1 < k + 1
        /\ \A k \in 1 .. n : k = 1 \/ k - 1 \in 1 .. n - 1
    BY <1>0, <2>1
  <2>5. ToSet(new) = {new[k] : k \in 1 .. n} /\ ToSet(list) = {list[k] : k \in 1 .. n}
    BY <1>0, <2>3 DEF ToSet
  <2>6. \A x \in ToSet(new) : x = id \/ (x \in ToSet(list) /\ x > list[1])
    <3> SUFFICES ASSUME NEW k \in 1 .. n
                 PROVE  new[k] = id \/ (new[k] \in ToSet(list) /\ new[k] > list[1])
      <4>1. \A x \in ToSet(new) : \E k \in 1 .. n : x = new[k]
        BY <2>5
      <4> QED
        BY <4>1
    <3>1. CASE k = n
      BY <2>3, <3>1
    <3>2. CASE k \in 1 .. n - 1
      <4>1. new[k] = list[k + 1] /\ list[k + 1] \in ToSet(list)
        BY <1>2, <2>3, <2>4, <3>2
      <4>2. list[1] < list[k + 1] /\ list[1] \in Nat /\ list[k + 1] \in Nat
        BY <1>1, <1>2, <2>4, <3>2
      <4> QED
        BY <4>1, <4>2
    <3> QED
      BY <2>4, <3>1, <3>2
  <2>7. \A x \in ToSet(list) : x = list[1] \/ x \in ToSet(new)
    <3> SUFFICES ASSUME NEW k \in 1 .. n PROVE list[k] = list[1] \/ list[k] \in ToSet(new)
      BY <2>5
    <3>1. CASE k = 1
      BY <3>1
    <3>2. CASE k # 1
      <4>1. k - 1 \in 1 .. n - 1 /\ (k - 1) + 1 = k /\ k - 1 \in 1 .. n
        BY <1>0, <2>4, <3>2
      <4>2. new[k - 1] = list[k]
        BY <2>3, <4>1
      <4> QED
        BY <2>5, <4>1, <4>2
    <3> QED
      BY <3>1, <3>2
  <2>8. id \in ToSet(new)
    BY <2>3, <2>4, <2>5
  <2>9. \A i, j \in 1 .. n : i < j => new[i] < new[j]
    <3> SUFFICES ASSUME NEW i \in 1 .. n, NEW j \in 1 .. n, i < j
                 PROVE  new[i] < new[j]
      OBVIOUS
    <3>1. i \in 1 .. n - 1 /\ i + 1 \in 1 .. n
      BY <1>0
    <3>2. CASE j \in 1 .. n - 1
      <4>1. i + 1 < j + 1 /\ j + 1 \in 1 .. n
        BY <1>0, <3>2
      <4> QED
        BY <1>1, <2>3, <3>1, <3>2, <4>1
    <3>3. CASE j = n
      BY <1>2, <2>3, <3>1, <3>3
    <3> QED
      BY <2>4, <3>2, <3>3
  <2>10. ASSUME NEW i \in (own \cup {id}) \ ToSet(new), NEW j \in ToSet(new)
         PROVE  i < j
    <3>1. i \in own /\ i \in Nat /\ i < id /\ list[1] \in Nat
      BY <1>2, <2>4, <2>8, <2>10
    <3>2. CASE j = id
      BY <3>1, <3>2
    <3>3. CASE j # id
      <4>1. j \in ToSet(list) /\ j > list[1]
        BY <2>6, <3>3
      <4>2. CASE i \in ToSet(list)
        BY <2>7, <2>10, <4>1, <4>2
      <4>3. CASE i \notin ToSet(list)
        BY <1>1, <3>1, <4>1, <4>3
      <4> QED
        BY <4>2, <4>3
    <3> QED
      BY <3>2, <3>3
  <2>11. ToSet(new) \subseteq own \cup {id}
    BY <1>1, <2>6
  <2>12. ToSet(new) \cap (own \cup {id}) = ToSet(new)
    BY <2>11
  <2>13. ListsInOrder(new, ToSet(new) \cap (own \cup {id}))
    BY <2>3, <2>9, <2>12 DEF ListsInOrder
  <2>14. Len(new) <= cap /\ Len(new) = cap
    BY <1>0, <2>1, <2>3
  <2>15. ListsNewest(new, own \cup {id})
    BY <2>10, <2>13, <2>14 DEF ListsNewest, cap
  <2> QED
    BY <2>15 DEF new
<1> QED
  BY <1>3, <1>4

(* A call other than a proposal moves no settlement to another merchant and *)
(* leaves the catalog alone.                                                *)
CatalogKept ==
  /\ UNCHANGED catalogVars
  /\ \A j \in Ids : settlements'[j].merchant = settlements[j].merchant

(* The tables the calls write keep the merchants.                           *)
LEMMA TablesKeepMerchants ==
  ASSUME TypeOK, NEW j \in Ids
  PROVE  /\ \A ids, st : WithStatus(ids, st)[j].merchant = settlements[j].merchant
         /\ \A ids, s : WithApproval(ids, s)[j].merchant = settlements[j].merchant
         /\ \A i, st, r : WithHold(i, st, r)[j].merchant = settlements[j].merchant
<1>0. settlements \in [Ids -> Settlement] /\ settlements[j] \in Settlement
  BY DEF TypeOK, SettlementTypeOK
<1>1. \A ids, st : WithStatus(ids, st)[j].merchant = settlements[j].merchant
  BY <1>0 DEF WithStatus, Settlement
<1>2. \A ids, s : WithApproval(ids, s)[j].merchant = settlements[j].merchant
  BY <1>0 DEF WithApproval, Settlement
<1>3. \A i, st, r : WithHold(i, st, r)[j].merchant = settlements[j].merchant
  BY <1>0 DEF WithHold, Settlement
<1> QED BY <1>1, <1>2, <1>3

(* Every step keeps the catalog or is a proposal.                           *)
LEMMA StepCatalog ==
  ASSUME TypeOK, [Next]_vars
  PROVE  \/ CatalogKept
         \/ \E s \in Signers, m \in Merchants : \E a, dl : propose(s, m, a, dl)
<1>0. /\ \A d \in DisputeIds : disputes[d].settlement_id \in Ids
      /\ settlements \in [Ids -> Settlement]
  BY DEF TypeOK, SettlementTypeOK, Dispute
<1>1. ASSUME UNCHANGED catalogVars, NEW new, settlements' = new,
             \/ \E ids, st : new = WithStatus(ids, st)
             \/ \E ids, s : new = WithApproval(ids, s)
             \/ \E i, st, r : new = WithHold(i, st, r)
      PROVE  CatalogKept
  BY <1>1, TablesKeepMerchants DEF CatalogKept
<1>2. ASSUME UNCHANGED <<catalogVars, settlements>> PROVE CatalogKept
  BY <1>2 DEF CatalogKept
<1>3. ASSUME NEW i \in Ids, NEW table, UNCHANGED catalogVars,
             release_settlement_hold_if_no_open_disputes(table, i)
      PROVE  CatalogKept
  <2>1. CASE write_settlement({i}, WithHold(i, "Pending", "None"), holdExpiry)
    BY <1>1, <1>3, <2>1 DEF write_settlement
  <2>2. CASE UNCHANGED tableVars
    BY <1>2, <1>3, <2>2 DEF tableVars
  <2> QED BY <1>3, <2>1, <2>2 DEF release_settlement_hold_if_no_open_disputes
<1>4. CASE SettlementNext
  <2>1. ASSUME NEW s \in Signers, NEW i \in Ids, revoke_approval(s, i) PROVE CatalogKept
    <3>1. /\ settlements' = [settlements EXCEPT ![i].approvals = @ \ {s},
                                    ![i].approval_weight = revoked_weight(@, s)]
          /\ UNCHANGED catalogVars
      BY <2>1 DEF revoke_approval, write_settlement
    <3> QED BY <1>0, <3>1 DEF CatalogKept, Settlement
  <2>2. ASSUME NEW s \in Signers, NEW m \in Merchants, NEW a, NEW dl,
               propose_settlement(s, m, a, dl) \/ propose_settlement_with_token(s, m, a)
        PROVE  \E x, y : propose(s, m, x, y)
    BY <2>2 DEF propose_settlement, propose_settlement_with_token
  <2>3. ASSUME NEW s, NEW i,
               \/ approve_settlement(s, i)
               \/ \E part : approve_partial_settlement(s, i, part)
        PROVE  CatalogKept
    BY <1>1, <2>3 DEF approve_settlement, approve_partial_settlement, write_settlement
  <2>4. ASSUME NEW s, NEW ids, batch_approve_settlements(s, ids) PROVE CatalogKept
    BY <1>1, <2>4 DEF batch_approve_settlements, write_settlement
  <2>5. ASSUME NEW s, NEW i, NEW t,
               \/ execute_settlement(s, i, t)
               \/ \E part : partially_execute_settlement(s, i, part, t)
        PROVE  CatalogKept
    BY <1>1, <2>5 DEF execute_settlement, partially_execute_settlement, write_settlement
  <2>6. ASSUME NEW s, NEW ids, NEW t, batch_execute_settlements(s, ids, t)
        PROVE  CatalogKept
    BY <1>1, <2>6 DEF batch_execute_settlements
  <2>7. ASSUME NEW s, NEW i, cancel_settlement(s, i) PROVE CatalogKept
    BY <1>1, <2>7 DEF cancel_settlement, write_settlement
  <2>8. ASSUME NEW ids, batch_cancel_settlements(ids) PROVE CatalogKept
    BY <1>1, <2>8 DEF batch_cancel_settlements, write_settlement
  <2>9. ASSUME NEW i, force_cancel_settlement(i) \/ expire_settlement(i) PROVE CatalogKept
    BY <1>1, <2>9 DEF force_cancel_settlement, expire_settlement, write_settlement
  <2>10. ASSUME NEW i, release_hold(i) \/ (\E r, e : hold_settlement(i, r, e))
         PROVE  CatalogKept
    BY <1>1, <2>10 DEF hold_settlement, release_hold, write_settlement
  <2>11. CASE Configure
    BY <1>2, <2>11 DEF Configure, tableVars
  <2> QED
    BY <1>4, <2>1, <2>2, <2>3, <2>4, <2>5, <2>6, <2>7, <2>8, <2>9, <2>10, <2>11
    DEF SettlementNext
<1>5. CASE DisputeNext
  <2>1. ASSUME NEW i \in Ids, NEW a, NEW e, raise_dispute(i, a, e) PROVE CatalogKept
    <3>1. CASE is_pending(i)
      BY <1>1, <2>1, <3>1 DEF raise_dispute, write_settlement
    <3>2. CASE ~is_pending(i)
      BY <1>2, <2>1, <3>2 DEF raise_dispute, tableVars
    <3> QED BY <3>1, <3>2
  <2>2. ASSUME NEW d \in DisputeIds, expire_dispute(d) PROVE CatalogKept
    BY <1>0, <1>3, <2>2 DEF expire_dispute
  <2>3. ASSUME NEW d \in DisputeIds, NEW c, resolve_dispute(d, c) PROVE CatalogKept
    BY <1>0, <1>3, <2>3 DEF resolve_dispute
  <2>4. ASSUME NEW d \in DisputeIds, NEW b, NEW t, resolve_dispute_split(d, b, t)
        PROVE  CatalogKept
    BY <1>0, <1>3, <2>4 DEF resolve_dispute_split
  <2>5. ASSUME NEW s, NEW d, NEW c, vote_dispute_resolution(s, d, c) PROVE CatalogKept
    BY <1>2, <2>5 DEF vote_dispute_resolution, tableVars
  <2> QED BY <1>5, <2>1, <2>2, <2>3, <2>4, <2>5 DEF DisputeNext
<1>6. CASE UNCHANGED settlementVars
  BY <1>2, <1>6 DEF settlementVars, tableVars
<1> QED BY <1>4, <1>5, <1>6 DEF Next, vars

(* The capped index of a merchant always lists its newest settlements, for  *)
(* every cap and however proposals for several merchants interleave.        *)
THEOREM MerchantIndexesAreLatest == Spec => []MerchantIndexIsLatest
<1>1. Init => MerchantIndexIsLatest
  <2> SUFFICES ASSUME Init, NEW m \in Merchants
               PROVE  ListsNewest(merchantSettlements[m],
                        {i \in 1 .. settlementCount : settlements[i].merchant = m})
    BY DEF MerchantIndexIsLatest
  <2>1. merchantSettlements[m] = << >> /\ settlementCount = 0
    BY DEF Init, SettlementInit
  <2>2. {i \in 1 .. settlementCount : settlements[i].merchant = m} = {}
    BY <2>1
  <2>3. ToSet(<< >>) = {} /\ Len(<< >>) = 0 /\ DOMAIN << >> = {}
    BY DEF ToSet
  <2>4. 0 <= MAX_MERCHANT_SETTLEMENTS
    BY SettlementAssumption
  <2> QED BY <2>1, <2>2, <2>3, <2>4 DEF ListsNewest, ListsInOrder
<1>2. TypeOK /\ MerchantIndexIsLatest /\ [Next]_vars => MerchantIndexIsLatest'
  <2> SUFFICES ASSUME TypeOK, MerchantIndexIsLatest, [Next]_vars
               PROVE  MerchantIndexIsLatest'
    OBVIOUS
  <2>0. /\ settlementCount \in Nat /\ 1 .. settlementCount \subseteq Ids
        /\ merchantSettlements \in [Merchants -> Seq(Ids)]
        /\ settlements \in [Ids -> Settlement]
    BY SettlementAssumption DEF TypeOK, SettlementTypeOK, Ids
  <2> DEFINE Own(m) == {i \in 1 .. settlementCount : settlements[i].merchant = m}
             NewOwn(m) == {i \in 1 .. settlementCount' : settlements'[i].merchant = m}
  <2>1. CASE CatalogKept
    <3>1. \A m \in Merchants : NewOwn(m) = Own(m)
      BY <2>0, <2>1 DEF CatalogKept, catalogVars
    <3> QED
      BY <2>1, <3>1 DEF CatalogKept, catalogVars, MerchantIndexIsLatest
  <2>2. ASSUME NEW s \in Signers, NEW m \in Merchants, NEW a, NEW dl, propose(s, m, a, dl)
        PROVE  MerchantIndexIsLatest'
    <3> DEFINE id == settlementCount + 1
               list == merchantSettlements[m]
               kept == IF Len(list) >= MAX_MERCHANT_SETTLEMENTS THEN Tail(list) ELSE list
    <3>1. /\ id \in Ids /\ settlementCount' = id
          /\ merchantSettlements' = [merchantSettlements EXCEPT ![m] = Append(kept, id)]
      BY <2>2 DEF propose, push_merchant_settlement
    <3>2. /\ settlements'[id].merchant = m
          /\ \A j \in Ids : j # id => settlements'[j] = settlements[j]
      BY <2>0, <2>2, <3>1 DEF propose, write_settlement
    <3>3. 1 .. id = (1 .. settlementCount) \cup {id} /\ id \notin 1 .. settlementCount
      BY <2>0
    <3>4. \A j \in 1 .. settlementCount : settlements'[j] = settlements[j]
      BY <2>0, <3>2, <3>3
    <3>5. NewOwn(m) = Own(m) \cup {id}
      BY <3>1, <3>2, <3>3, <3>4
    <3>6. \A x \in Merchants : x # m => NewOwn(x) = Own(x)
      BY <3>1, <3>2, <3>3, <3>4
    <3>7. ListsNewest(Append(kept, id), Own(m) \cup {id})
      <4>0. Ids \subseteq Nat /\ list \in Seq(Ids)
        BY <2>0, SettlementAssumption DEF Ids
      <4>1. list \in Seq(Nat)
        <5> HIDE DEF list
        <5> QED BY <4>0, ListOverMore
      <4>2. Own(m) \in SUBSET Nat /\ id \in Nat /\ \A i \in Own(m) : i < id
        BY <2>0
      <4>3. ListsNewest(list, Own(m))
        BY DEF MerchantIndexIsLatest
      <4>4. /\ Len(list) >= MAX_MERCHANT_SETTLEMENTS => kept = Tail(list)
            /\ ~ (Len(list) >= MAX_MERCHANT_SETTLEMENTS) => kept = list
        OBVIOUS
      <4> HIDE DEF list, kept, Own, id
      <4> QED BY <4>1, <4>2, <4>3, <4>4, PushKeepsNewest
    <3>8. merchantSettlements'[m] = Append(kept, id)
      BY <2>0, <3>1
    <3>9. \A x \in Merchants : x # m => merchantSettlements'[x] = merchantSettlements[x]
      BY <2>0, <3>1
    <3>10. \A x \in Merchants : ListsNewest(merchantSettlements[x], Own(x))
      BY DEF MerchantIndexIsLatest
    <3> HIDE DEF kept, id, Own
    <3>11. ASSUME NEW x \in Merchants PROVE ListsNewest(merchantSettlements'[x], NewOwn(x))
      <4> HIDE DEF NewOwn
      <4>1. CASE x = m
        BY <3>5, <3>7, <3>8, <4>1
      <4>2. CASE x # m
        BY <3>6, <3>9, <3>10, <4>2
      <4> QED BY <4>1, <4>2
    <3> QED BY <3>11 DEF MerchantIndexIsLatest
  <2> QED BY <2>1, <2>2, StepCatalog
<1> QED BY <1>1, <1>2, TypeCorrect, PTL DEF Spec

(***************************************************************************)
(* What a pause stops.                                                     *)
(***************************************************************************)
Frozen ==
  /\ UNCHANGED <<pool, paid, settlementCount, disputeCount>>
  /\ \A i \in Ids : settlements'[i].approvals = settlements[i].approvals
  /\ \A d \in DisputeIds :
       disputes'[d].resolution_approvals = disputes[d].resolution_approvals

(* The settlement calls that a paused contract still accepts.               *)
LEMMA PausedSettlementCalls ==
  ASSUME paused, SettlementNext
  PROVE  \/ \E ids \in SUBSET Ids : batch_cancel_settlements(ids)
         \/ \E i \in Ids : force_cancel_settlement(i)
         \/ \E i \in Ids : expire_settlement(i)
         \/ \E i \in Ids : \E r, e : hold_settlement(i, r, e)
         \/ \E i \in Ids : release_hold(i)
         \/ Configure
BY DEF SettlementNext, require_not_paused, propose_settlement,
   propose_settlement_with_token, propose, approve_settlement, revoke_approval,
   batch_approve_settlements, approve_partial_settlement, execute_settlement,
   batch_execute_settlements, partially_execute_settlement, cancel_settlement

(* Those calls record no approval and pay nothing.                          *)
LEMMA PausedSettlementStep ==
  ASSUME TypeOK, paused, SettlementNext, UNCHANGED disputeVars
  PROVE  Frozen
<1>0. settlements \in [Ids -> Settlement]
  BY DEF TypeOK, SettlementTypeOK
<1>1. ASSUME NEW ids, NEW st, settlements' = WithStatus(ids, st),
             UNCHANGED <<catalogVars, moneyVars>>
      PROVE  Frozen
  BY <1>0, <1>1, WithStatusEffect DEF Frozen, catalogVars, moneyVars, disputeVars
<1>2. ASSUME NEW i \in Ids, NEW st, NEW r, settlements' = WithHold(i, st, r),
             UNCHANGED <<catalogVars, moneyVars>>
      PROVE  Frozen
  BY <1>0, <1>2, WithHoldEffect DEF Frozen, catalogVars, moneyVars, disputeVars
<1>3. CASE \E ids \in SUBSET Ids : batch_cancel_settlements(ids)
  BY <1>1, <1>3 DEF batch_cancel_settlements, write_settlement
<1>4. CASE \E i \in Ids : force_cancel_settlement(i)
  BY <1>1, <1>4 DEF force_cancel_settlement, write_settlement
<1>5. CASE \E i \in Ids : expire_settlement(i)
  BY <1>1, <1>5 DEF expire_settlement, write_settlement
<1>6. CASE \E i \in Ids : \E r, e : hold_settlement(i, r, e)
  BY <1>2, <1>6 DEF hold_settlement, write_settlement
<1>7. CASE \E i \in Ids : release_hold(i)
  BY <1>2, <1>7 DEF release_hold, write_settlement
<1>8. CASE Configure
  BY <1>8 DEF Configure, Frozen, tableVars, catalogVars, moneyVars, disputeVars
<1> QED BY <1>3, <1>4, <1>5, <1>6, <1>7, <1>8, PausedSettlementCalls

(* The one dispute call that a paused contract still accepts is expiry.     *)
LEMMA PausedDisputeStep ==
  ASSUME TypeOK, paused, DisputeNext
  PROVE  Frozen
<1>0. settlements \in [Ids -> Settlement] /\ disputes \in [DisputeIds -> Dispute]
  BY DEF TypeOK, SettlementTypeOK
<1>1. PICK d \in DisputeIds : expire_dispute(d)
  BY DEF DisputeNext, require_not_paused, raise_dispute, resolve_dispute,
     resolve_dispute_split, vote_dispute_resolution
<1>2. \A e \in DisputeIds :
        disputes'[e].resolution_approvals = disputes[e].resolution_approvals
  BY <1>0, <1>1 DEF expire_dispute, Dispute
<1>3. disputes[d].settlement_id \in Ids
  BY <1>0 DEF Dispute
<1>4. \A i \in Ids : settlements'[i].approvals = settlements[i].approvals
  BY <1>0, <1>1, <1>3, WithHoldEffect DEF expire_dispute, tableVars,
     release_settlement_hold_if_no_open_disputes, write_settlement
<1> QED BY <1>1, <1>2, <1>4 DEF Frozen, expire_dispute, catalogVars, moneyVars

(* While the contract is paused no token moves, nothing is proposed or      *)
(* disputed and no approval or vote is recorded or withdrawn, for every     *)
(* caller and every order of calls.                                         *)
THEOREM PauseStopsCallers == Spec => PauseFreezesCallers
<1>1. TypeOK /\ [Next]_vars => [paused => Frozen]_vars
  <2> SUFFICES ASSUME TypeOK, Next, paused PROVE Frozen
    OBVIOUS
  <2>1. CASE UNCHANGED <<settlementVars, disputeVars>>
    BY <2>1 DEF Frozen, settlementVars, tableVars, catalogVars, moneyVars, disputeVars
  <2> QED BY <2>1, PausedSettlementStep, PausedDisputeStep DEF Next
<1> QED BY <1>1, TypeCorrect, PTL DEF Spec, PauseFreezesCallers, Frozen

(***************************************************************************)
(* How disputes end.                                                       *)
(***************************************************************************)

(* Dispute ids are handed out in order, and a vote has weight.              *)
DisputesFresh == \A d \in DisputeIds : d > disputeCount => disputes[d] = NoDispute
VotesWeigh ==
  \A d \in DisputeIds :
    disputes[d].resolution_approvals # {} => disputes[d].resolution_weight # 0

(* What a call does to one dispute: it is raised, ended by a call that      *)
(* looks at the hold of its settlement, voted on, or left alone.            *)
Raises(d) ==
  /\ d = disputeCount + 1 /\ disputeCount' = d
  /\ disputes'[d].status = "Raised" /\ disputes'[d].resolution_approvals = {}
Ends(d) ==
  /\ disputes[d].status = "Raised" /\ disputes'[d].status # "Raised"
  /\ disputes'[d].settlement_id = disputes[d].settlement_id
  /\ disputes'[d].resolution_approvals = disputes[d].resolution_approvals
  /\ disputes'[d].resolution_weight = disputes[d].resolution_weight
  /\ disputes'[d].resolution_for_claimant = disputes[d].resolution_for_claimant
  /\ disputeCount' = disputeCount
  /\ release_settlement_hold_if_no_open_disputes(disputes', disputes[d].settlement_id)
Votes(d, s) ==
  LET weight == counted_weight(disputes[d].resolution_approvals,
                               disputes[d].resolution_weight, s)
  IN /\ require_authorized_signer(s)
     /\ s \notin disputes[d].resolution_approvals
     /\ disputes[d].status = "Raised"
     /\ direction_agrees(disputes[d], disputes'[d].resolution_for_claimant)
     /\ disputes'[d].settlement_id = disputes[d].settlement_id
     /\ disputes'[d].resolution_approvals = disputes[d].resolution_approvals \cup {s}
     /\ disputes'[d].resolution_weight = weight
     /\ disputes'[d].status = IF meets_threshold(weight)
                                THEN verdict(disputes'[d].resolution_for_claimant)
                                ELSE "Raised"
     /\ UNCHANGED <<disputeCount, settlements>>

(* A dispute step is about one dispute and leaves the others alone.         *)
DisputeForm(d) ==
  /\ \A e \in DisputeIds \ {d} : disputes'[e] = disputes[e]
  /\ \/ Raises(d) /\ \A i \in Ids : settlements[i].status = "OnHold" =>
                                      settlements'[i] = settlements[i]
     \/ Ends(d)
     \/ \E s \in Signers : Votes(d, s)

(* Every dispute entry point has that form.                                 *)
LEMMA DisputeStepForm ==
  ASSUME TypeOK, DisputeNext
  PROVE  \E d \in DisputeIds : DisputeForm(d)
<1>0. disputes \in [DisputeIds -> Dispute] /\ settlements \in [Ids -> Settlement]
  BY DEF TypeOK, SettlementTypeOK
<1>1. ASSUME NEW i \in Ids, NEW a, NEW e, raise_dispute(i, a, e)
      PROVE  \E d \in DisputeIds : DisputeForm(d)
  <2> DEFINE id == disputeCount + 1
             new == [settlement_id |-> i, amount |-> a, status |-> "Raised",
                     resolution_approvals |-> {}, resolution_weight |-> 0,
                     resolution_for_claimant |-> FALSE, dispute_expires_at |-> e,
                     claimant_share_bps |-> 0]
  <2>1. id \in DisputeIds /\ disputeCount' = id /\ disputes' = [disputes EXCEPT ![id] = new]
    BY <1>1 DEF raise_dispute
  <2>2. \A k \in Ids : settlements[k].status = "OnHold" => settlements'[k] = settlements[k]
    BY <1>0, <1>1, WithStatusEffect DEF raise_dispute, is_pending, write_settlement, tableVars
  <2>3. new.status = "Raised" /\ new.resolution_approvals = {}
    OBVIOUS
  <2> HIDE DEF id, new
  <2>4. disputes'[id] = new /\ \A k \in DisputeIds \ {id} : disputes'[k] = disputes[k]
    BY <1>0, <2>1
  <2>5. Raises(id)
    BY <2>1, <2>3, <2>4 DEF Raises, id
  <2> QED BY <2>1, <2>2, <2>4, <2>5 DEF DisputeForm
<1>2. ASSUME NEW d \in DisputeIds, expire_dispute(d) PROVE DisputeForm(d)
  BY <1>0, <1>2 DEF expire_dispute, DisputeForm, Ends, Dispute
<1>3. ASSUME NEW d \in DisputeIds, NEW c \in BOOLEAN, resolve_dispute(d, c) PROVE DisputeForm(d)
  BY <1>0, <1>3 DEF resolve_dispute, verdict, DisputeForm, Ends, Dispute
<1>4. ASSUME NEW d \in DisputeIds, NEW b, NEW t, resolve_dispute_split(d, b, t)
      PROVE  DisputeForm(d)
  BY <1>0, <1>4 DEF resolve_dispute_split, DisputeForm, Ends, Dispute
<1>5. ASSUME NEW s \in Signers, NEW d \in DisputeIds, NEW c \in BOOLEAN,
             vote_dispute_resolution(s, d, c)
      PROVE  DisputeForm(d)
  <2> DEFINE dsp == disputes[d]
             weight == counted_weight(dsp.resolution_approvals, dsp.resolution_weight, s)
             st == IF meets_threshold(weight) THEN verdict(c) ELSE "Raised"
             new == [dsp EXCEPT !.resolution_approvals = @ \cup {s},
                                !.resolution_weight = weight,
                                !.resolution_for_claimant = c,
                                !.status = st]
  <2>1. /\ disputes' = [disputes EXCEPT ![d] = new]
        /\ require_authorized_signer(s) /\ s \notin dsp.resolution_approvals
        /\ dsp.status = "Raised" /\ direction_agrees(dsp, c)
        /\ UNCHANGED <<disputeCount, settlements>>
    BY <1>5 DEF vote_dispute_resolution, tableVars
  <2>2. /\ new.settlement_id = dsp.settlement_id
        /\ new.resolution_approvals = dsp.resolution_approvals \cup {s}
        /\ new.resolution_weight = weight
        /\ new.resolution_for_claimant = c
        /\ new.status = st
    <3> HIDE DEF weight, st
    <3> QED BY <1>0 DEF Dispute
  <2> HIDE DEF new
  <2>3. disputes'[d] = new /\ \A e \in DisputeIds \ {d} : disputes'[e] = disputes[e]
    BY <1>0, <2>1
  <2>4. Votes(d, s)
    BY <2>1, <2>2, <2>3 DEF Votes
  <2> QED BY <2>3, <2>4 DEF DisputeForm
<1> QED BY <1>1, <1>2, <1>3, <1>4, <1>5 DEF DisputeNext

(* Only the dispute entry points write disputes.                            *)
LEMMA OthersKeepDisputes ==
  ASSUME [Next]_vars, ~DisputeNext
  PROVE  UNCHANGED disputeVars
BY DEF Next, vars

DisputeInv == TypeOK /\ DisputesFresh /\ VotesWeigh

(* DisputeInv holds in every reachable state.                               *)
LEMMA DisputeInvariant == Spec => []DisputeInv
<1>1. Init => DisputesFresh /\ VotesWeigh
  BY DEF Init, DisputeInit, DisputesFresh, VotesWeigh, NoDispute
<1>2. DisputeInv /\ [Next]_vars => DisputesFresh' /\ VotesWeigh'
  <2> SUFFICES ASSUME DisputeInv, [Next]_vars PROVE DisputesFresh' /\ VotesWeigh'
    OBVIOUS
  <2>1. CASE UNCHANGED disputeVars
    BY <2>1 DEF DisputeInv, DisputesFresh, VotesWeigh, disputeVars
  <2>2. CASE DisputeNext
    <3>0. /\ disputes \in [DisputeIds -> Dispute] /\ disputeCount \in Nat
          /\ DisputesFresh /\ VotesWeigh
      BY DEF DisputeInv, TypeOK
    <3>1. PICK d \in DisputeIds : DisputeForm(d)
      BY <2>2, DisputeStepForm DEF DisputeInv
    <3>2. d \in Nat /\ \A e \in DisputeIds : e \in Nat
      BY DEF DisputeIds
    <3>3. \A e \in DisputeIds \ {d} : disputes'[e] = disputes[e]
      BY <3>1 DEF DisputeForm
    <3>4. CASE Raises(d)
      BY <3>0, <3>2, <3>3, <3>4 DEF Raises, DisputesFresh, VotesWeigh
    <3>5. CASE Ends(d)
      <4>1. ~(d > disputeCount)
        BY <3>0, <3>5 DEF Ends, DisputesFresh, NoDispute
      <4> QED BY <3>0, <3>3, <3>5, <4>1 DEF Ends, DisputesFresh, VotesWeigh
    <3>6. ASSUME NEW s \in Signers, Votes(d, s) PROVE DisputesFresh' /\ VotesWeigh'
      <4>1. ~(d > disputeCount)
        BY <3>0, <3>6 DEF Votes, DisputesFresh, NoDispute
      <4>2. disputes[d].resolution_weight \in Nat
        BY <3>0, RegistryAssumption DEF Dispute
      <4>3. signer_weight(s) \in Nat /\ signer_weight(s) # 0
        BY <3>6, RegistryAssumption DEF Votes, require_authorized_signer, signer_weight,
           DisputeInv, TypeOK, RegistryTypeOK
      <4>4. disputes'[d].resolution_weight # 0
        BY <3>6, <4>2, <4>3 DEF Votes, counted_weight
      <4> QED BY <3>0, <3>3, <3>6, <4>1, <4>4 DEF Votes, DisputesFresh, VotesWeigh
    <3> QED BY <3>1, <3>4, <3>5, <3>6 DEF DisputeForm
  <2> QED BY <2>1, <2>2, OthersKeepDisputes
<1> QED BY <1>1, <1>2, InitType, TypeStep, PTL DEF Spec, DisputeInv

(* The release lifts the hold exactly when the new table has no open        *)
(* dispute on the settlement, and touches no other.                         *)
LEMMA ReleaseEffect ==
  ASSUME TypeOK, NEW i \in Ids, NEW table,
         release_settlement_hold_if_no_open_disputes(table, i)
  PROVE  /\ \A k \in Ids \ {i} : settlements'[k] = settlements[k]
         /\ IF settlements[i].status = "OnHold" /\ ~has_open(table, i)
            THEN settlements'[i].status = "Pending"
            ELSE settlements'[i] = settlements[i]
<1>0. settlements \in [Ids -> Settlement]
  BY DEF TypeOK, SettlementTypeOK
<1> QED BY <1>0, WithHoldEffect DEF release_settlement_hold_if_no_open_disputes,
           write_settlement, tableVars

(* One of two disputes ending never lifts the hold of a settlement: a       *)
(* dispute call that does leaves no open dispute on it.                     *)
THEOREM HoldOutlivesOpenDisputes == Spec => HoldEndsWithLastDispute
<1> DEFINE Kept ==
      \A i \in Ids :
        (/\ settlements[i].status = "OnHold"
         /\ settlements'[i].status = "Pending"
         /\ disputes' # disputes) =>
          \A d \in DisputeIds : ~(/\ disputes'[d].settlement_id = i
                                  /\ disputes'[d].status = "Raised")
<1>1. DisputeInv /\ DisputeInv' /\ [Next]_vars => [Kept]_vars
  <2> SUFFICES ASSUME DisputeInv, DisputeInv', Next, NEW i \in Ids,
                      settlements[i].status = "OnHold", settlements'[i].status = "Pending",
                      disputes' # disputes, NEW e \in DisputeIds,
                      disputes'[e].settlement_id = i, disputes'[e].status = "Raised"
               PROVE  FALSE
    OBVIOUS
  <2>1. DisputeNext
    BY OthersKeepDisputes DEF disputeVars
  <2>2. PICK d \in DisputeIds : DisputeForm(d)
    BY <2>1, DisputeStepForm DEF DisputeInv
  <2>3. Ends(d)
    BY <2>2 DEF DisputeForm, Votes
  <2>4. disputes[d].settlement_id \in Ids
    BY DEF DisputeInv, TypeOK, Dispute
  <2>5. ~has_open(disputes', i)
    BY <2>3, <2>4, ReleaseEffect DEF Ends, DisputeInv
  <2>6. e > disputeCount
    <3>1. ~(e <= disputeCount)
      BY <2>5 DEF has_open
    <3>2. e \in Nat /\ disputeCount \in Nat
      BY DEF DisputeIds, DisputeInv, TypeOK
    <3> QED BY <3>1, <3>2
  <2>7. disputes'[e] = NoDispute
    BY <2>3, <2>6 DEF Ends, DisputeInv, DisputesFresh
  <2> QED BY <2>7 DEF NoDispute
<1> QED BY <1>1, DisputeInvariant, PTL DEF Spec, HoldEndsWithLastDispute

(* The last open dispute on a settlement takes the hold with it, unless     *)
(* votes decided it.                                                        *)
THEOREM LastDisputeFreesSettlement == Spec => LastDisputeLiftsHold
<1> DEFINE Lifted ==
      \A d \in DisputeIds :
        (LastDisputeEnds(d)
         /\ disputes'[d].resolution_approvals = disputes[d].resolution_approvals)
          => settlements'[disputes[d].settlement_id].status # "OnHold"
<1>1. DisputeInv /\ [Next]_vars => [Lifted]_vars
  <2> SUFFICES ASSUME DisputeInv, Next, NEW d \in DisputeIds, LastDisputeEnds(d),
                      disputes'[d].resolution_approvals = disputes[d].resolution_approvals
               PROVE  settlements'[disputes[d].settlement_id].status # "OnHold"
    OBVIOUS
  <2> USE DEF LastDisputeEnds
  <2>1. DisputeNext
    BY OthersKeepDisputes DEF disputeVars
  <2>2. DisputeForm(d)
    BY <2>1, DisputeStepForm DEF DisputeForm, DisputeInv
  <2>3. Ends(d)
    BY <2>2 DEF DisputeForm, Raises, Votes
  <2>4. disputes[d].settlement_id \in Ids
    BY DEF DisputeInv, TypeOK, Dispute
  <2>5. ~has_open(disputes', disputes[d].settlement_id)
    BY DEF has_open
  <2> QED BY <2>3, <2>4, <2>5, ReleaseEffect DEF Ends, DisputeInv
<1> QED BY <1>1, DisputeInvariant, PTL DEF Spec, LastDisputeLiftsHold

(* The direction of the first vote never turns, and with unit weights votes *)
(* decide only with threshold distinct voters, for the side they voted for. *)
THEOREM VotesDecideWithQuorum == Spec => VotesDecide
<1> DEFINE Decides ==
      \A d \in DisputeIds :
        LET old == disputes[d]
            new == disputes'[d] IN
        /\ old.resolution_approvals # {} =>
             new.resolution_for_claimant = old.resolution_for_claimant
        /\ (/\ UnitWeights
            /\ old.status = "Raised" /\ new.status # "Raised"
            /\ new.resolution_approvals # old.resolution_approvals) =>
             /\ Cardinality(new.resolution_approvals) >= threshold
             /\ new.status = verdict(new.resolution_for_claimant)
<1>1. DisputeInv /\ CountInv' /\ [Next]_vars => [Decides]_vars
  <2> SUFFICES ASSUME DisputeInv, CountInv', Next, NEW d \in DisputeIds
               PROVE  /\ disputes[d].resolution_approvals # {} =>
                           disputes'[d].resolution_for_claimant
                             = disputes[d].resolution_for_claimant
                      /\ (/\ UnitWeights
                          /\ disputes[d].status = "Raised" /\ disputes'[d].status # "Raised"
                          /\ disputes'[d].resolution_approvals
                               # disputes[d].resolution_approvals) =>
                           /\ Cardinality(disputes'[d].resolution_approvals) >= threshold
                           /\ disputes'[d].status = verdict(disputes'[d].resolution_for_claimant)
    OBVIOUS
  <2>1. CASE disputes'[d] = disputes[d]
    BY <2>1
  <2>2. CASE disputes'[d] # disputes[d]
    <3>1. DisputeNext
      BY <2>2, OthersKeepDisputes DEF disputeVars
    <3>2. DisputeForm(d)
      BY <2>2, <3>1, DisputeStepForm DEF DisputeForm, DisputeInv
    <3>3. CASE Raises(d)
      <4>1. disputes[d] = NoDispute
        <5>1. disputeCount \in Nat /\ d > disputeCount
          BY <3>3 DEF Raises, DisputeInv, TypeOK
        <5> QED BY <5>1 DEF DisputeInv, DisputesFresh
      <4> QED BY <3>3, <4>1 DEF NoDispute, Raises
    <3>4. CASE Ends(d)
      BY <3>4 DEF Ends
    <3>5. ASSUME NEW s \in Signers, Votes(d, s)
          PROVE  /\ disputes[d].resolution_approvals # {} =>
                      disputes'[d].resolution_for_claimant
                        = disputes[d].resolution_for_claimant
                 /\ UnitWeights /\ disputes'[d].status # "Raised" =>
                      /\ Cardinality(disputes'[d].resolution_approvals) >= threshold
                      /\ disputes'[d].status = verdict(disputes'[d].resolution_for_claimant)
      <4>1. disputes[d].resolution_approvals # {} =>
              disputes'[d].resolution_for_claimant = disputes[d].resolution_for_claimant
        BY <3>5 DEF Votes, direction_agrees, DisputeInv, VotesWeigh
      <4>2. UnitWeights => disputes'[d].resolution_weight
                             = Cardinality(disputes'[d].resolution_approvals)
        BY DEF CountInv, DisputesCount, Counts, UnitWeights
      <4>3. disputes'[d].status # "Raised" =>
              /\ disputes'[d].resolution_weight >= threshold
              /\ disputes'[d].status = verdict(disputes'[d].resolution_for_claimant)
        BY <3>5 DEF Votes, meets_threshold
      <4> QED BY <4>1, <4>2, <4>3
    <3> QED BY <3>2, <3>3, <3>4, <3>5 DEF DisputeForm
  <2> QED BY <2>1, <2>2
<1> QED BY <1>1, DisputeInvariant, CountInvariant, PTL DEF Spec, VotesDecide

(***************************************************************************)
(* The treasury implements the settlement life cycle.                      *)
(***************************************************************************)

(* A close of live settlements is a step of the life cycle.                 *)
LEMMA CloseImplements ==
  ASSUME TypeOK, NEW ids \in SUBSET Ids, NEW st \in {"Cancelled", "Expired"},
         \A i \in ids : settlements[i].status \in Live,
         settlements' = WithStatus(ids, st), paid' = paid
  PROVE  Life!LifecycleNext
<1>0. settlements \in [Ids -> Settlement]
  BY DEF TypeOK, SettlementTypeOK
<1>1. \A i \in Ids :
        /\ settlements'[i].status = IF i \in ids THEN st ELSE settlements[i].status
        /\ settlements'[i].amount = settlements[i].amount
  BY <1>0, WithStatusEffect
<1>2. Life!Close(ids)
  BY <1>1 DEF Life!Close, Life!Live, StageOf, Live
<1> QED BY <1>2 DEF Life!LifecycleNext

(* A call that leaves the statuses, the amounts and the payouts alone is a  *)
(* stuttering step of the life cycle.                                       *)
LEMMA StutterImplements ==
  ASSUME \A i \in Ids : /\ settlements'[i].status = settlements[i].status
                        /\ settlements'[i].amount = settlements[i].amount,
         paid' = paid
  PROVE  UNCHANGED Life!lifecycleVars
BY DEF Life!lifecycleVars

(* A full payout of live settlements that were paid nothing is a step.      *)
LEMMA PayImplements ==
  ASSUME PayInv, NEW ids \in SUBSET Ids,
         \A i \in ids : settlements[i].status \in Live,
         settlements' = WithStatus(ids, "Executed"),
         paid' = [i \in Ids |-> IF i \in ids THEN paid[i] + settlements[i].amount ELSE paid[i]]
  PROVE  Life!LifecycleNext
<1>0. settlements \in [Ids -> Settlement]
  BY DEF PayInv, TypeOK, SettlementTypeOK
<1>1. \A i \in Ids :
        /\ settlements'[i].status = IF i \in ids THEN "Executed" ELSE settlements[i].status
        /\ settlements'[i].amount = settlements[i].amount
  BY <1>0, WithStatusEffect
<1>2. \A i \in ids : paid[i] + settlements[i].amount = settlements[i].amount
  <2>1. \A i \in Ids : settlements[i].amount \in Nat
    BY <1>0 DEF Settlement
  <2>2. \A i \in ids : paid[i] = 0
    BY DEF PayInv, PaidMatchesStatus, Live
  <2> QED BY <2>1, <2>2
<1>3. Life!Pay(ids)
  BY <1>1, <1>2 DEF Life!Pay, Life!Live, StageOf, Live
<1> QED BY <1>3 DEF Life!LifecycleNext

(* A partial payout of an open settlement is a step.                        *)
LEMMA PayPartImplements ==
  ASSUME PayInv, NEW i \in Ids, NEW part \in Nat, part > 0, part < settlements[i].amount,
         settlements[i].status = "Pending",
         settlements' = WithStatus({i}, "PartiallyExecuted"),
         paid' = [paid EXCEPT ![i] = @ + part]
  PROVE  Life!LifecycleNext
<1>0. settlements \in [Ids -> Settlement] /\ paid \in [Ids -> Nat]
  BY DEF PayInv, TypeOK, SettlementTypeOK
<1>1. \A k \in Ids :
        /\ settlements'[k].status = IF k = i THEN "PartiallyExecuted" ELSE settlements[k].status
        /\ settlements'[k].amount = settlements[k].amount
  BY <1>0, WithStatusEffect
<1>2. paid[i] = 0
  BY DEF PayInv, PaidMatchesStatus
<1>3. paid' = [paid EXCEPT ![i] = part] /\ paid'[i] = part
  BY <1>0, <1>2
<1>4. Life!PayPart(i, part)
  <2>1. [k \in Ids |-> StageOf(settlements[k].status)][i] = "open"
    BY DEF StageOf
  <2>2. [k \in Ids |-> StageOf(settlements'[k].status)]
          = [[k \in Ids |-> StageOf(settlements[k].status)] EXCEPT ![i] = "part_paid"]
    BY <1>1 DEF StageOf
  <2>3. [k \in Ids |-> settlements'[k].amount] = [k \in Ids |-> settlements[k].amount]
    BY <1>1
  <2>4. 0 < part /\ part < [k \in Ids |-> settlements[k].amount][i]
    OBVIOUS
  <2> QED BY <1>3, <2>1, <2>2, <2>3, <2>4 DEF Life!PayPart
<1>5. Life!PayPart(i, paid'[i])
  BY <1>3, <1>4
<1> QED BY <1>5 DEF Life!LifecycleNext

(* A hold or a release is a step, or a stutter when the stage stays.        *)
LEMMA HoldImplements ==
  ASSUME TypeOK, NEW i \in Ids, settlements[i].status \in Live,
         settlements'[i].status \in Live,
         settlements'[i].amount = settlements[i].amount,
         \A k \in Ids \ {i} : settlements'[k] = settlements[k],
         paid' = paid
  PROVE  Life!LifecycleNext \/ UNCHANGED Life!lifecycleVars
<1>1. CASE settlements'[i].status = settlements[i].status
  <2>1. \A k \in Ids : /\ settlements'[k].status = settlements[k].status
                       /\ settlements'[k].amount = settlements[k].amount
    BY <1>1
  <2> QED BY <2>1, StutterImplements
<1>2. CASE settlements[i].status = "Pending" /\ settlements'[i].status = "OnHold"
  <2>1. Life!Hold(i)
    BY <1>2 DEF Life!Hold, StageOf
  <2> QED BY <2>1 DEF Life!LifecycleNext
<1>3. CASE settlements[i].status = "OnHold" /\ settlements'[i].status = "Pending"
  <2>1. Life!Release(i)
    BY <1>3 DEF Life!Release, StageOf
  <2> QED BY <2>1 DEF Life!LifecycleNext
<1> QED BY <1>1, <1>2, <1>3 DEF Live

(* A proposal opens the next settlement.                                    *)
LEMMA ProposeImplements ==
  ASSUME PayInv, NEW s, NEW m, NEW a \in Amounts, NEW dl, propose(s, m, a, dl)
  PROVE  Life!LifecycleNext
<1> DEFINE id == settlementCount + 1
           stl == [merchant |-> m, amount |-> a, approvals |-> {s},
                   approval_weight |-> counted_weight({}, 0, s),
                   status |-> "Pending", hold_reason |-> "None",
                   proposed_at |-> now, execution_deadline |-> dl]
<1>0. /\ settlements \in [Ids -> Settlement] /\ settlementCount \in Nat
      /\ a \in Nat /\ a > 0
  BY SettlementAssumption DEF PayInv, TypeOK, SettlementTypeOK
<1>1. /\ id \in Ids /\ settlements' = [settlements EXCEPT ![id] = stl]
      /\ paid' = paid
  BY DEF propose, write_settlement, moneyVars
<1>2. stl.status = "Pending" /\ stl.amount = a
  OBVIOUS
<1>3. /\ settlements[id].status = "Absent"
      /\ \A k \in Ids : k < id => settlements[k].status # "Absent"
  BY <1>0, <1>1 DEF PayInv, FreshIds, Allocated, Ids
<1> HIDE DEF stl, id
<1>4. \A k \in Ids : settlements'[k] = IF k = id THEN stl ELSE settlements[k]
  BY <1>0, <1>1
<1>5. [k \in Ids |-> settlements'[k].amount][id] = a
  BY <1>1, <1>2, <1>4
<1>6. [k \in Ids |-> StageOf(settlements[k].status)][id] = "unborn"
  BY <1>1, <1>3 DEF StageOf
<1>7. \A k \in Ids : k < id => [n \in Ids |-> StageOf(settlements[n].status)][k] # "unborn"
  BY <1>3 DEF StageOf
<1>8. [k \in Ids |-> StageOf(settlements'[k].status)]
        = [[k \in Ids |-> StageOf(settlements[k].status)] EXCEPT ![id] = "open"]
  BY <1>2, <1>4 DEF StageOf
<1>9. [k \in Ids |-> settlements'[k].amount]
        = [[k \in Ids |-> settlements[k].amount] EXCEPT ![id] = a]
  BY <1>2, <1>4
<1> QED BY <1>0, <1>1, <1>5, <1>6, <1>7, <1>8, <1>9 DEF Life!LifecycleNext, Life!Open

(* An approval leaves the stage and the amount.                             *)
LEMMA ApprovalImplements ==
  ASSUME TypeOK, NEW ids, NEW s, settlements' = WithApproval(ids, s), paid' = paid
  PROVE  UNCHANGED Life!lifecycleVars
<1>0. settlements \in [Ids -> Settlement]
  BY DEF TypeOK, SettlementTypeOK
<1>1. \A i \in Ids : /\ settlements'[i].status = settlements[i].status
                     /\ settlements'[i].amount = settlements[i].amount
  BY <1>0 DEF WithApproval, Settlement
<1> QED BY <1>1, StutterImplements

(* The table after a hold or a release, as the life cycle sees it.          *)
LEMMA WithHoldImplements ==
  ASSUME TypeOK, NEW i \in Ids, settlements[i].status \in Live, NEW st \in Live, NEW r,
         settlements' = WithHold(i, st, r), paid' = paid
  PROVE  Life!LifecycleNext \/ UNCHANGED Life!lifecycleVars
<1>0. settlements \in [Ids -> Settlement]
  BY DEF TypeOK, SettlementTypeOK
<1>1. /\ settlements'[i].status = st /\ settlements'[i].amount = settlements[i].amount
      /\ \A k \in Ids \ {i} : settlements'[k] = settlements[k]
  BY <1>0 DEF WithHold, Settlement
<1> QED BY <1>1, HoldImplements

(* The release at the end of a dispute, as the life cycle sees it.          *)
LEMMA ReleaseImplements ==
  ASSUME TypeOK, NEW i \in Ids, NEW table,
         release_settlement_hold_if_no_open_disputes(table, i), paid' = paid
  PROVE  Life!LifecycleNext \/ UNCHANGED Life!lifecycleVars
<1>1. CASE settlements[i].status = "OnHold" /\ settlements' = WithHold(i, "Pending", "None")
  BY <1>1, WithHoldImplements DEF Live
<1>2. CASE UNCHANGED settlements
  BY <1>2, StutterImplements
<1> QED BY <1>1, <1>2 DEF release_settlement_hold_if_no_open_disputes, write_settlement,
           tableVars

(* Every settlement entry point is a step of the life cycle or a stutter.   *)
LEMMA SettlementImplements ==
  ASSUME PayInv, SettlementNext
  PROVE  Life!LifecycleNext \/ UNCHANGED Life!lifecycleVars
<1> DEFINE Goal == Life!LifecycleNext \/ UNCHANGED Life!lifecycleVars
<1>0. /\ TypeOK /\ settlements \in [Ids -> Settlement] /\ paid \in [Ids -> Nat]
  BY DEF PayInv, TypeOK, SettlementTypeOK
<1>1. ASSUME NEW s, NEW m, NEW a \in Amounts, NEW d, propose_settlement(s, m, a, d) PROVE Goal
  BY <1>1, ProposeImplements DEF propose_settlement
<1>2. ASSUME NEW s, NEW m, NEW a \in Amounts, propose_settlement_with_token(s, m, a) PROVE Goal
  BY <1>2, ProposeImplements DEF propose_settlement_with_token
<1>3. ASSUME NEW s, NEW i \in Ids, approve_settlement(s, i) PROVE Goal
  BY <1>0, <1>3, ApprovalImplements DEF approve_settlement, write_settlement, moneyVars
<1>4. ASSUME NEW s, NEW i \in Ids, revoke_approval(s, i) PROVE Goal
  <2>1. /\ settlements' = [settlements EXCEPT ![i].approvals = @ \ {s},
                                             ![i].approval_weight = revoked_weight(@, s)]
        /\ paid' = paid
    BY <1>4 DEF revoke_approval, write_settlement, moneyVars
  <2>2. \A k \in Ids : /\ settlements'[k].status = settlements[k].status
                       /\ settlements'[k].amount = settlements[k].amount
    BY <1>0, <2>1 DEF Settlement
  <2> QED BY <2>1, <2>2, StutterImplements
<1>5. ASSUME NEW s, NEW ids \in SUBSET Ids, batch_approve_settlements(s, ids) PROVE Goal
  BY <1>0, <1>5, ApprovalImplements DEF batch_approve_settlements, write_settlement, moneyVars
<1>6. ASSUME NEW s, NEW i \in Ids, NEW part, approve_partial_settlement(s, i, part) PROVE Goal
  BY <1>0, <1>6, ApprovalImplements DEF approve_partial_settlement, write_settlement, moneyVars
<1>7. ASSUME NEW s, NEW i \in Ids, NEW t, execute_settlement(s, i, t) PROVE Goal
  <2>1. /\ settlements' = WithStatus({i}, "Executed")
        /\ paid' = [paid EXCEPT ![i] = @ + settlements[i].amount]
        /\ settlements[i].status \in Live
    BY <1>7 DEF execute_settlement, write_settlement, executable, is_pending, Live
  <2>2. paid' = [k \in Ids |-> IF k \in {i} THEN paid[k] + settlements[k].amount ELSE paid[k]]
    BY <1>0, <2>1
  <2> QED BY <2>1, <2>2, PayImplements
<1>8. ASSUME NEW s, NEW ids \in SUBSET Ids, NEW t, batch_execute_settlements(s, ids, t)
      PROVE  Goal
  <2> DEFINE due == {i \in ids : /\ is_pending(i)
                                 /\ meets_threshold(settlements[i].approval_weight)}
  <2>1. /\ settlements' = WithStatus(due, "Executed")
        /\ paid' = [i \in Ids |-> IF i \in due THEN paid[i] + settlements[i].amount ELSE paid[i]]
    BY <1>8 DEF batch_execute_settlements
  <2>2. due \in SUBSET Ids /\ \A i \in due : settlements[i].status \in Live
    BY DEF is_pending, Live
  <2> HIDE DEF due
  <2> QED BY <2>1, <2>2, PayImplements
<1>9. ASSUME NEW s, NEW i \in Ids, NEW t, NEW part \in 1 .. settlements[i].amount,
             partially_execute_settlement(s, i, part, t)
      PROVE  Goal
  <2>1. settlements[i].amount \in Nat
    BY <1>0 DEF Settlement
  <2>2. /\ settlements' = WithStatus({i}, "PartiallyExecuted")
        /\ paid' = [paid EXCEPT ![i] = @ + part]
        /\ settlements[i].status = "Pending" /\ part > 0 /\ part < settlements[i].amount
    BY <1>9 DEF partially_execute_settlement, write_settlement, is_pending
  <2>3. part \in Nat
    BY <2>1
  <2> QED BY <2>2, <2>3, PayPartImplements
<1>10. ASSUME NEW s, NEW i \in Ids, cancel_settlement(s, i) PROVE Goal
  BY <1>0, <1>10, CloseImplements DEF cancel_settlement, write_settlement, is_pending, Live,
     moneyVars
<1>11. ASSUME NEW ids \in SUBSET Ids, batch_cancel_settlements(ids) PROVE Goal
  BY <1>0, <1>11, CloseImplements DEF batch_cancel_settlements, write_settlement, is_pending,
     Live, moneyVars
<1>12. ASSUME NEW i \in Ids, force_cancel_settlement(i) \/ expire_settlement(i) PROVE Goal
  BY <1>0, <1>12, CloseImplements DEF force_cancel_settlement, expire_settlement,
     write_settlement, is_pending, Live, moneyVars
<1>13. ASSUME NEW i \in Ids, NEW r, NEW e, hold_settlement(i, r, e) PROVE Goal
  BY <1>0, <1>13, WithHoldImplements DEF hold_settlement, write_settlement, is_pending, Live,
     moneyVars
<1>14. ASSUME NEW i \in Ids, release_hold(i) PROVE Goal
  BY <1>0, <1>14, WithHoldImplements DEF release_hold, write_settlement, Live, moneyVars
<1>15. CASE Configure
  BY <1>15, StutterImplements DEF Configure, tableVars, moneyVars
<1> HIDE DEF Goal
<1> QED
  BY <1>1, <1>2, <1>3, <1>4, <1>5, <1>6, <1>7, <1>8, <1>9, <1>10, <1>11, <1>12,
     <1>13, <1>14, <1>15 DEF SettlementNext, Goal

(* So is every dispute entry point.                                         *)
LEMMA DisputeImplements ==
  ASSUME PayInv, DisputeNext
  PROVE  Life!LifecycleNext \/ UNCHANGED Life!lifecycleVars
<1> DEFINE Goal == Life!LifecycleNext \/ UNCHANGED Life!lifecycleVars
<1>0. /\ TypeOK /\ settlements \in [Ids -> Settlement]
      /\ \A d \in DisputeIds : disputes[d].settlement_id \in Ids
  BY DEF PayInv, TypeOK, SettlementTypeOK, Dispute
<1>1. ASSUME NEW i \in Ids, NEW a, NEW e, raise_dispute(i, a, e) PROVE Goal
  <2>0. paid' = paid
    BY <1>1 DEF raise_dispute, moneyVars
  <2>1. CASE is_pending(i)
    <3>1. settlements' = WithStatus({i}, "OnHold")
      BY <1>1, <2>1 DEF raise_dispute, write_settlement
    <3>2. /\ settlements'[i].status = "OnHold"
          /\ settlements'[i].amount = settlements[i].amount
          /\ \A k \in Ids \ {i} : settlements'[k] = settlements[k]
      BY <1>0, <3>1, WithStatusEffect
    <3> QED BY <1>0, <2>0, <2>1, <3>2, HoldImplements DEF is_pending, Live
  <2>2. CASE ~is_pending(i)
    BY <1>1, <2>0, <2>2, StutterImplements DEF raise_dispute, tableVars
  <2> QED BY <2>1, <2>2
<1>2. ASSUME NEW d \in DisputeIds, expire_dispute(d) PROVE Goal
  BY <1>0, <1>2, ReleaseImplements DEF expire_dispute, moneyVars
<1>3. ASSUME NEW d \in DisputeIds, NEW c, resolve_dispute(d, c) PROVE Goal
  BY <1>0, <1>3, ReleaseImplements DEF resolve_dispute, moneyVars
<1>4. ASSUME NEW d \in DisputeIds, NEW b, NEW t, resolve_dispute_split(d, b, t) PROVE Goal
  BY <1>0, <1>4, ReleaseImplements DEF resolve_dispute_split
<1>5. ASSUME NEW s, NEW d, NEW c, vote_dispute_resolution(s, d, c) PROVE Goal
  BY <1>5, StutterImplements DEF vote_dispute_resolution, tableVars, moneyVars
<1> HIDE DEF Goal
<1> QED BY <1>1, <1>2, <1>3, <1>4, <1>5 DEF DisputeNext, Goal

(* The treasury implements the life cycle: whatever is called, in whatever  *)
(* order, a settlement is opened once, in order of ids, may be held and     *)
(* released, and ends once, with exactly what its end says received.        *)
THEOREM TreasuryImplementsLifecycle == Spec => ImplementsLifecycle
<1>1. Init => Life!LifecycleInit
  <2> SUFFICES ASSUME Init PROVE Life!LifecycleInit
    OBVIOUS
  <2>0. NoSettlement.status = "Absent" /\ NoSettlement.amount = 0
    BY DEF NoSettlement
  <2>1. \A i \in Ids : settlements[i] = NoSettlement
    BY DEF Init, SettlementInit
  <2>2. paid = [i \in Ids |-> 0]
    BY DEF Init, SettlementInit
  <2>3. [i \in Ids |-> StageOf(settlements[i].status)] = [i \in Ids |-> "unborn"]
    <3>1. \A i \in Ids : settlements[i].status = "Absent"
      BY <2>0, <2>1
    <3>2. StageOf("Absent") = "unborn"
      BY DEF StageOf
    <3> QED BY <3>1, <3>2
  <2>4. [i \in Ids |-> settlements[i].amount] = [i \in Ids |-> 0]
    BY <2>0, <2>1
  <2> QED BY <2>2, <2>3, <2>4 DEF Life!LifecycleInit
<1>2. PayInv /\ [Next]_vars => [Life!LifecycleNext]_(Life!lifecycleVars)
  <2> SUFFICES ASSUME PayInv, [Next]_vars
               PROVE  Life!LifecycleNext \/ UNCHANGED Life!lifecycleVars
    OBVIOUS
  <2>1. CASE UNCHANGED settlementVars
    BY <2>1, StutterImplements DEF settlementVars, tableVars, moneyVars
  <2> QED BY <2>1, SettlementImplements, DisputeImplements DEF Next, vars
<1> QED BY <1>1, <1>2, PayInvariant, PTL DEF Spec, ImplementsLifecycle, Life!LifecycleSpec
(***************************************************************************)
(* Where the money went.                                                   *)
(***************************************************************************)
Disputed == [d \in DisputeIds |-> disputes[d].amount]

(* Ids, DisputeIds and the tokens are finite, and what is summed over them  *)
(* are natural numbers.                                                     *)
LEMMA MoneyTables ==
  ASSUME TypeOK
  PROVE  /\ IsFiniteSet(Tokens) /\ IsFiniteSet(Ids) /\ IsFiniteSet(DisputeIds)
         /\ Natural(pool, Tokens) /\ Natural(paid, Ids) /\ Natural(Disputed, DisputeIds)
         /\ SumOver(pool, Tokens) \in Nat /\ SumOver(paid, Ids) \in Nat
         /\ IsFiniteSet(SplitDisputes) /\ Natural(Disputed, SplitDisputes)
         /\ SumOver(Disputed, SplitDisputes) \in Nat
<1>1. IsFiniteSet(Tokens)
  BY SettlementAssumption
<1>2. IsFiniteSet(Ids)
  BY FS_Interval, SettlementAssumption DEF Ids
<1>3. IsFiniteSet(DisputeIds)
  BY FS_Interval, DisputeAssumption DEF DisputeIds
<1>4. Natural(pool, Tokens) /\ Natural(paid, Ids)
  BY DEF TypeOK, SettlementTypeOK, Natural
<1>5. Natural(Disputed, DisputeIds)
  BY DEF TypeOK, Dispute, Natural, Disputed
<1>6. IsFiniteSet(SplitDisputes) /\ Natural(Disputed, SplitDisputes)
  BY <1>3, <1>5, FS_Subset DEF SplitDisputes, Natural
<1> QED
  BY <1>1, <1>2, <1>3, <1>4, <1>5, <1>6, SumType

(* A transfer takes its amount from the sum of the balances.                *)
LEMMA TransferSum ==
  ASSUME TypeOK, NEW token \in Tokens, NEW n \in Nat, transfer(token, n)
  PROVE  SumOver(pool', Tokens) = SumOver(pool, Tokens) - n
<1>1. IsFiniteSet(Tokens) /\ Natural(pool, Tokens) /\ SumOver(pool, Tokens) \in Nat
  BY MoneyTables
<1>2. pool \in [Tokens -> Nat]
  BY DEF TypeOK, SettlementTypeOK
<1>3. /\ pool[token] \in Nat
      /\ pool'[token] = pool[token] - n /\ pool'[token] \in Nat
      /\ \A t \in Tokens \ {token} : pool'[t] = pool[t]
  BY <1>2 DEF transfer
<1>4. SumOver(pool', Tokens) = SumOver(pool, Tokens) - pool[token] + pool'[token]
  BY <1>1, <1>3, SumChange
<1> QED
  BY <1>1, <1>3, <1>4

(* A payout on one settlement adds its amount to the sum of the payouts.    *)
LEMMA PayoutSum ==
  ASSUME TypeOK, NEW i \in Ids, NEW n \in Nat, paid' = [paid EXCEPT ![i] = @ + n]
  PROVE  SumOver(paid', Ids) = SumOver(paid, Ids) + n
<1>1. IsFiniteSet(Ids) /\ Natural(paid, Ids) /\ SumOver(paid, Ids) \in Nat
  BY MoneyTables
<1>2. paid \in [Ids -> Nat]
  BY DEF TypeOK, SettlementTypeOK
<1>3. /\ paid[i] \in Nat
      /\ paid'[i] = paid[i] + n /\ paid'[i] \in Nat
      /\ \A j \in Ids \ {i} : paid'[j] = paid[j]
  BY <1>2
<1>4. SumOver(paid', Ids) = SumOver(paid, Ids) - paid[i] + paid'[i]
  <2> DEFINE g == paid'
  <2>1. g[i] \in Nat /\ \A j \in Ids \ {i} : g[j] = paid[j]
    BY <1>3
  <2> HIDE DEF g
  <2>2. SumOver(g, Ids) = SumOver(paid, Ids) - paid[i] + g[i]
    BY <1>1, <2>1, SumChange
  <2> QED
    BY <2>2 DEF g
<1> QED
  BY <1>1, <1>3, <1>4

(* A batch adds to the payouts the sum that it transfers.                   *)
LEMMA BatchSum ==
  ASSUME TypeOK, NEW due \in SUBSET Ids,
         paid' = [i \in Ids |-> IF i \in due THEN paid[i] + settlements[i].amount ELSE paid[i]]
  PROVE  LET charged == SumOver([i \in Ids |-> AmountDue(i)], due)
         IN  charged \in Nat /\ SumOver(paid', Ids) = SumOver(paid, Ids) + charged
<1> DEFINE amount == [i \in Ids |-> AmountDue(i)]
           added == [i \in Ids |-> IF i \in due THEN amount[i] ELSE 0]
           rest == Ids \ due
<1>1. IsFiniteSet(Ids) /\ Natural(paid, Ids) /\ SumOver(paid, Ids) \in Nat
  BY MoneyTables
<1>2. \A i \in Ids : amount[i] \in Nat /\ amount[i] = settlements[i].amount
  BY DEF TypeOK, SettlementTypeOK, Settlement, AmountDue
<1> HIDE DEF amount
<1>3. Natural(amount, due) /\ Natural(added, Ids)
  BY <1>2 DEF Natural
<1>4. \A i \in Ids : paid'[i] = paid[i] + added[i]
  BY <1>1, <1>2 DEF Natural
<1>5. /\ \A i \in due : added[i] = amount[i]
      /\ \A i \in rest : added[i] = 0
      /\ due \cap rest = {} /\ due \cup rest = Ids
  OBVIOUS
<1>6. IsFiniteSet(due) /\ IsFiniteSet(rest)
  BY <1>1, FS_Subset
<1> HIDE DEF added, rest
<1>7. SumOver(paid', Ids) = SumOver(paid, Ids) + SumOver(added, Ids)
  BY <1>1, <1>3, <1>4, SumPlus
<1>8. SumOver(added, Ids) = SumOver(added, due) + SumOver(added, rest)
  BY <1>3, <1>5, <1>6, SumSplit
<1>9. SumOver(added, due) = SumOver(amount, due) /\ SumOver(added, rest) = 0
  BY <1>3, <1>5, <1>6, SumSame, SumZeros
<1>10. SumOver(amount, due) \in Nat
  BY <1>3, <1>6, SumType
<1> QED
  BY <1>1, <1>7, <1>8, <1>9, <1>10 DEF amount

(* What left the treasury so far, and what it still holds.                  *)
Accounted ==
  SumOver(pool, Tokens) + SumOver(paid, Ids) + SumOver(Disputed, SplitDisputes)

(* The settlement calls pay out what they transfer.                         *)
LEMMA SettlementMoney ==
  ASSUME TypeOK, SettlementNext, UNCHANGED disputeVars
  PROVE  Accounted' = Accounted
<1>0. /\ SumOver(pool, Tokens) \in Nat /\ SumOver(paid, Ids) \in Nat
      /\ SumOver(Disputed, SplitDisputes) \in Nat
  BY MoneyTables
<1>1. Disputed' = Disputed /\ SplitDisputes' = SplitDisputes
  BY DEF disputeVars, Disputed, SplitDisputes
<1>2. ASSUME NEW n \in Nat,
             SumOver(pool', Tokens) = SumOver(pool, Tokens) - n,
             SumOver(paid', Ids) = SumOver(paid, Ids) + n
      PROVE  Accounted' = Accounted
  BY <1>0, <1>1, <1>2 DEF Accounted
<1>3. ASSUME UNCHANGED moneyVars PROVE Accounted' = Accounted
  BY <1>1, <1>3 DEF moneyVars, Accounted
<1>4. \A i \in Ids : settlements[i].amount \in Nat
  BY DEF TypeOK, SettlementTypeOK, Settlement
<1>5. ASSUME NEW s, NEW i \in Ids, NEW t \in Tokens, execute_settlement(s, i, t)
      PROVE  Accounted' = Accounted
  <2>1. /\ transfer(t, settlements[i].amount)
        /\ paid' = [paid EXCEPT ![i] = @ + settlements[i].amount]
    BY <1>5 DEF execute_settlement
  <2> QED
    BY <1>2, <1>4, <2>1, TransferSum, PayoutSum
<1>6. ASSUME NEW s, NEW ids \in SUBSET Ids, NEW t \in Tokens,
             batch_execute_settlements(s, ids, t)
      PROVE  Accounted' = Accounted
  <2> DEFINE due == {i \in ids : /\ is_pending(i)
                                 /\ meets_threshold(settlements[i].approval_weight)}
             charged == SumOver([i \in Ids |-> AmountDue(i)], due)
  <2>1. /\ transfer(t, charged)
        /\ paid' = [i \in Ids |-> IF i \in due THEN paid[i] + settlements[i].amount
                                               ELSE paid[i]]
    BY <1>6 DEF batch_execute_settlements
  <2>2. due \in SUBSET Ids
    OBVIOUS
  <2> HIDE DEF due
  <2>3. charged \in Nat /\ SumOver(paid', Ids) = SumOver(paid, Ids) + charged
    BY <2>1, <2>2, BatchSum
  <2> HIDE DEF charged
  <2> QED
    BY <1>2, <2>1, <2>3, TransferSum
<1>7. ASSUME NEW s, NEW i \in Ids, NEW t \in Tokens, NEW part \in 1 .. settlements[i].amount,
             partially_execute_settlement(s, i, part, t)
      PROVE  Accounted' = Accounted
  <2>1. transfer(t, part) /\ paid' = [paid EXCEPT ![i] = @ + part] /\ part \in Nat
    BY <1>4, <1>7 DEF partially_execute_settlement
  <2> QED
    BY <1>2, <2>1, TransferSum, PayoutSum
<1>8. ASSUME ~ UNCHANGED moneyVars
      PROVE  \/ \E s \in Signers, i \in Ids, t \in Tokens : execute_settlement(s, i, t)
             \/ \E s \in Signers, ids \in SUBSET Ids, t \in Tokens :
                  batch_execute_settlements(s, ids, t)
             \/ \E s \in Signers, i \in Ids, t \in Tokens :
                  \E part \in 1 .. settlements[i].amount :
                    partially_execute_settlement(s, i, part, t)
  BY <1>8, Zenon DEF SettlementNext, propose_settlement, propose_settlement_with_token, propose,
    approve_settlement, revoke_approval, batch_approve_settlements,
    approve_partial_settlement, cancel_settlement, batch_cancel_settlements,
    force_cancel_settlement, expire_settlement, hold_settlement, release_hold, Configure
<1> QED
  BY <1>3, <1>5, <1>6, <1>7, <1>8

(* The sum of the disputes that were split does not change when one that is *)
(* not, and does not become, split is written.                              *)
LEMMA SplitSumKept ==
  ASSUME TypeOK, TypeOK', NEW d \in DisputeIds,
         \A e \in DisputeIds \ {d} : disputes'[e] = disputes[e],
         disputes[d].status # "ResolvedSplit", disputes'[d].status # "ResolvedSplit"
  PROVE  SumOver(Disputed', SplitDisputes') = SumOver(Disputed, SplitDisputes)
<1>1. SplitDisputes' = SplitDisputes
  BY DEF SplitDisputes
<1>2. \A e \in SplitDisputes : Disputed'[e] = Disputed[e]
  BY DEF SplitDisputes, Disputed
<1> QED
  BY <1>1, <1>2, MoneyTables, SumSame

(* The two halves of a split are the whole amount of the dispute.           *)
LEMMA SplitSumAdds ==
  ASSUME TypeOK, NEW d \in DisputeIds, NEW b \in Bps, NEW t \in Tokens,
         resolve_dispute_split(d, b, t)
  PROVE  /\ disputes[d].amount \in Nat
         /\ transfer(t, disputes[d].amount)
         /\ SumOver(Disputed', SplitDisputes')
              = SumOver(Disputed, SplitDisputes) + disputes[d].amount
<1> DEFINE amount == disputes[d].amount
           total == apply_bps(amount, b) + counterparty_share(amount, b)
<1>0. disputes \in [DisputeIds -> Dispute]
  BY DEF TypeOK
<1>1. amount \in Nat
  BY <1>0 DEF Dispute
<1>2. total = amount
  <2>1. b \in Nat
    BY DisputeAssumption
  <2>2. amount * b \in Int
    BY <1>1, <2>1
  <2>3. apply_bps(amount, b) \in Int
    BY <2>2 DEF apply_bps, BPS_DENOMINATOR
  <2> HIDE DEF amount
  <2> QED
    BY <1>1, <2>3 DEF counterparty_share
<1>3. transfer(t, total) /\ disputes[d].status = "Raised"
      /\ disputes' = [disputes EXCEPT ![d].status = "ResolvedSplit",
                                      ![d].claimant_share_bps = b]
  BY DEF resolve_dispute_split
<1>4. transfer(t, amount)
  <2> HIDE DEF total, amount
  <2> QED
    BY <1>2, <1>3
<1>5. /\ disputes'[d].status = "ResolvedSplit" /\ disputes'[d].amount = amount
      /\ \A e \in DisputeIds \ {d} : disputes'[e] = disputes[e]
  BY <1>0, <1>3 DEF Dispute
<1>6. d \notin SplitDisputes /\ SplitDisputes' = SplitDisputes \cup {d}
  BY <1>3, <1>5 DEF SplitDisputes
<1>7. \A e \in SplitDisputes \cup {d} : Disputed'[e] = Disputed[e]
  BY <1>5 DEF SplitDisputes, Disputed
<1>8. Disputed[d] = amount /\ SplitDisputes \cup {d} \subseteq DisputeIds
  BY DEF Disputed, SplitDisputes
<1>9. /\ IsFiniteSet(SplitDisputes) /\ Natural(Disputed, DisputeIds)
      /\ IsFiniteSet(DisputeIds)
  BY MoneyTables
<1>10. IsFiniteSet(SplitDisputes \cup {d}) /\ Natural(Disputed, SplitDisputes \cup {d})
  BY <1>8, <1>9, FS_Subset DEF Natural
<1>11. SumOver(Disputed', SplitDisputes') = SumOver(Disputed, SplitDisputes \cup {d})
  BY <1>6, <1>7, <1>10, SumSame
<1>12. SumOver(Disputed, SplitDisputes \cup {d}) = SumOver(Disputed, SplitDisputes) + amount
  BY <1>6, <1>8, <1>9, <1>10, SumAdd
<1> QED
  BY <1>1, <1>4, <1>11, <1>12

(* The dispute calls pay out what they transfer, which only splits do.      *)
LEMMA DisputeMoney ==
  ASSUME DisputeInv, TypeOK', DisputeNext
  PROVE  Accounted' = Accounted
<1>0. /\ SumOver(pool, Tokens) \in Nat /\ SumOver(paid, Ids) \in Nat
      /\ SumOver(Disputed, SplitDisputes) \in Nat
      /\ disputes \in [DisputeIds -> Dispute] /\ TypeOK
  BY MoneyTables DEF DisputeInv, TypeOK
<1>1. ASSUME NEW d \in DisputeIds, UNCHANGED moneyVars,
             \A e \in DisputeIds \ {d} : disputes'[e] = disputes[e],
             disputes[d].status # "ResolvedSplit", disputes'[d].status # "ResolvedSplit"
      PROVE  Accounted' = Accounted
  BY <1>0, <1>1, SplitSumKept DEF moneyVars, Accounted
<1>2. ASSUME NEW i \in Ids, NEW a, NEW e, raise_dispute(i, a, e)
      PROVE  Accounted' = Accounted
  <2> DEFINE id == disputeCount + 1
  <2>1. id \in DisputeIds /\ UNCHANGED moneyVars
    BY <1>2 DEF raise_dispute
  <2>2. disputes'[id].status = "Raised" /\ \A k \in DisputeIds \ {id} : disputes'[k] = disputes[k]
    BY <1>0, <1>2, <2>1 DEF raise_dispute
  <2>3. disputes[id] = NoDispute
    BY <2>1 DEF DisputeInv, DisputesFresh, TypeOK, DisputeIds
  <2>4. disputes[id].status = "Absent"
    BY <2>3 DEF NoDispute
  <2> HIDE DEF id
  <2> QED
    BY <1>1, <2>1, <2>2, <2>4
<1>3. ASSUME NEW d \in DisputeIds, expire_dispute(d)
      PROVE  Accounted' = Accounted
  <2>1. /\ UNCHANGED moneyVars
        /\ disputes[d].status # "ResolvedSplit" /\ disputes'[d].status # "ResolvedSplit"
        /\ \A k \in DisputeIds \ {d} : disputes'[k] = disputes[k]
    BY <1>0, <1>3 DEF expire_dispute, Dispute
  <2> QED
    BY <1>1, <2>1
<1>4. ASSUME NEW d \in DisputeIds, NEW c \in BOOLEAN, resolve_dispute(d, c)
      PROVE  Accounted' = Accounted
  <2>1. /\ UNCHANGED moneyVars
        /\ disputes[d].status # "ResolvedSplit" /\ disputes'[d].status # "ResolvedSplit"
        /\ \A k \in DisputeIds \ {d} : disputes'[k] = disputes[k]
    BY <1>0, <1>4 DEF resolve_dispute, verdict, Dispute
  <2> QED
    BY <1>1, <2>1
<1>5. ASSUME NEW d \in DisputeIds, NEW b \in Bps, NEW t \in Tokens,
             resolve_dispute_split(d, b, t)
      PROVE  Accounted' = Accounted
  <2>1. /\ disputes[d].amount \in Nat
        /\ transfer(t, disputes[d].amount)
        /\ SumOver(Disputed', SplitDisputes')
             = SumOver(Disputed, SplitDisputes) + disputes[d].amount
    BY <1>0, <1>5, SplitSumAdds
  <2>2. SumOver(pool', Tokens) = SumOver(pool, Tokens) - disputes[d].amount
    BY <1>0, <2>1, TransferSum
  <2>3. paid' = paid
    BY <1>5 DEF resolve_dispute_split
  <2> QED
    BY <1>0, <2>1, <2>2, <2>3 DEF Accounted
<1>6. ASSUME NEW s \in Signers, NEW d \in DisputeIds, NEW c \in BOOLEAN,
             vote_dispute_resolution(s, d, c)
      PROVE  Accounted' = Accounted
  <2>1. /\ UNCHANGED moneyVars
        /\ disputes[d].status = "Raised"
        /\ \A k \in DisputeIds \ {d} : disputes'[k] = disputes[k]
    BY <1>0, <1>6 DEF vote_dispute_resolution
  <2>2. disputes'[d].status # "ResolvedSplit"
    BY <1>0, <1>6 DEF vote_dispute_resolution, verdict, Dispute
  <2> QED
    BY <1>1, <2>1, <2>2
<1> QED
  BY <1>2, <1>3, <1>4, <1>5, <1>6 DEF DisputeNext

(* Every unit the treasury started with is still in a token balance, was    *)
(* paid on a settlement or went to the two parties of a split dispute, for  *)
(* any finite set of tokens and any amounts: batch_execute_settlements      *)
(* charges the sum of what it pays, and the truncating basis-point split of *)
(* resolve_dispute_split creates and loses no dust.                         *)
THEOREM FundsStayAccounted == Spec => []FundsAccounted
<1>0. FundsAccounted <=> Accounted = Funds * Cardinality(Tokens)
  BY DEF FundsAccounted, Accounted, Disputed
<1>1. Init => Accounted = Funds * Cardinality(Tokens)
  <2> SUFFICES ASSUME Init PROVE Accounted = Funds * Cardinality(Tokens)
    OBVIOUS
  <2>0. TypeOK
    BY InitType
  <2>1. /\ pool = [t \in Tokens |-> Funds] /\ paid = [i \in Ids |-> 0]
        /\ disputes = [d \in DisputeIds |-> NoDispute]
    BY DEF Init, SettlementInit, DisputeInit
  <2>2. SplitDisputes = {}
    BY <2>1 DEF SplitDisputes, NoDispute
  <2>3. SumOver(Disputed, SplitDisputes) = 0
    BY <2>2, SumEmpty
  <2>4. SumOver(paid, Ids) = 0
    BY <2>0, <2>1, MoneyTables, SumZeros
  <2>5. SumOver(pool, Tokens) = Funds * Cardinality(Tokens)
    BY <2>0, <2>1, MoneyTables, SumConstant, SettlementAssumption
  <2>6. SumOver(pool, Tokens) \in Nat
    BY <2>0, MoneyTables
  <2> QED
    BY <2>3, <2>4, <2>5, <2>6 DEF Accounted
<1>2. DisputeInv /\ DisputeInv' /\ [Next]_vars => Accounted' = Accounted
  <2>1. ASSUME UNCHANGED <<settlementVars, disputeVars>> PROVE Accounted' = Accounted
    BY <2>1 DEF settlementVars, moneyVars, disputeVars, Accounted, Disputed, SplitDisputes
  <2> QED
    BY <2>1, SettlementMoney, DisputeMoney DEF Next, vars, DisputeInv
<1>3. FundsAccounted /\ DisputeInv /\ DisputeInv' /\ [Next]_vars => FundsAccounted'
  <2>1. Accounted' = Accounted => (FundsAccounted <=> FundsAccounted')
    BY DEF FundsAccounted, Accounted, Disputed
  <2> QED
    BY <1>2, <2>1
<1>4. Init => FundsAccounted
  BY <1>0, <1>1
<1> QED
  BY <1>3, <1>4, DisputeInvariant, PTL DEF Spec
=============================================================================
