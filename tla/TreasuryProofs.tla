--------------------------- MODULE TreasuryProofs ---------------------------
(***************************************************************************)
(* Proofs about the treasury, for any number of signers, settlements,      *)
(* disputes, tokens and merchants. First the types; then a classification  *)
(* ("shape") of what any call may do to one settlement, which the payout   *)
(* and quorum theorems are read off from.                                  *)
(***************************************************************************)
EXTENDS Treasury, FiniteSetTheorems, TLAPS

(* The record standing for an absent settlement is a settlement.            *)
LEMMA NoSettlementType == NoSettlement \in Settlement
BY RegistryAssumption, SettlementAssumption DEF NoSettlement, Settlement, Statuses

(* The record standing for an absent dispute is a dispute.                  *)
LEMMA NoDisputeType == NoDispute \in Dispute
<1>1. 1 \in Ids
  BY SettlementAssumption DEF Ids
<1> QED
BY <1>1, RegistryAssumption, SettlementAssumption DEF NoDispute, Dispute, DisputeStatuses

(* initialize leaves every storage entry of its type.                       *)
LEMMA InitType == Init => TypeOK
<1> SUFFICES ASSUME Init PROVE TypeOK
  OBVIOUS
<1>1. RegistryTypeOK
  <2>1. PICK named \in SUBSET Signers, w \in [Signers -> Weights \cup {0}] :
          /\ signerWeight = [s \in Signers |->
               IF s \in named THEN w[s] ELSE IF s = Admin THEN 1 ELSE 0]
          /\ \E extra \in SUBSET {s \in named : w[s] = 0} :
               signerList = {Admin} \cup {s \in named : w[s] > 0} \cup extra
    BY DEF Init, RegistryInit
  <2>2. \A s \in Signers : w[s] \in 0 .. MaxWeight
    <3>1. MaxWeight \in Nat /\ \A x \in Weights : x \in 0 .. MaxWeight
      BY RegistryAssumption
    <3> QED BY <3>1
  <2>3. signerWeight \in [Signers -> 0 .. MaxWeight]
    BY <2>1, <2>2, RegistryAssumption
  <2>4. signerList \subseteq Signers
    BY <2>1, RegistryAssumption
  <2>5. threshold \in 1 .. MaxWeight /\ now \in Nat
    BY RegistryAssumption DEF Init, RegistryInit
  <2> QED BY <2>3, <2>4, <2>5 DEF RegistryTypeOK
<1>2. SettlementTypeOK
  <2>1. settlements \in [Ids -> Settlement] /\ pendingIndex \subseteq Ids
    BY NoSettlementType DEF Init, SettlementInit
  <2>2. merchantSettlements \in [Merchants -> Seq(Ids)]
    BY DEF Init, SettlementInit
  <2>3. /\ holdExpiry \in [Ids -> Nat \cup {NoTime}]
        /\ partialApproved \in [Ids -> Nat]
        /\ partialExecuted \in [Ids -> Nat]
        /\ pool \in [Tokens -> Nat]
        /\ paid \in [Ids -> Nat]
    BY SettlementAssumption DEF Init, SettlementInit
  <2>4. settlementCount \in 0 .. MaxSettlements
    BY SettlementAssumption DEF Init, SettlementInit
  <2>5. /\ paused \in BOOLEAN
        /\ settlementExpiry \in Nat
        /\ compliancePinned \in BOOLEAN
        /\ allowed \subseteq Merchants
    BY SettlementAssumption DEF Init, SettlementInit
  <2> QED BY <2>1, <2>2, <2>3, <2>4, <2>5 DEF SettlementTypeOK
<1>3. disputes \in [DisputeIds -> Dispute] /\ disputeCount \in 0 .. MaxDisputes
  BY NoDisputeType, DisputeAssumption DEF Init, DisputeInit
<1> QED BY <1>1, <1>2, <1>3 DEF TypeOK

(* record_approval panics before a weight leaves u32.                       *)
LEMMA CountedWeightType ==
  ASSUME TypeOK, NEW approvals, NEW w \in 0 .. MaxWeight, NEW s \in Signers,
         record_approval(approvals, w, s)
  PROVE  counted_weight(approvals, w, s) \in 0 .. MaxWeight
BY RegistryAssumption DEF TypeOK, RegistryTypeOK, record_approval, counted_weight, signer_weight

(* write_settlement keeps the table, the index and the expiries typed.      *)
LEMMA WriteType ==
  ASSUME TypeOK, NEW ids \in SUBSET Ids, NEW new \in [Ids -> Settlement],
         NEW expiry \in [Ids -> Nat \cup {NoTime}],
         write_settlement(ids, new, expiry)
  PROVE  /\ settlements' \in [Ids -> Settlement]
         /\ pendingIndex' \subseteq Ids
         /\ holdExpiry' \in [Ids -> Nat \cup {NoTime}]
BY DEF write_settlement, TypeOK, SettlementTypeOK

(* A settlement with a new status is typed.                                 *)
LEMMA StatusTyped ==
  ASSUME NEW e \in Settlement, NEW st \in Statuses
  PROVE  [e EXCEPT !.status = st] \in Settlement
BY DEF Settlement

(* So is one with a new status and hold reason.                             *)
LEMMA HoldTyped ==
  ASSUME NEW e \in Settlement, NEW st \in Statuses, NEW r \in HoldReasons \cup {"None"}
  PROVE  [e EXCEPT !.status = st, !.hold_reason = r] \in Settlement
BY DEF Settlement

(* So is one with new approvals and a new weight of them.                   *)
LEMMA ApprovalTyped ==
  ASSUME NEW e \in Settlement, NEW w \in 0 .. MaxWeight, NEW signers \in SUBSET Signers
  PROVE  /\ [e EXCEPT !.approval_weight = w, !.approvals = signers] \in Settlement
         /\ [e EXCEPT !.approvals = signers, !.approval_weight = w] \in Settlement
<1>1. [e EXCEPT !.approval_weight = w, !.approvals = signers] \in Settlement
  BY DEF Settlement
<1>2. [e EXCEPT !.approvals = signers, !.approval_weight = w] \in Settlement
  BY DEF Settlement
<1> QED BY <1>1, <1>2, Zenon

(* Changing the status of some settlements keeps the table typed.           *)
LEMMA WithStatusType ==
  ASSUME TypeOK, NEW ids \in SUBSET Ids, NEW st \in Statuses
  PROVE  WithStatus(ids, st) \in [Ids -> Settlement]
<1>1. \A i \in Ids : settlements[i] \in Settlement
  BY DEF TypeOK, SettlementTypeOK
<1>2. \A i \in Ids : [settlements[i] EXCEPT !.status = st] \in Settlement
  BY <1>1, StatusTyped, Zenon
<1> QED BY <1>1, <1>2, Zenon DEF WithStatus

(* Holding or releasing a settlement keeps the table typed.                 *)
LEMMA WithHoldType ==
  ASSUME TypeOK, NEW i \in Ids, NEW st \in Statuses,
         NEW r \in HoldReasons \cup {"None"}
  PROVE  WithHold(i, st, r) \in [Ids -> Settlement]
<1>0. settlements[i] \in Settlement
  BY DEF TypeOK, SettlementTypeOK
<1>1. [settlements[i] EXCEPT !.status = st, !.hold_reason = r] \in Settlement
  BY <1>0, HoldTyped, Zenon
<1> QED BY <1>1 DEF WithHold, TypeOK, SettlementTypeOK

(* Approvals whose weight was counted keep the table typed.                 *)
LEMMA WithApprovalType ==
  ASSUME TypeOK, NEW ids \in SUBSET Ids, NEW s \in Signers,
         \A i \in ids : counted_weight(settlements[i].approvals,
                          settlements[i].approval_weight, s) \in 0 .. MaxWeight
  PROVE  WithApproval(ids, s) \in [Ids -> Settlement]
<1>1. ASSUME NEW i \in Ids PROVE WithApproval(ids, s)[i] \in Settlement
  <2>0. settlements[i] \in Settlement
    BY DEF TypeOK, SettlementTypeOK
  <2>1. CASE i \notin ids
    BY <2>0, <2>1 DEF WithApproval
  <2>2. CASE i \in ids
    <3> DEFINE e == settlements[i]
               w == counted_weight(e.approvals, e.approval_weight, s)
               signers == e.approvals \cup {s}
    <3>1. w \in 0 .. MaxWeight
      BY <2>2
    <3>2. WithApproval(ids, s)[i] = [e EXCEPT !.approval_weight = w, !.approvals = signers]
      BY <2>0, <2>2 DEF WithApproval, Settlement
    <3>3. signers \in SUBSET Signers
      BY <2>0 DEF Settlement
    <3>4. [e EXCEPT !.approval_weight = w, !.approvals = signers] \in Settlement
      <4>1. e \in Settlement
        BY <2>0
      <4> HIDE DEF e, w, signers
      <4> QED BY <3>1, <3>3, <4>1, ApprovalTyped, Zenon
    <3> QED BY <3>2, <3>4, Zenon
  <2> QED BY <2>1, <2>2
<1>2. WithApproval(ids, s) = [i \in Ids |-> WithApproval(ids, s)[i]]
  BY DEF WithApproval
<1> QED BY <1>1, <1>2

TableTyped ==
  /\ settlements \in [Ids -> Settlement]
  /\ pendingIndex \subseteq Ids
  /\ holdExpiry \in [Ids -> Nat \cup {NoTime}]

(* A call that only rewrites the settlement table keeps the types.          *)
LEMMA TableStepType ==
  ASSUME TypeOK, TableTyped',
         UNCHANGED <<catalogVars, moneyVars, configVars, partialApproved,
                     registryVars, now, disputeVars>>
  PROVE  TypeOK'
BY DEF TypeOK, RegistryTypeOK, SettlementTypeOK, TableTyped, catalogVars,
       moneyVars, configVars, registryVars, disputeVars

(* The write behind cancel, expire, execute and raise_dispute is typed.     *)
LEMMA WithStatusWriteType ==
  ASSUME TypeOK, NEW ids \in SUBSET Ids, NEW st \in Statuses,
         write_settlement(ids, WithStatus(ids, st), holdExpiry)
  PROVE  TableTyped'
<1>1. WithStatus(ids, st) \in [Ids -> Settlement]
  BY WithStatusType
<1>2. holdExpiry \in [Ids -> Nat \cup {NoTime}]
  BY DEF TypeOK, SettlementTypeOK
<1> QED BY <1>1, <1>2, WriteType DEF TableTyped

(* The write behind the three approval entry points is typed.               *)
LEMMA WithApprovalWriteType ==
  ASSUME TypeOK, NEW ids \in SUBSET Ids, NEW s \in Signers,
         \A i \in ids : record_approval(settlements[i].approvals,
                          settlements[i].approval_weight, s),
         write_settlement(ids, WithApproval(ids, s), holdExpiry)
  PROVE  TableTyped'
<1>1. ASSUME NEW i \in ids
      PROVE  counted_weight(settlements[i].approvals,
               settlements[i].approval_weight, s) \in 0 .. MaxWeight
  <2>1. settlements[i].approval_weight \in 0 .. MaxWeight
    BY DEF TypeOK, SettlementTypeOK, Settlement
  <2> QED BY <2>1, CountedWeightType
<1>2. WithApproval(ids, s) \in [Ids -> Settlement]
  BY <1>1, WithApprovalType
<1>3. holdExpiry \in [Ids -> Nat \cup {NoTime}]
  BY DEF TypeOK, SettlementTypeOK
<1> QED BY <1>2, <1>3, WriteType DEF TableTyped

(* A transfer out never makes a token balance negative.                     *)
LEMMA TransferType ==
  ASSUME TypeOK, NEW t \in Tokens, NEW amount, transfer(t, amount)
  PROVE  pool' \in [Tokens -> Nat]
BY DEF TypeOK, SettlementTypeOK, transfer

(* A proposal stores a typed settlement under the next id.                  *)
LEMMA ProposeType ==
  ASSUME TypeOK, NEW s \in Signers, NEW m \in Merchants, NEW a \in Amounts,
         NEW dl \in Nat, propose(s, m, a, dl), UNCHANGED disputeVars
  PROVE  TypeOK'
<1> DEFINE id == settlementCount + 1
           new == [merchant |-> m, amount |-> a, approvals |-> {s},
                   approval_weight |-> counted_weight({}, 0, s),
                   status |-> "Pending", hold_reason |-> "None",
                   proposed_at |-> now, execution_deadline |-> dl]
<1>1. counted_weight({}, 0, s) \in 0 .. MaxWeight
  <2>1. 0 \in 0 .. MaxWeight
    BY RegistryAssumption
  <2> QED BY <2>1, CountedWeightType DEF propose
<1>2. a \in Nat /\ now \in Nat
  BY SettlementAssumption DEF TypeOK, RegistryTypeOK
<1>3. new \in Settlement
  BY <1>1, <1>2 DEF Settlement, Statuses
<1>4. id \in Ids
  BY DEF propose
<1>5. [settlements EXCEPT ![id] = new] \in [Ids -> Settlement]
  BY <1>3, <1>4 DEF TypeOK, SettlementTypeOK
<1>6. TableTyped'
  <2>1. write_settlement({id}, [settlements EXCEPT ![id] = new], holdExpiry)
    BY DEF propose
  <2>2. holdExpiry \in [Ids -> Nat \cup {NoTime}]
    BY DEF TypeOK, SettlementTypeOK
  <2> QED BY <1>4, <1>5, <2>1, <2>2, WriteType DEF TableTyped
<1>7. settlementCount' \in 0 .. MaxSettlements
  BY <1>4 DEF propose, Ids
<1>8. merchantSettlements' \in [Merchants -> Seq(Ids)]
  <2>1. merchantSettlements \in [Merchants -> Seq(Ids)]
    BY DEF TypeOK, SettlementTypeOK
  <2> DEFINE ids == merchantSettlements[m]
             kept == IF Len(ids) >= MAX_MERCHANT_SETTLEMENTS THEN Tail(ids) ELSE ids
  <2>2. ids \in Seq(Ids)
    BY <2>1
  <2>3. Len(ids) >= MAX_MERCHANT_SETTLEMENTS => ids # << >>
    BY <2>2, SettlementAssumption
  <2>4. kept \in Seq(Ids)
    BY <2>2, <2>3
  <2>5. Append(kept, id) \in Seq(Ids)
    BY <2>4, <1>4
  <2>6. merchantSettlements' = [merchantSettlements EXCEPT ![m] = Append(kept, id)]
    BY DEF propose, push_merchant_settlement
  <2> QED BY <2>1, <2>5, <2>6
<1> QED
  BY <1>6, <1>7, <1>8 DEF propose, TypeOK, RegistryTypeOK, SettlementTypeOK,
     TableTyped, moneyVars, configVars, registryVars, disputeVars

(* Every settlement entry point preserves the types.                        *)
LEMMA SettlementStepType ==
  ASSUME TypeOK, SettlementNext, UNCHANGED disputeVars
  PROVE  TypeOK'
<1>0. /\ settlements \in [Ids -> Settlement]
      /\ holdExpiry \in [Ids -> Nat \cup {NoTime}]
  BY DEF TypeOK, SettlementTypeOK
<1>1. ASSUME NEW s \in Signers, NEW m \in Merchants, NEW a \in Amounts,
             NEW d \in Deadlines, propose_settlement(s, m, a, d)
      PROVE  TypeOK'
  <2>1. d \in Nat
    BY SettlementAssumption
  <2> QED BY <1>1, <2>1, ProposeType DEF propose_settlement
<1>2. ASSUME NEW s \in Signers, NEW m \in Merchants, NEW a \in Amounts,
             propose_settlement_with_token(s, m, a)
      PROVE  TypeOK'
  BY <1>2, ProposeType DEF propose_settlement_with_token
<1>3. ASSUME NEW s \in Signers, NEW i \in Ids, approve_settlement(s, i)
      PROVE  TypeOK'
  <2>1. TableTyped'
    BY <1>3, WithApprovalWriteType DEF approve_settlement
  <2> QED BY <1>3, <2>1, TableStepType DEF approve_settlement
<1>4. ASSUME NEW s \in Signers, NEW i \in Ids, revoke_approval(s, i)
      PROVE  TypeOK'
  <2> DEFINE new == [settlements EXCEPT
                       ![i].approvals = @ \ {s},
                       ![i].approval_weight = revoked_weight(@, s)]
  <2>1. revoked_weight(settlements[i].approval_weight, s) \in 0 .. MaxWeight
    BY <1>0, RegistryAssumption DEF TypeOK, RegistryTypeOK, Settlement,
       revoked_weight, signer_weight
  <2>2. new \in [Ids -> Settlement]
    <3> DEFINE e == settlements[i]
               w == revoked_weight(e.approval_weight, s)
               signers == e.approvals \ {s}
               rec == [e EXCEPT !.approvals = signers, !.approval_weight = w]
    <3>1. e \in Settlement /\ new = [settlements EXCEPT ![i] = rec]
      BY <1>0 DEF Settlement
    <3>2. signers \in SUBSET Signers /\ w \in 0 .. MaxWeight
      BY <2>1, <3>1 DEF Settlement
    <3>3. rec \in Settlement
      <4> HIDE DEF e, w, signers
      <4> QED BY <3>1, <3>2, ApprovalTyped, Zenon
    <3> HIDE DEF rec, new
    <3> QED BY <1>0, <3>1, <3>3
  <2>3. TableTyped'
    BY <1>0, <1>4, <2>2, WriteType DEF revoke_approval, TableTyped
  <2> QED BY <1>4, <2>3, TableStepType DEF revoke_approval
<1>5. ASSUME NEW s \in Signers, NEW ids \in SUBSET Ids,
             batch_approve_settlements(s, ids)
      PROVE  TypeOK'
  <2> DEFINE open == {i \in ids : is_pending(i)}
  <2>1. open \in SUBSET Ids
    OBVIOUS
  <2>2. /\ \A i \in open : record_approval(settlements[i].approvals,
                             settlements[i].approval_weight, s)
        /\ write_settlement(open, WithApproval(open, s), holdExpiry)
    BY <1>5 DEF batch_approve_settlements, record_approval
  <2> HIDE DEF open
  <2>3. TableTyped'
    BY <2>1, <2>2, WithApprovalWriteType
  <2> QED BY <1>5, <2>3, TableStepType DEF batch_approve_settlements
<1>6. ASSUME NEW s \in Signers, NEW i \in Ids,
             NEW part \in 1 .. settlements[i].amount,
             approve_partial_settlement(s, i, part)
      PROVE  TypeOK'
  <2>1. TableTyped'
    BY <1>6, WithApprovalWriteType DEF approve_partial_settlement
  <2>2. part \in Nat
    BY <1>0 DEF Settlement
  <2>3. partialApproved' \in [Ids -> Nat]
    BY <1>6, <2>2 DEF approve_partial_settlement, TypeOK, SettlementTypeOK
  <2> QED BY <1>6, <2>1, <2>3 DEF approve_partial_settlement, TypeOK,
             RegistryTypeOK, SettlementTypeOK, TableTyped, catalogVars,
             moneyVars, configVars, registryVars, disputeVars
<1>7. ASSUME NEW s \in Signers, NEW i \in Ids, NEW t \in Tokens,
             execute_settlement(s, i, t)
      PROVE  TypeOK'
  <2>1. TableTyped'
    BY <1>7, WithStatusWriteType DEF execute_settlement, Statuses
  <2>2. pool' \in [Tokens -> Nat]
    BY <1>7, TransferType DEF execute_settlement
  <2>3. paid' \in [Ids -> Nat]
    BY <1>0, <1>7 DEF execute_settlement, TypeOK, SettlementTypeOK, Settlement
  <2> QED BY <1>7, <2>1, <2>2, <2>3 DEF execute_settlement, TypeOK,
             RegistryTypeOK, SettlementTypeOK, TableTyped, catalogVars,
             configVars, registryVars, disputeVars
<1>8. ASSUME NEW s \in Signers, NEW ids \in SUBSET Ids, NEW t \in Tokens,
             batch_execute_settlements(s, ids, t)
      PROVE  TypeOK'
  <2> DEFINE due == {i \in ids : /\ is_pending(i)
                          /\ meets_threshold(settlements[i].approval_weight)}
  <2>1. settlements' \in [Ids -> Settlement]
    <3>1. due \in SUBSET Ids /\ settlements' = WithStatus(due, "Executed")
      BY <1>8 DEF batch_execute_settlements
    <3> HIDE DEF due
    <3> QED BY <3>1, WithStatusType DEF Statuses
  <2>2. pool' \in [Tokens -> Nat]
    BY <1>8, TransferType DEF batch_execute_settlements
  <2>3. paid' \in [Ids -> Nat]
    <3>1. paid' = [i \in Ids |-> IF i \in due THEN paid[i] + settlements[i].amount
                                              ELSE paid[i]]
      BY <1>8 DEF batch_execute_settlements
    <3> HIDE DEF due
    <3> QED BY <1>0, <3>1 DEF TypeOK, SettlementTypeOK, Settlement
  <2> QED BY <1>8, <2>1, <2>2, <2>3 DEF batch_execute_settlements, TypeOK,
             RegistryTypeOK, SettlementTypeOK, catalogVars,
             configVars, registryVars, disputeVars
<1>9. ASSUME NEW s \in Signers, NEW i \in Ids, NEW t \in Tokens,
             NEW part \in 1 .. settlements[i].amount,
             partially_execute_settlement(s, i, part, t)
      PROVE  TypeOK'
  <2>1. TableTyped'
    BY <1>9, WithStatusWriteType DEF partially_execute_settlement, Statuses
  <2>2. pool' \in [Tokens -> Nat]
    BY <1>9, TransferType DEF partially_execute_settlement
  <2>3. part \in Nat
    BY <1>0 DEF Settlement
  <2>4. paid' \in [Ids -> Nat] /\ partialExecuted' \in [Ids -> Nat]
    BY <1>9, <2>3 DEF partially_execute_settlement, TypeOK, SettlementTypeOK
  <2> QED BY <1>9, <2>1, <2>2, <2>4 DEF partially_execute_settlement, TypeOK,
             RegistryTypeOK, SettlementTypeOK, TableTyped, catalogVars,
             configVars, registryVars, disputeVars
<1>10. ASSUME NEW s \in Signers, NEW i \in Ids, cancel_settlement(s, i)
       PROVE  TypeOK'
  <2>1. TableTyped'
    BY <1>10, WithStatusWriteType DEF cancel_settlement, Statuses
  <2> QED BY <1>10, <2>1, TableStepType DEF cancel_settlement
<1>11. ASSUME NEW ids \in SUBSET Ids, batch_cancel_settlements(ids)
       PROVE  TypeOK'
  <2>1. TableTyped'
    BY <1>11, WithStatusWriteType DEF batch_cancel_settlements, Statuses
  <2> QED BY <1>11, <2>1, TableStepType DEF batch_cancel_settlements
<1>12. ASSUME NEW i \in Ids, force_cancel_settlement(i) PROVE TypeOK'
  <2>1. TableTyped'
    BY <1>12, WithStatusWriteType DEF force_cancel_settlement, Statuses
  <2> QED BY <1>12, <2>1, TableStepType DEF force_cancel_settlement
<1>13. ASSUME NEW i \in Ids, expire_settlement(i) PROVE TypeOK'
  <2>1. TableTyped'
    BY <1>13, WithStatusWriteType DEF expire_settlement, Statuses
  <2> QED BY <1>13, <2>1, TableStepType DEF expire_settlement
<1>14. ASSUME NEW i \in Ids, NEW r \in HoldReasons \cup {"None"},
              NEW e \in HoldExpiries, hold_settlement(i, r, e)
       PROVE  TypeOK'
  <2>1. WithHold(i, "OnHold", r) \in [Ids -> Settlement]
    BY WithHoldType DEF Statuses
  <2>2. [holdExpiry EXCEPT ![i] = e] \in [Ids -> Nat \cup {NoTime}]
    BY <1>0, SettlementAssumption
  <2>3. TableTyped'
    BY <1>14, <2>1, <2>2, WriteType DEF hold_settlement, TableTyped
  <2> QED BY <1>14, <2>3, TableStepType DEF hold_settlement
<1>15. ASSUME NEW i \in Ids, release_hold(i) PROVE TypeOK'
  <2>1. WithHold(i, "Pending", "None") \in [Ids -> Settlement]
    BY WithHoldType DEF Statuses
  <2>2. [holdExpiry EXCEPT ![i] = NoTime] \in [Ids -> Nat \cup {NoTime}]
    BY <1>0
  <2>3. TableTyped'
    BY <1>15, <2>1, <2>2, WriteType DEF release_hold, TableTyped
  <2> QED BY <1>15, <2>3, TableStepType DEF release_hold
<1>16. ASSUME Configure PROVE TypeOK'
  <2>1. /\ paused' \in BOOLEAN
        /\ compliancePinned' \in BOOLEAN
        /\ allowed' \subseteq Merchants
    BY <1>16 DEF Configure, pause, unpause, set_settlement_expiry,
       set_compliance_id, ComplianceChange, TypeOK, SettlementTypeOK
  <2>2. settlementExpiry' \in Nat
    BY <1>16, SettlementAssumption DEF Configure, pause, unpause,
       set_settlement_expiry, set_compliance_id, ComplianceChange, TypeOK,
       SettlementTypeOK
  <2> QED BY <1>16, <2>1, <2>2 DEF Configure, TypeOK, RegistryTypeOK,
             SettlementTypeOK, tableVars, catalogVars, moneyVars,
             registryVars, disputeVars
<1> QED
  BY <1>1, <1>2, <1>3, <1>4, <1>5, <1>6, <1>7, <1>8, <1>9, <1>10, <1>11,
     <1>12, <1>13, <1>14, <1>15, <1>16 DEF SettlementNext

(* The release shared by the ends of a dispute keeps the table typed.       *)
LEMMA ReleaseType ==
  ASSUME TypeOK, NEW i \in Ids, NEW table,
         release_settlement_hold_if_no_open_disputes(table, i)
  PROVE  TableTyped'
<1>0. TableTyped
  BY DEF TypeOK, SettlementTypeOK, TableTyped
<1>1. CASE write_settlement({i}, WithHold(i, "Pending", "None"), holdExpiry)
  <2>1. WithHold(i, "Pending", "None") \in [Ids -> Settlement]
    BY WithHoldType DEF Statuses
  <2> QED BY <1>0, <1>1, <2>1, WriteType DEF TableTyped
<1>2. CASE UNCHANGED tableVars
  BY <1>0, <1>2 DEF TableTyped, tableVars
<1> QED BY <1>1, <1>2 DEF release_settlement_hold_if_no_open_disputes

(* Every dispute entry point preserves the types.                           *)
LEMMA DisputeStepType ==
  ASSUME TypeOK, DisputeNext
  PROVE  TypeOK'
<1>0. /\ disputes \in [DisputeIds -> Dispute]
      /\ disputeCount \in 0 .. MaxDisputes
      /\ TableTyped
  BY DEF TypeOK, SettlementTypeOK, TableTyped
<1>1. ASSUME NEW d \in DisputeIds
      PROVE  disputes[d].settlement_id \in Ids
  BY <1>0 DEF Dispute
<1>2. ASSUME NEW d \in DisputeIds, NEW st \in DisputeStatuses
      PROVE  [disputes EXCEPT ![d].status = st] \in [DisputeIds -> Dispute]
  BY <1>0 DEF Dispute
<1>3. ASSUME NEW i \in Ids, NEW a \in DisputeAmounts, NEW e \in DisputeExpiries,
             raise_dispute(i, a, e)
      PROVE  TypeOK'
  <2>1. TableTyped'
    <3>1. CASE write_settlement({i}, WithStatus({i}, "OnHold"), holdExpiry)
      BY <3>1, WithStatusWriteType DEF Statuses
    <3>2. CASE UNCHANGED tableVars
      BY <1>0, <3>2 DEF TableTyped, tableVars
    <3> QED BY <1>3, <3>1, <3>2 DEF raise_dispute
  <2>2. disputeCount' \in 0 .. MaxDisputes
    BY <1>3 DEF raise_dispute, DisputeIds
  <2>3. [settlement_id |-> i, amount |-> a, status |-> "Raised",
         resolution_approvals |-> {}, resolution_weight |-> 0,
         resolution_for_claimant |-> FALSE, dispute_expires_at |-> e,
         claimant_share_bps |-> 0] \in Dispute
    BY DisputeAssumption, RegistryAssumption DEF Dispute, DisputeStatuses
  <2>4. disputes' \in [DisputeIds -> Dispute]
    BY <1>0, <1>3, <2>3 DEF raise_dispute
  <2> QED BY <1>3, <2>1, <2>2, <2>4 DEF raise_dispute, TypeOK, RegistryTypeOK,
             SettlementTypeOK, TableTyped, catalogVars, moneyVars, configVars,
             registryVars
<1>4. ASSUME NEW d \in DisputeIds, expire_dispute(d) PROVE TypeOK'
  <2>1. TableTyped'
    BY <1>1, <1>4, ReleaseType DEF expire_dispute
  <2>2. disputes' \in [DisputeIds -> Dispute]
    BY <1>2, <1>4 DEF expire_dispute, DisputeStatuses
  <2> QED BY <1>4, <2>1, <2>2 DEF expire_dispute, TypeOK, RegistryTypeOK,
             SettlementTypeOK, TableTyped, catalogVars, moneyVars, configVars,
             registryVars
<1>5. ASSUME NEW d \in DisputeIds, NEW c \in BOOLEAN, resolve_dispute(d, c)
      PROVE  TypeOK'
  <2>1. TableTyped'
    BY <1>1, <1>5, ReleaseType DEF resolve_dispute
  <2>2. verdict(c) \in DisputeStatuses
    BY DEF verdict, DisputeStatuses
  <2>3. disputes' \in [DisputeIds -> Dispute]
    BY <1>2, <1>5, <2>2 DEF resolve_dispute
  <2> QED BY <1>5, <2>1, <2>3 DEF resolve_dispute, TypeOK, RegistryTypeOK,
             SettlementTypeOK, TableTyped, catalogVars, moneyVars, configVars,
             registryVars
<1>6. ASSUME NEW d \in DisputeIds, NEW b \in Bps, NEW t \in Tokens,
             resolve_dispute_split(d, b, t)
      PROVE  TypeOK'
  <2>1. TableTyped'
    BY <1>1, <1>6, ReleaseType DEF resolve_dispute_split
  <2>2. [disputes[d] EXCEPT !.status = "ResolvedSplit", !.claimant_share_bps = b]
          \in Dispute
    BY <1>0, DisputeAssumption DEF Dispute, DisputeStatuses
  <2>3. disputes' \in [DisputeIds -> Dispute]
    BY <1>0, <1>6, <2>2 DEF resolve_dispute_split
  <2>4. pool' \in [Tokens -> Nat]
    BY <1>6, TransferType DEF resolve_dispute_split
  <2> QED BY <1>6, <2>1, <2>3, <2>4 DEF resolve_dispute_split, TypeOK,
             RegistryTypeOK, SettlementTypeOK, TableTyped, catalogVars,
             configVars, registryVars
<1>7. ASSUME NEW s \in Signers, NEW d \in DisputeIds, NEW c \in BOOLEAN,
             vote_dispute_resolution(s, d, c)
      PROVE  TypeOK'
  <2> DEFINE dsp == disputes[d]
             weight == counted_weight(dsp.resolution_approvals,
                                      dsp.resolution_weight, s)
             st == IF meets_threshold(weight) THEN verdict(c) ELSE "Raised"
  <2>1. weight \in 0 .. MaxWeight
    <3>1. dsp.resolution_weight \in 0 .. MaxWeight
      BY <1>0 DEF Dispute
    <3> QED BY <1>7, <3>1, CountedWeightType DEF vote_dispute_resolution
  <2>2. st \in DisputeStatuses
    BY DEF verdict, DisputeStatuses
  <2>3. disputes' = [disputes EXCEPT ![d] =
           [dsp EXCEPT !.resolution_approvals = @ \cup {s},
                       !.resolution_weight = weight,
                       !.resolution_for_claimant = c,
                       !.status = st]]
    BY <1>7 DEF vote_dispute_resolution
  <2> HIDE DEF weight, st
  <2>4. [dsp EXCEPT !.resolution_approvals = @ \cup {s},
                    !.resolution_weight = weight,
                    !.resolution_for_claimant = c,
                    !.status = st] \in Dispute
    BY <1>0, <2>1, <2>2 DEF Dispute
  <2>5. disputes' \in [DisputeIds -> Dispute]
    BY <1>0, <2>3, <2>4
  <2> QED BY <1>7, <2>5 DEF vote_dispute_resolution, TypeOK, RegistryTypeOK,
             SettlementTypeOK, tableVars, catalogVars, moneyVars, configVars,
             registryVars
<1> QED BY <1>3, <1>4, <1>5, <1>6, <1>7 DEF DisputeNext

(* Signer, threshold and clock steps preserve the types.                    *)
LEMMA RegistryStepType ==
  ASSUME TypeOK, RegistryNext \/ Tick, UNCHANGED <<settlementVars, disputeVars>>
  PROVE  TypeOK'
<1>1. RegistryTypeOK'
  <2>1. ASSUME NEW s \in Signers, NEW w \in Weights, set_signer(s, w)
        PROVE  RegistryTypeOK'
    <3>1. w \in 0 .. MaxWeight
      BY RegistryAssumption
    <3> QED BY <2>1, <3>1 DEF set_signer, TypeOK, RegistryTypeOK
  <2>2. ASSUME NEW s \in Signers, remove_signer(s) PROVE RegistryTypeOK'
    <3>1. 0 \in 0 .. MaxWeight
      BY RegistryAssumption
    <3> QED BY <2>2, <3>1 DEF remove_signer, TypeOK, RegistryTypeOK
  <2>3. ASSUME NEW t \in Thresholds, update_threshold(t) PROVE RegistryTypeOK'
    BY <2>3, RegistryAssumption DEF update_threshold, TypeOK, RegistryTypeOK
  <2>4. ASSUME Tick PROVE RegistryTypeOK'
    BY <2>4 DEF Tick, TypeOK, RegistryTypeOK, registryVars
  <2> QED BY <2>1, <2>2, <2>3, <2>4 DEF RegistryNext
<1> QED
  BY <1>1 DEF TypeOK, SettlementTypeOK, settlementVars, tableVars,
     catalogVars, moneyVars, configVars, disputeVars

(* Every step of the contract preserves the types.                          *)
LEMMA TypeStep == TypeOK /\ [Next]_vars => TypeOK'
<1> SUFFICES ASSUME TypeOK, [Next]_vars PROVE TypeOK'
  OBVIOUS
<1>1. CASE UNCHANGED vars
  BY <1>1 DEF vars, TypeOK, RegistryTypeOK, SettlementTypeOK, registryVars,
     settlementVars, tableVars, catalogVars, moneyVars, configVars, disputeVars
<1>2. CASE Next
  BY <1>2, SettlementStepType, DisputeStepType, RegistryStepType DEF Next
<1> QED BY <1>1, <1>2

(* Type correctness: every call of the treasury, from any initialisation,   *)
(* leaves every storage entry of its declared type; weights stay within     *)
(* u32, token balances non-negative, and indexes name allocated ids only.   *)
THEOREM TypeCorrect == Spec => []TypeOK
BY InitType, TypeStep, PTL DEF Spec

(***************************************************************************)
(* What a call may do to one settlement. Every safety theorem below reads  *)
(* the calls only through this classification.                             *)
(***************************************************************************)
Live == {"Pending", "OnHold"}

SameMoney(j) == paid'[j] = paid[j] /\ partialExecuted'[j] = partialExecuted[j]

SameApprovals(j) ==
  /\ settlements'[j].approvals = settlements[j].approvals
  /\ settlements'[j].approval_weight = settlements[j].approval_weight

Untouched(j) == settlements'[j] = settlements[j] /\ SameMoney(j)

Born(j) ==
  /\ settlements[j].status = "Absent" /\ settlements'[j].status = "Pending"
  /\ j = settlementCount + 1 /\ settlementCount' = j
  /\ \E s \in Signers :
       /\ require_authorized_signer(s)
       /\ settlements'[j].approvals = {s}
       /\ settlements'[j].approval_weight = signer_weight(s)
  /\ SameMoney(j)

Moves(j) ==
  /\ settlements[j].status \in Live
  /\ settlements'[j].status \in Live \cup {"Cancelled", "Expired"}
  /\ SameApprovals(j) /\ SameMoney(j)

Reapproves(j) ==
  /\ settlements[j].status = "Pending" /\ settlements'[j].status = "Pending"
  /\ \E s \in Signers :
       /\ require_authorized_signer(s)
       /\ \/ /\ settlements'[j].approvals = settlements[j].approvals \cup {s}
             /\ settlements'[j].approval_weight =
                  counted_weight(settlements[j].approvals,
                                 settlements[j].approval_weight, s)
          \/ /\ s \in settlements[j].approvals
             /\ settlements'[j].approvals = settlements[j].approvals \ {s}
             /\ settlements'[j].approval_weight =
                  revoked_weight(settlements[j].approval_weight, s)
  /\ SameMoney(j)

Pays(j) ==
  /\ meets_threshold(settlements[j].approval_weight)
  /\ settlements'[j].amount = settlements[j].amount
  /\ SameApprovals(j)
  /\ \/ /\ settlements[j].status \in Live
        /\ settlements'[j].status = "Executed"
        /\ paid'[j] = paid[j] + settlements[j].amount
        /\ partialExecuted'[j] = partialExecuted[j]
     \/ /\ settlements[j].status = "Pending"
        /\ settlements'[j].status = "PartiallyExecuted"
        /\ \E part \in 1 .. settlements[j].amount :
             /\ part < settlements[j].amount
             /\ paid'[j] = paid[j] + part
             /\ partialExecuted'[j] = partialExecuted[j] + part

Allocated(j) == j <= settlementCount

Shape(j) ==
  \/ Born(j)
  \/ /\ Allocated(j)' <=> Allocated(j)
     /\ Untouched(j) \/ Moves(j) \/ Reapproves(j) \/ Pays(j)

(* Ids are handed out in order and never reused.                            *)
FreshIds == \A j \in Ids : settlements[j].status = "Absent" <=> ~Allocated(j)

(* What a status change does, settlement by settlement.                     *)
LEMMA WithStatusEffect ==
  ASSUME NEW ids, NEW st, NEW j \in Ids, settlements \in [Ids -> Settlement]
  PROVE  /\ j \notin ids => WithStatus(ids, st)[j] = settlements[j]
         /\ j \in ids =>
              /\ WithStatus(ids, st)[j].status = st
              /\ WithStatus(ids, st)[j].amount = settlements[j].amount
              /\ WithStatus(ids, st)[j].approvals = settlements[j].approvals
              /\ WithStatus(ids, st)[j].approval_weight = settlements[j].approval_weight
BY DEF WithStatus, Settlement

(* What a hold or a release does, settlement by settlement.                 *)
LEMMA WithHoldEffect ==
  ASSUME NEW i \in Ids, NEW st, NEW r, NEW j \in Ids,
         settlements \in [Ids -> Settlement]
  PROVE  /\ j # i => WithHold(i, st, r)[j] = settlements[j]
         /\ WithHold(i, st, r)[i].status = st
         /\ WithHold(i, st, r)[i].approvals = settlements[i].approvals
         /\ WithHold(i, st, r)[i].approval_weight = settlements[i].approval_weight
BY DEF WithHold, Settlement

(* What an approval does, settlement by settlement.                         *)
LEMMA WithApprovalEffect ==
  ASSUME NEW ids, NEW s, NEW j \in Ids, settlements \in [Ids -> Settlement]
  PROVE  /\ j \notin ids => WithApproval(ids, s)[j] = settlements[j]
         /\ j \in ids =>
              /\ WithApproval(ids, s)[j].status = settlements[j].status
              /\ WithApproval(ids, s)[j].approvals = settlements[j].approvals \cup {s}
              /\ WithApproval(ids, s)[j].approval_weight =
                   counted_weight(settlements[j].approvals,
                                  settlements[j].approval_weight, s)
BY DEF WithApproval, Settlement

(* A proposal gives birth to one settlement and leaves the others.          *)
LEMMA ProposeShape ==
  ASSUME TypeOK, FreshIds, NEW s \in Signers, NEW m, NEW a, NEW dl,
         propose(s, m, a, dl), NEW j \in Ids
  PROVE  Shape(j)
<1>0. /\ settlements \in [Ids -> Settlement]
      /\ settlementCount \in Nat /\ settlementCount + 1 \in Ids
      /\ settlementCount' = settlementCount + 1
      /\ SameMoney(j)
      /\ require_authorized_signer(s)
  BY DEF TypeOK, SettlementTypeOK, propose, SameMoney, moneyVars
<1>1. settlements' =
        [settlements EXCEPT ![settlementCount + 1] =
           [merchant |-> m, amount |-> a, approvals |-> {s},
            approval_weight |-> counted_weight({}, 0, s),
            status |-> "Pending", hold_reason |-> "None",
            proposed_at |-> now, execution_deadline |-> dl]]
  BY DEF propose, write_settlement
<1>2. counted_weight({}, 0, s) = signer_weight(s)
  BY DEF counted_weight, signer_weight, TypeOK, RegistryTypeOK
<1>3. CASE j = settlementCount + 1
  <2>1. /\ settlements'[j].status = "Pending"
        /\ settlements'[j].approvals = {s}
        /\ settlements'[j].approval_weight = signer_weight(s)
    BY <1>0, <1>1, <1>2, <1>3
  <2>2. settlements[j].status = "Absent"
    BY <1>0, <1>3 DEF FreshIds, Allocated
  <2> QED BY <1>0, <1>3, <2>1, <2>2 DEF Shape, Born
<1>4. CASE j # settlementCount + 1
  <2>1. settlements'[j] = settlements[j]
    BY <1>0, <1>1, <1>4
  <2>2. Allocated(j)' <=> Allocated(j)
    BY <1>0, <1>4 DEF Allocated, Ids
  <2> QED BY <1>0, <2>1, <2>2 DEF Shape, Untouched
<1> QED BY <1>3, <1>4

(* Calls that leave the counter and the money alone.                        *)
Still(j) == UNCHANGED <<catalogVars, moneyVars>> /\ j \in Ids

(* A call that writes no settlement and moves no money touches none.        *)
LEMMA StillUntouched ==
  ASSUME NEW j, Still(j), settlements'[j] = settlements[j]
  PROVE  Shape(j)
BY DEF Still, Shape, Untouched, SameMoney, Allocated, catalogVars, moneyVars

(* A status change within Live, or to a close, without money.               *)
LEMMA StillMoves ==
  ASSUME NEW j, Still(j), settlements[j].status \in Live,
         settlements'[j].status \in Live \cup {"Cancelled", "Expired"},
         SameApprovals(j)
  PROVE  Shape(j)
BY DEF Still, Shape, Moves, SameMoney, Allocated, catalogVars, moneyVars

(* An approval or a revocation without money.                               *)
LEMMA StillReapproves ==
  ASSUME NEW j, Still(j), NEW s \in Signers, require_authorized_signer(s),
         settlements[j].status = "Pending", settlements'[j].status = "Pending",
         \/ /\ settlements'[j].approvals = settlements[j].approvals \cup {s}
            /\ settlements'[j].approval_weight =
                 counted_weight(settlements[j].approvals,
                                settlements[j].approval_weight, s)
         \/ /\ s \in settlements[j].approvals
            /\ settlements'[j].approvals = settlements[j].approvals \ {s}
            /\ settlements'[j].approval_weight =
                 revoked_weight(settlements[j].approval_weight, s)
  PROVE  Shape(j)
BY DEF Still, Shape, Reapproves, SameMoney, Allocated, catalogVars, moneyVars

(* A set of live settlements given another status without a payout.         *)
LEMMA StatusShape ==
  ASSUME TypeOK, NEW ids \in SUBSET Ids, NEW st \in Live \cup {"Cancelled", "Expired"},
         \A i \in ids : settlements[i].status \in Live,
         settlements' = WithStatus(ids, st), NEW j, Still(j)
  PROVE  Shape(j)
<1>0. settlements \in [Ids -> Settlement] /\ j \in Ids
  BY DEF TypeOK, SettlementTypeOK, Still
<1>1. CASE j \in ids
  BY <1>0, <1>1, WithStatusEffect, StillMoves DEF SameApprovals
<1>2. CASE j \notin ids
  BY <1>0, <1>2, WithStatusEffect, StillUntouched
<1> QED BY <1>1, <1>2

(* A set of pending settlements approved by an authorised signer.           *)
LEMMA ApprovalShape ==
  ASSUME TypeOK, NEW ids \in SUBSET Ids, NEW s \in Signers,
         require_authorized_signer(s),
         \A i \in ids : settlements[i].status = "Pending",
         settlements' = WithApproval(ids, s), NEW j, Still(j)
  PROVE  Shape(j)
<1>0. settlements \in [Ids -> Settlement] /\ j \in Ids
  BY DEF TypeOK, SettlementTypeOK, Still
<1>1. CASE j \in ids
  BY <1>0, <1>1, WithApprovalEffect, StillReapproves
<1>2. CASE j \notin ids
  BY <1>0, <1>2, WithApprovalEffect, StillUntouched
<1> QED BY <1>1, <1>2

(* A hold or release of a live settlement has a shape.                      *)
LEMMA HoldShape ==
  ASSUME TypeOK, NEW i \in Ids, NEW st \in Live, NEW r,
         settlements[i].status \in Live,
         settlements' = WithHold(i, st, r), NEW j, Still(j)
  PROVE  Shape(j)
<1>0. settlements \in [Ids -> Settlement] /\ j \in Ids
  BY DEF TypeOK, SettlementTypeOK, Still
<1>1. CASE j = i
  BY <1>0, <1>1, WithHoldEffect, StillMoves DEF SameApprovals
<1>2. CASE j # i
  BY <1>0, <1>2, WithHoldEffect, StillUntouched
<1> QED BY <1>1, <1>2

(* The release at the end of a dispute has a shape.                         *)
LEMMA ReleaseShape ==
  ASSUME TypeOK, NEW i \in Ids, NEW table,
         release_settlement_hold_if_no_open_disputes(table, i), NEW j, Still(j)
  PROVE  Shape(j)
<1>1. CASE /\ settlements[i].status = "OnHold"
           /\ settlements' = WithHold(i, "Pending", "None")
  BY <1>1, HoldShape DEF Live
<1>2. CASE UNCHANGED settlements
  BY <1>2, StillUntouched
<1> QED BY <1>1, <1>2 DEF release_settlement_hold_if_no_open_disputes,
           write_settlement, tableVars

(* Every settlement entry point has a shape.                                *)
LEMMA SettlementStepShape ==
  ASSUME TypeOK, FreshIds, SettlementNext, NEW j \in Ids
  PROVE  Shape(j)
<1>0. settlements \in [Ids -> Settlement]
  BY DEF TypeOK, SettlementTypeOK
<1>1. ASSUME NEW s \in Signers, NEW m \in Merchants, NEW a \in Amounts,
             NEW d \in Deadlines, propose_settlement(s, m, a, d)
      PROVE  Shape(j)
  BY <1>1, ProposeShape DEF propose_settlement
<1>2. ASSUME NEW s \in Signers, NEW m \in Merchants, NEW a \in Amounts,
             propose_settlement_with_token(s, m, a)
      PROVE  Shape(j)
  BY <1>2, ProposeShape DEF propose_settlement_with_token
<1>3. ASSUME NEW s \in Signers, NEW i \in Ids, approve_settlement(s, i)
      PROVE  Shape(j)
  BY <1>3, ApprovalShape DEF approve_settlement, write_settlement, is_pending, Still
<1>4. ASSUME NEW s \in Signers, NEW i \in Ids, revoke_approval(s, i)
      PROVE  Shape(j)
  <2>0. Still(j) /\ require_authorized_signer(s)
        /\ s \in settlements[i].approvals /\ settlements[i].status = "Pending"
    BY <1>4 DEF revoke_approval, is_pending, Still
  <2>1. settlements' = [settlements EXCEPT
                          ![i].approvals = @ \ {s},
                          ![i].approval_weight = revoked_weight(@, s)]
    BY <1>4 DEF revoke_approval, write_settlement
  <2>2. CASE j = i
    <3>1. /\ settlements'[j].status = settlements[j].status
          /\ settlements'[j].approvals = settlements[j].approvals \ {s}
          /\ settlements'[j].approval_weight
               = revoked_weight(settlements[j].approval_weight, s)
      BY <1>0, <2>1, <2>2 DEF Settlement
    <3> QED BY <2>0, <2>2, <3>1, StillReapproves
  <2>3. CASE j # i
    <3>1. settlements'[j] = settlements[j]
      BY <1>0, <2>1, <2>3
    <3> QED BY <2>0, <3>1, StillUntouched
  <2> QED BY <2>2, <2>3
<1>5. ASSUME NEW s \in Signers, NEW ids \in SUBSET Ids,
             batch_approve_settlements(s, ids)
      PROVE  Shape(j)
  BY <1>5, ApprovalShape DEF batch_approve_settlements, write_settlement,
     is_pending, Still
<1>6. ASSUME NEW s \in Signers, NEW i \in Ids,
             NEW part \in 1 .. settlements[i].amount,
             approve_partial_settlement(s, i, part)
      PROVE  Shape(j)
  BY <1>6, ApprovalShape DEF approve_partial_settlement, write_settlement,
     is_pending, Still
<1>7. ASSUME NEW s \in Signers, NEW i \in Ids, NEW t \in Tokens,
             execute_settlement(s, i, t)
      PROVE  Shape(j)
  <2>1. /\ settlements' = WithStatus({i}, "Executed")
        /\ paid' = [paid EXCEPT ![i] = @ + settlements[i].amount]
        /\ meets_threshold(settlements[i].approval_weight)
        /\ settlements[i].status \in Live
        /\ UNCHANGED <<settlementCount, partialExecuted>>
    BY <1>7 DEF execute_settlement, write_settlement, executable, is_pending,
       Live, catalogVars
  <2>2. paid \in [Ids -> Nat]
    BY DEF TypeOK, SettlementTypeOK
  <2>3. CASE j = i
    BY <1>0, <2>1, <2>2, <2>3, WithStatusEffect
       DEF Shape, Pays, SameApprovals, Allocated
  <2>4. CASE j # i
    BY <1>0, <2>1, <2>2, <2>4, WithStatusEffect
       DEF Shape, Untouched, SameMoney, Allocated
  <2> QED BY <2>3, <2>4
<1>8. ASSUME NEW s \in Signers, NEW ids \in SUBSET Ids, NEW t \in Tokens,
             batch_execute_settlements(s, ids, t)
      PROVE  Shape(j)
  <2> DEFINE due == {i \in ids : /\ is_pending(i)
                          /\ meets_threshold(settlements[i].approval_weight)}
  <2>1. /\ settlements' = WithStatus(due, "Executed")
        /\ paid' = [i \in Ids |-> IF i \in due THEN paid[i] + settlements[i].amount
                                               ELSE paid[i]]
        /\ UNCHANGED <<settlementCount, partialExecuted>>
    BY <1>8 DEF batch_execute_settlements, catalogVars
  <2>2. \A i \in due : /\ meets_threshold(settlements[i].approval_weight)
                       /\ settlements[i].status \in Live
    BY DEF is_pending, Live
  <2> HIDE DEF due
  <2>3. CASE j \in due
    BY <1>0, <2>1, <2>2, <2>3, WithStatusEffect
       DEF Shape, Pays, SameApprovals, Allocated
  <2>4. CASE j \notin due
    BY <1>0, <2>1, <2>4, WithStatusEffect
       DEF Shape, Untouched, SameMoney, Allocated
  <2> QED BY <2>3, <2>4
<1>9. ASSUME NEW s \in Signers, NEW i \in Ids, NEW t \in Tokens,
             NEW part \in 1 .. settlements[i].amount,
             partially_execute_settlement(s, i, part, t)
      PROVE  Shape(j)
  <2>1. /\ settlements' = WithStatus({i}, "PartiallyExecuted")
        /\ paid' = [paid EXCEPT ![i] = @ + part]
        /\ partialExecuted' = [partialExecuted EXCEPT ![i] = @ + part]
        /\ meets_threshold(settlements[i].approval_weight)
        /\ settlements[i].status = "Pending"
        /\ part < settlements[i].amount
        /\ UNCHANGED settlementCount
    BY <1>9 DEF partially_execute_settlement, write_settlement, is_pending,
       catalogVars
  <2>2. paid \in [Ids -> Nat] /\ partialExecuted \in [Ids -> Nat]
    BY DEF TypeOK, SettlementTypeOK
  <2>3. CASE j = i
    BY <1>0, <2>1, <2>2, <2>3, WithStatusEffect
       DEF Shape, Pays, SameApprovals, Allocated
  <2>4. CASE j # i
    BY <1>0, <2>1, <2>2, <2>4, WithStatusEffect
       DEF Shape, Untouched, SameMoney, Allocated
  <2> QED BY <2>3, <2>4
<1>10. ASSUME NEW s \in Signers, NEW i \in Ids, cancel_settlement(s, i)
       PROVE  Shape(j)
  BY <1>10, StatusShape DEF cancel_settlement, write_settlement, is_pending,
     Live, Still
<1>11. ASSUME NEW ids \in SUBSET Ids, batch_cancel_settlements(ids)
       PROVE  Shape(j)
  BY <1>11, StatusShape DEF batch_cancel_settlements, write_settlement,
     is_pending, Live, Still
<1>12. ASSUME NEW i \in Ids, force_cancel_settlement(i) PROVE Shape(j)
  BY <1>12, StatusShape DEF force_cancel_settlement, write_settlement, Live, Still
<1>13. ASSUME NEW i \in Ids, expire_settlement(i) PROVE Shape(j)
  BY <1>13, StatusShape DEF expire_settlement, write_settlement, is_pending,
     Live, Still
<1>14. ASSUME NEW i \in Ids, NEW r \in HoldReasons \cup {"None"},
              NEW e \in HoldExpiries, hold_settlement(i, r, e)
       PROVE  Shape(j)
  BY <1>14, HoldShape DEF hold_settlement, write_settlement, is_pending, Live, Still
<1>15. ASSUME NEW i \in Ids, release_hold(i) PROVE Shape(j)
  BY <1>15, HoldShape DEF release_hold, write_settlement, Live, Still
<1>16. ASSUME Configure PROVE Shape(j)
  BY <1>16, StillUntouched DEF Configure, tableVars, Still
<1> QED
  BY <1>1, <1>2, <1>3, <1>4, <1>5, <1>6, <1>7, <1>8, <1>9, <1>10, <1>11,
     <1>12, <1>13, <1>14, <1>15, <1>16 DEF SettlementNext

(* Every dispute entry point has a shape.                                   *)
LEMMA DisputeStepShape ==
  ASSUME TypeOK, DisputeNext, NEW j \in Ids
  PROVE  Shape(j)
<1>0. \A d \in DisputeIds : disputes[d].settlement_id \in Ids
  BY DEF TypeOK, Dispute
<1>1. ASSUME NEW i \in Ids, NEW a \in DisputeAmounts, NEW e \in DisputeExpiries,
             raise_dispute(i, a, e)
      PROVE  Shape(j)
  <2>0. Still(j)
    BY <1>1 DEF raise_dispute, Still
  <2>1. CASE is_pending(i)
    BY <1>1, <2>0, <2>1, StatusShape DEF raise_dispute, write_settlement,
       is_pending, Live
  <2>2. CASE ~is_pending(i)
    BY <1>1, <2>0, <2>2, StillUntouched DEF raise_dispute, tableVars
  <2> QED BY <2>1, <2>2
<1>2. ASSUME NEW d \in DisputeIds, expire_dispute(d) PROVE Shape(j)
  BY <1>0, <1>2, ReleaseShape DEF expire_dispute, Still
<1>3. ASSUME NEW d \in DisputeIds, NEW c \in BOOLEAN, resolve_dispute(d, c)
      PROVE  Shape(j)
  BY <1>0, <1>3, ReleaseShape DEF resolve_dispute, Still
<1>4. ASSUME NEW d \in DisputeIds, NEW b \in Bps, NEW t \in Tokens,
             resolve_dispute_split(d, b, t)
      PROVE  Shape(j)
  \* The only dispute call that moves tokens; it leaves paid alone.
  <2>1. UNCHANGED <<catalogVars, paid, partialExecuted>>
    BY <1>4 DEF resolve_dispute_split
  <2>2. CASE /\ settlements[disputes[d].settlement_id].status = "OnHold"
             /\ settlements' = WithHold(disputes[d].settlement_id, "Pending", "None")
    <3>0. settlements \in [Ids -> Settlement]
      BY DEF TypeOK, SettlementTypeOK
    <3>1. CASE j = disputes[d].settlement_id
      BY <1>0, <2>1, <2>2, <3>0, <3>1, WithHoldEffect DEF Shape, Moves,
         SameApprovals, SameMoney, Allocated, catalogVars, Live
    <3>2. CASE j # disputes[d].settlement_id
      BY <1>0, <2>1, <2>2, <3>0, <3>2, WithHoldEffect DEF Shape, Untouched,
         SameMoney, Allocated, catalogVars
    <3> QED BY <3>1, <3>2
  <2>3. CASE UNCHANGED settlements
    BY <2>1, <2>3 DEF Shape, Untouched, SameMoney, Allocated, catalogVars
  <2> QED BY <1>4, <2>2, <2>3 DEF resolve_dispute_split, write_settlement,
             release_settlement_hold_if_no_open_disputes, tableVars
<1>5. ASSUME NEW s \in Signers, NEW d \in DisputeIds, NEW c \in BOOLEAN,
             vote_dispute_resolution(s, d, c)
      PROVE  Shape(j)
  BY <1>5, StillUntouched DEF vote_dispute_resolution, tableVars, Still
<1> QED BY <1>1, <1>2, <1>3, <1>4, <1>5 DEF DisputeNext

(* Every step of the treasury gives every settlement one of the shapes.     *)
LEMMA StepShape ==
  ASSUME TypeOK, FreshIds, [Next]_vars, NEW j \in Ids
  PROVE  Shape(j)
<1>1. CASE SettlementNext
  BY <1>1, SettlementStepShape
<1>2. CASE DisputeNext
  BY <1>2, DisputeStepShape
<1>3. CASE UNCHANGED settlementVars
  BY <1>3, StillUntouched DEF settlementVars, tableVars, Still
<1> QED BY <1>1, <1>2, <1>3 DEF Next, vars

(***************************************************************************)
(* The inductive invariant.                                                *)
(***************************************************************************)
LEMMA InitFresh == Init => FreshIds
<1> SUFFICES ASSUME Init, NEW j \in Ids
             PROVE  settlements[j].status = "Absent" /\ ~Allocated(j)
  BY DEF FreshIds
<1>1. settlements[j] = NoSettlement /\ settlementCount = 0
  BY DEF Init, SettlementInit
<1> QED BY <1>1 DEF NoSettlement, Allocated, Ids

(* Ids above SettlementCount stay unused, those below stay used.            *)
LEMMA FreshStep ==
  ASSUME TypeOK, FreshIds, [Next]_vars
  PROVE  FreshIds'
<1> SUFFICES ASSUME NEW j \in Ids
             PROVE  settlements'[j].status = "Absent" <=> ~Allocated(j)'
  BY DEF FreshIds
<1>1. Shape(j)
  BY StepShape
<1>2. settlementCount \in Nat
  BY DEF TypeOK, SettlementTypeOK
<1>3. settlements[j].status = "Absent" <=> ~Allocated(j)
  BY DEF FreshIds
<1>4. CASE Born(j)
  BY <1>2, <1>4 DEF Born, Allocated, Ids
<1>5. CASE /\ Allocated(j)' <=> Allocated(j)
           /\ Untouched(j) \/ Moves(j) \/ Reapproves(j) \/ Pays(j)
  BY <1>3, <1>5 DEF Untouched, Moves, Reapproves, Pays, Live
<1> QED BY <1>1, <1>4, <1>5 DEF Shape

(* Every shape keeps payouts in step with the status.                       *)
LEMMA PaidStep ==
  ASSUME TypeOK, FreshIds, PaidMatchesStatus, [Next]_vars
  PROVE  PaidMatchesStatus'
<1> SUFFICES ASSUME NEW j \in Ids
             PROVE  /\ settlements'[j].status = "Executed" =>
                         /\ paid'[j] = settlements'[j].amount
                         /\ partialExecuted'[j] = 0
                    /\ settlements'[j].status = "PartiallyExecuted" =>
                         /\ paid'[j] = partialExecuted'[j]
                         /\ 0 < paid'[j] /\ paid'[j] < settlements'[j].amount
                    /\ settlements'[j].status \notin {"Executed", "PartiallyExecuted"} =>
                         paid'[j] = 0 /\ partialExecuted'[j] = 0
  BY DEF PaidMatchesStatus
<1>0. /\ settlements[j].status = "Executed" =>
           paid[j] = settlements[j].amount /\ partialExecuted[j] = 0
      /\ settlements[j].status = "PartiallyExecuted" =>
           /\ paid[j] = partialExecuted[j]
           /\ 0 < paid[j] /\ paid[j] < settlements[j].amount
      /\ settlements[j].status \notin {"Executed", "PartiallyExecuted"} =>
           paid[j] = 0 /\ partialExecuted[j] = 0
  BY DEF PaidMatchesStatus
<1>1. Shape(j) /\ settlements[j].amount \in Nat
  BY StepShape DEF TypeOK, SettlementTypeOK, Settlement
<1>2. CASE Born(j)
  BY <1>0, <1>2 DEF Born, SameMoney
<1>3. CASE Untouched(j)
  BY <1>0, <1>3 DEF Untouched, SameMoney
<1>4. CASE Moves(j)
  BY <1>0, <1>4 DEF Moves, SameMoney, Live
<1>5. CASE Reapproves(j)
  BY <1>0, <1>5 DEF Reapproves, SameMoney
<1>6. CASE Pays(j)
  BY <1>0, <1>1, <1>6 DEF Pays, Live
<1> QED BY <1>1, <1>2, <1>3, <1>4, <1>5, <1>6 DEF Shape

(* Ids never reused is what keeps a fresh proposal from inheriting an older *)
(* payout: PaidMatchesStatus alone is not inductive.                        *)
PayInv == TypeOK /\ FreshIds /\ PaidMatchesStatus

(* PayInv holds in every reachable state.                                   *)
LEMMA PayInvariant == Spec => []PayInv
<1>1. Init => PayInv
  <2>1. Init => PaidMatchesStatus
    <3> SUFFICES ASSUME Init, NEW j \in Ids
                 PROVE  /\ settlements[j].status = "Absent"
                        /\ paid[j] = 0 /\ partialExecuted[j] = 0
      BY DEF PaidMatchesStatus
    <3> QED BY DEF Init, SettlementInit, NoSettlement
  <2> QED BY <2>1, InitType, InitFresh DEF PayInv
<1>2. PayInv /\ [Next]_vars => PayInv'
  BY TypeStep, FreshStep, PaidStep DEF PayInv
<1> QED BY <1>1, <1>2, PTL DEF Spec

(* No settlement is paid twice, short, or after it was called off, whatever *)
(* the interleaving of execute, batch, partial, cancel, hold, expiry and    *)
(* dispute calls, for any number of settlements, signers and disputes.      *)
THEOREM PayoutsMatchStatus == Spec => []PaidMatchesStatus
<1>1. PayInv => PaidMatchesStatus
  BY DEF PayInv
<1> QED BY <1>1, PayInvariant, PTL

(* A settlement that was executed, partially executed, cancelled or expired *)
(* is never written or paid on again.                                       *)
THEOREM SettledIsFinal == Spec => SettledStaysSettled
<1>1. PayInv /\ [Next]_vars =>
        [\A i \in Ids : settlements[i].status \in Settled =>
           settlements'[i] = settlements[i] /\ paid'[i] = paid[i]]_vars
  <2> SUFFICES ASSUME PayInv, [Next]_vars, NEW i \in Ids,
                      settlements[i].status \in Settled
               PROVE  settlements'[i] = settlements[i] /\ paid'[i] = paid[i]
    OBVIOUS
  <2>1. Shape(i)
    BY StepShape DEF PayInv
  <2> QED BY <2>1 DEF Shape, Born, Untouched, SameMoney, Moves, Reapproves,
             Pays, Live, Settled, Final
<1> QED BY <1>1, PayInvariant, PTL DEF Spec, SettledStaysSettled

(***************************************************************************)
(* Quorums of distinct signers, when every signer has weight 1.            *)
(***************************************************************************)
BinaryWeights == \A s \in Signers : signerWeight[s] \in {0, 1}

Counts(weight, signers) == weight = Cardinality(signers)

(* A signer approving or revoking moves the weight as the set of approvals. *)
LEMMA CountAdd ==
  ASSUME BinaryWeights, NEW S \in SUBSET Signers, NEW w, Counts(w, S),
         NEW s \in Signers, require_authorized_signer(s)
  PROVE  Counts(counted_weight(S, w, s), S \cup {s})
<1>1. IsFiniteSet(S)
  BY RegistryAssumption, FS_Subset
<1>2. signer_weight(s) = 1
  BY DEF BinaryWeights, require_authorized_signer, signer_weight
<1>3. CASE s \in S
  <2>1. S \cup {s} = S
    BY <1>3
  <2> QED BY <1>3, <2>1 DEF Counts, counted_weight
<1>4. CASE s \notin S
  <2>1. Cardinality(S \cup {s}) = Cardinality(S) + 1
    BY <1>1, <1>4, FS_AddElement
  <2> QED BY <1>2, <1>4, <2>1 DEF Counts, counted_weight
<1> QED BY <1>3, <1>4

(* A standing approval that is revoked takes its one unit away.             *)
LEMMA CountRemove ==
  ASSUME BinaryWeights, NEW S \in SUBSET Signers, NEW w, Counts(w, S),
         NEW s \in S, require_authorized_signer(s)
  PROVE  Counts(revoked_weight(w, s), S \ {s})
<1>1. IsFiniteSet(S)
  BY RegistryAssumption, FS_Subset
<1>2. signer_weight(s) = 1
  BY DEF BinaryWeights, require_authorized_signer, signer_weight
<1>3. /\ Cardinality(S) \in Nat
      /\ Cardinality(S \ {s}) \in Nat
      /\ Cardinality(S \ {s}) = Cardinality(S) - 1
  <2>1. IsFiniteSet(S \ {s})
    BY <1>1, FS_RemoveElement
  <2> QED BY <1>1, <2>1, FS_RemoveElement, FS_CardinalityType
<1> QED BY <1>2, <1>3 DEF Counts, revoked_weight

(* The proposer's own approval counts for one.                              *)
LEMMA CountOne ==
  ASSUME BinaryWeights, NEW s \in Signers, require_authorized_signer(s)
  PROVE  Counts(signer_weight(s), {s})
<1>1. Cardinality({s}) = 1
  BY FS_Singleton
<1> QED BY <1>1 DEF BinaryWeights, require_authorized_signer, signer_weight, Counts

SettlementsCount ==
  \A i \in Ids : Counts(settlements[i].approval_weight, settlements[i].approvals)
DisputesCount ==
  \A d \in DisputeIds :
    Counts(disputes[d].resolution_weight, disputes[d].resolution_approvals)

(* Every shape keeps a settlement's weight the size of its approvals.       *)
LEMMA SettlementCountStep ==
  ASSUME TypeOK, FreshIds, BinaryWeights, SettlementsCount, [Next]_vars
  PROVE  SettlementsCount'
<1> SUFFICES ASSUME NEW j \in Ids
             PROVE  Counts(settlements'[j].approval_weight, settlements'[j].approvals)
  BY DEF SettlementsCount, Counts
<1>0. Counts(settlements[j].approval_weight, settlements[j].approvals)
  BY DEF SettlementsCount
<1>1. Shape(j) /\ settlements[j].approvals \in SUBSET Signers
  BY StepShape DEF TypeOK, SettlementTypeOK, Settlement
<1>2. CASE Born(j)
  BY <1>2, CountOne DEF Born
<1>3. CASE Untouched(j) \/ Moves(j) \/ Pays(j)
  BY <1>0, <1>3 DEF Untouched, Moves, Pays, SameApprovals
<1>4. CASE Reapproves(j)
  <2>1. PICK s \in Signers :
          /\ require_authorized_signer(s)
          /\ \/ /\ settlements'[j].approvals = settlements[j].approvals \cup {s}
                /\ settlements'[j].approval_weight =
                     counted_weight(settlements[j].approvals,
                                    settlements[j].approval_weight, s)
             \/ /\ s \in settlements[j].approvals
                /\ settlements'[j].approvals = settlements[j].approvals \ {s}
                /\ settlements'[j].approval_weight =
                     revoked_weight(settlements[j].approval_weight, s)
    BY <1>4 DEF Reapproves
  <2>2. Counts(counted_weight(settlements[j].approvals,
                 settlements[j].approval_weight, s),
               settlements[j].approvals \cup {s})
    BY <1>0, <1>1, <2>1, CountAdd
  <2>3. s \in settlements[j].approvals =>
          Counts(revoked_weight(settlements[j].approval_weight, s),
                 settlements[j].approvals \ {s})
    BY <1>0, <1>1, <2>1, CountRemove
  <2> QED BY <2>1, <2>2, <2>3
<1> QED BY <1>1, <1>2, <1>3, <1>4 DEF Shape

(* A dispute's votes change only when it is raised or voted on.             *)
LEMMA DisputeCountStep ==
  ASSUME TypeOK, BinaryWeights, DisputesCount, [Next]_vars
  PROVE  DisputesCount'
<1>0. disputes \in [DisputeIds -> Dispute]
  BY DEF TypeOK
<1>1. CASE UNCHANGED disputes
  BY <1>1 DEF DisputesCount, Counts
<1>2. ASSUME NEW d \in DisputeIds, NEW new,
             disputes' = [disputes EXCEPT ![d] = new],
             Counts(new.resolution_weight, new.resolution_approvals)
      PROVE  DisputesCount'
  BY <1>0, <1>2 DEF DisputesCount, Counts
<1>3. ASSUME NEW i \in Ids, NEW a \in DisputeAmounts, NEW e \in DisputeExpiries,
             raise_dispute(i, a, e)
      PROVE  DisputesCount'
  <2> DEFINE id == disputeCount + 1
             new == [settlement_id |-> i, amount |-> a, status |-> "Raised",
                     resolution_approvals |-> {}, resolution_weight |-> 0,
                     resolution_for_claimant |-> FALSE,
                     dispute_expires_at |-> e, claimant_share_bps |-> 0]
  <2>1. Counts(new.resolution_weight, new.resolution_approvals)
    BY FS_EmptySet DEF Counts
  <2>2. id \in DisputeIds /\ disputes' = [disputes EXCEPT ![id] = new]
    BY <1>3 DEF raise_dispute
  <2> HIDE DEF id, new
  <2> QED BY <1>2, <2>1, <2>2
<1>4. ASSUME NEW d \in DisputeIds, expire_dispute(d) PROVE DisputesCount'
  BY <1>0, <1>4 DEF expire_dispute, DisputesCount, Counts, Dispute
<1>5. ASSUME NEW d \in DisputeIds, NEW c \in BOOLEAN, resolve_dispute(d, c)
      PROVE  DisputesCount'
  BY <1>0, <1>5 DEF resolve_dispute, DisputesCount, Counts, Dispute
<1>6. ASSUME NEW d \in DisputeIds, NEW b \in Bps, NEW t \in Tokens,
             resolve_dispute_split(d, b, t)
      PROVE  DisputesCount'
  BY <1>0, <1>6 DEF resolve_dispute_split, DisputesCount, Counts, Dispute
<1>7. ASSUME NEW s \in Signers, NEW d \in DisputeIds, NEW c \in BOOLEAN,
             vote_dispute_resolution(s, d, c)
      PROVE  DisputesCount'
  <2> DEFINE dsp == disputes[d]
             weight == counted_weight(dsp.resolution_approvals,
                                      dsp.resolution_weight, s)
             st == IF meets_threshold(weight) THEN verdict(c) ELSE "Raised"
             new == [dsp EXCEPT !.resolution_approvals = @ \cup {s},
                                !.resolution_weight = weight,
                                !.resolution_for_claimant = c,
                                !.status = st]
  <2>1. disputes' = [disputes EXCEPT ![d] = new]
    BY <1>7 DEF vote_dispute_resolution
  <2>2. Counts(weight, dsp.resolution_approvals \cup {s})
    <3>1. dsp.resolution_approvals \in SUBSET Signers
      BY <1>0 DEF Dispute
    <3>2. Counts(dsp.resolution_weight, dsp.resolution_approvals)
      BY DEF DisputesCount
    <3> QED BY <1>7, <3>1, <3>2, CountAdd DEF vote_dispute_resolution
  <2> HIDE DEF weight, st
  <2>3. /\ new.resolution_weight = weight
        /\ new.resolution_approvals = dsp.resolution_approvals \cup {s}
    BY <1>0 DEF Dispute
  <2> HIDE DEF new
  <2> QED BY <1>2, <2>1, <2>2, <2>3
<1> QED BY <1>1, <1>3, <1>4, <1>5, <1>6, <1>7 DEF Next, DisputeNext, vars, disputeVars

(* Settlement calls leave the registry and the clock alone.                 *)
LEMMA SettlementKeepsRegistry ==
  ASSUME SettlementNext
  PROVE  UNCHANGED <<registryVars, now>>
BY DEF SettlementNext, propose_settlement, propose_settlement_with_token,
   propose, approve_settlement, revoke_approval, batch_approve_settlements,
   approve_partial_settlement, execute_settlement, batch_execute_settlements,
   partially_execute_settlement, cancel_settlement, batch_cancel_settlements,
   force_cancel_settlement, expire_settlement, hold_settlement, release_hold,
   Configure

(* Dispute calls leave the registry and the clock alone.                    *)
LEMMA DisputeKeepsRegistry ==
  ASSUME DisputeNext
  PROVE  UNCHANGED <<registryVars, now>>
BY DEF DisputeNext, raise_dispute, expire_dispute, resolve_dispute,
   resolve_dispute_split, vote_dispute_resolution

(* A registry that hands out weight 1 only keeps every weight at 0 or 1.    *)
LEMMA InitBinary == Init /\ UnitWeights => BinaryWeights
<1> SUFFICES ASSUME Init, UnitWeights, NEW s \in Signers
             PROVE  signerWeight[s] \in {0, 1}
  BY DEF BinaryWeights
<1>1. PICK named \in SUBSET Signers, w \in [Signers -> Weights \cup {0}] :
        signerWeight = [r \in Signers |->
          IF r \in named THEN w[r] ELSE IF r = Admin THEN 1 ELSE 0]
  BY DEF Init, RegistryInit
<1>2. w[s] \in {0, 1}
  BY <1>1 DEF UnitWeights
<1> QED BY <1>1, <1>2

(* Only set_signer and remove_signer write a weight: 1 and 0.               *)
LEMMA BinaryStep ==
  ASSUME TypeOK, UnitWeights, BinaryWeights, [Next]_vars
  PROVE  BinaryWeights'
<1>0. signerWeight \in [Signers -> 0 .. MaxWeight]
  BY DEF TypeOK, RegistryTypeOK
<1>1. CASE UNCHANGED signerWeight
  BY <1>1 DEF BinaryWeights
<1>2. ASSUME NEW s \in Signers, NEW w \in Weights, set_signer(s, w)
      PROVE  BinaryWeights'
  BY <1>0, <1>2 DEF set_signer, BinaryWeights, UnitWeights
<1>3. ASSUME NEW s \in Signers, remove_signer(s) PROVE BinaryWeights'
  BY <1>0, <1>3 DEF remove_signer, BinaryWeights
<1>4. ASSUME SettlementNext PROVE UNCHANGED signerWeight
  BY <1>4, SettlementKeepsRegistry DEF registryVars
<1>5. ASSUME DisputeNext PROVE UNCHANGED signerWeight
  BY <1>5, DisputeKeepsRegistry DEF registryVars
<1>6. ASSUME NEW t \in Thresholds, update_threshold(t) PROVE UNCHANGED signerWeight
  BY <1>6 DEF update_threshold
<1>7. ASSUME Tick PROVE UNCHANGED signerWeight
  BY <1>7 DEF Tick, registryVars
<1> QED BY <1>1, <1>2, <1>3, <1>4, <1>5, <1>6, <1>7 DEF Next, RegistryNext,
           vars, registryVars

(* The inductive strengthening of WeightCountsSigners: an approval counts   *)
(* for one only because no weight in the registry ever exceeds one.         *)
CountInv ==
  /\ TypeOK /\ FreshIds
  /\ UnitWeights => BinaryWeights /\ SettlementsCount /\ DisputesCount

(* CountInv holds in every reachable state.                                 *)
LEMMA CountInvariant == Spec => []CountInv
<1>1. Init => CountInv
  <2>1. Init => SettlementsCount
    <3> SUFFICES ASSUME Init, NEW j \in Ids
                 PROVE  Counts(settlements[j].approval_weight,
                               settlements[j].approvals)
      BY DEF SettlementsCount
    <3>1. settlements[j] = NoSettlement
      BY DEF Init, SettlementInit
    <3> QED BY <3>1, FS_EmptySet DEF NoSettlement, Counts
  <2>2. Init => DisputesCount
    <3> SUFFICES ASSUME Init, NEW d \in DisputeIds
                 PROVE  Counts(disputes[d].resolution_weight,
                               disputes[d].resolution_approvals)
      BY DEF DisputesCount
    <3>1. disputes[d] = NoDispute
      BY DEF Init, DisputeInit
    <3> QED BY <3>1, FS_EmptySet DEF NoDispute, Counts
  <2> QED BY <2>1, <2>2, InitType, InitFresh, InitBinary DEF CountInv
<1>2. CountInv /\ [Next]_vars => CountInv'
  <2>1. UnitWeights' <=> UnitWeights
    BY DEF UnitWeights
  <2> QED BY <2>1, TypeStep, FreshStep, BinaryStep, SettlementCountStep,
             DisputeCountStep DEF CountInv
<1> QED BY <1>1, <1>2, PTL DEF Spec

(* With every signer at weight 1, an approval or vote weight is the number  *)
(* of distinct signers behind it, through re-approvals, batches,            *)
(* revocations and signers leaving and coming back.                         *)
THEOREM WeightsCountDistinctSigners == Spec => []WeightCountsSigners
<1>1. CountInv => WeightCountsSigners
  BY DEF CountInv, WeightCountsSigners, SettlementsCount, DisputesCount, Counts
<1> QED BY <1>1, CountInvariant, PTL

(* With every signer at weight 1, no call pays on a settlement without the  *)
(* standing approval of at least threshold distinct signers.                *)
THEOREM PayoutsHaveQuorum == Spec => QuorumOfDistinctSigners
<1>1. CountInv /\ [Next]_vars =>
        [UnitWeights => \A i \in Ids : PaysOn(i) =>
           Cardinality(settlements[i].approvals) >= threshold]_vars
  <2> SUFFICES ASSUME CountInv, [Next]_vars, UnitWeights, NEW i \in Ids, PaysOn(i)
               PROVE  Cardinality(settlements[i].approvals) >= threshold
    OBVIOUS
  <2>1. Shape(i)
    BY StepShape DEF CountInv
  <2>2. Pays(i)
    BY <2>1 DEF Shape, Born, Untouched, SameMoney, Moves, Reapproves, PaysOn
  <2>3. settlements[i].approval_weight = Cardinality(settlements[i].approvals)
    BY DEF CountInv, SettlementsCount, Counts
  <2> QED BY <2>2, <2>3 DEF Pays, meets_threshold
<1> QED BY <1>1, CountInvariant, PTL DEF Spec, QuorumOfDistinctSigners
=============================================================================
