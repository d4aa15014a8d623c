---------------------------- MODULE Settlements -----------------------------
(***************************************************************************)
(* The settlement engine of the treasury contract: proposing, approving,   *)
(* holding, paying and closing settlements, with the indexes kept beside   *)
(* them (contracts/treasury/src/{lib,settlements,holds}.rs).               *)
(*                                                                         *)
(* A batch entry point takes a Vec of ids; the model takes the set of ids  *)
(* in it. A repeated id is re-read from storage, where the first visit has *)
(* made it non-pending or already approved, so a repetition changes        *)
(* nothing; MAX_BATCH_SIZE bounds the call, not the state.                 *)
(***************************************************************************)
EXTENDS SignerRegistry, Aggregates, Sequences

CONSTANTS
  MaxSettlements,            \* bound on SettlementCount
  MAX_MERCHANT_SETTLEMENTS,  \* cap of a merchant's settlement index
  Merchants,
  Tokens,                    \* token contracts the treasury holds
  TokenAllowlist,            \* DataKey::TokenAllowlist, fixed here
  Funds,                     \* what the treasury holds of each token at first
  Amounts,                   \* amounts proposed
  Deadlines,                 \* execution deadlines; 0 is none
  HoldExpiries,              \* expires_at of hold_settlement, NoTime included
  HoldReasons,
  ExpiryWindows,             \* values of DataKey::SettlementExpirySecs
  TierLimit                  \* largest amount Compliance allows a merchant

ASSUME SettlementAssumption ==
  /\ MaxSettlements \in Nat \ {0}
  /\ Merchants # {}
  /\ MAX_MERCHANT_SETTLEMENTS \in Nat \ {0}
  /\ IsFiniteSet(Tokens)
  /\ TokenAllowlist \subseteq Tokens
  /\ Funds \in Nat
  /\ Amounts \subseteq Nat \ {0}
  /\ Deadlines \subseteq Nat
  /\ HoldExpiries \subseteq Nat \cup {NoTime}
  /\ ExpiryWindows \subseteq Nat
  /\ TierLimit \in Nat

VARIABLES
  settlements,          \* DataKey::Settlement(_)
  settlementCount,      \* DataKey::SettlementCount
  pendingIndex,         \* DataKey::PendingSettlementIndex
  holdExpiry,           \* DataKey::HoldExpiry(_)
  partialApproved,      \* DataKey::PartialApprovedTotal(_)
  partialExecuted,      \* DataKey::PartialExecutedTotal(_)
  merchantSettlements,  \* DataKey::MerchantSettlements(_)
  paused,               \* DataKey::Paused
  settlementExpiry,     \* DataKey::SettlementExpirySecs
  compliancePinned,     \* whether DataKey::ComplianceId is set
  allowed,              \* the merchants Compliance::is_allowed accepts now
  pool,                 \* the treasury's balance in each token contract
  paid                  \* history: what each settlement's merchant received

tableVars  == <<settlements, pendingIndex, holdExpiry>>
catalogVars == <<settlementCount, merchantSettlements>>
moneyVars  == <<partialExecuted, pool, paid>>
configVars == <<paused, settlementExpiry, compliancePinned, allowed>>
settlementVars ==
  <<tableVars, catalogVars, moneyVars, configVars, partialApproved>>

Ids == 1 .. MaxSettlements

(* Absent stands for "no such storage entry"; the other names are those of  *)
(* SettlementStatus. Nothing in the code ever stores PartiallySettled.      *)
Statuses == {"Absent", "Pending", "OnHold", "Executed", "PartiallyExecuted",
             "PartiallySettled", "Cancelled", "Expired"}

Settlement ==
  [merchant : Merchants, amount : Nat, approvals : SUBSET Signers,
   approval_weight : 0 .. MaxWeight, status : Statuses,
   hold_reason : HoldReasons \cup {"None"}, proposed_at : Nat,
   execution_deadline : Nat]

NoSettlement ==
  [merchant |-> CHOOSE m \in Merchants : TRUE, amount |-> 0,
   approvals |-> {}, approval_weight |-> 0, status |-> "Absent",
   hold_reason |-> "None", proposed_at |-> 0, execution_deadline |-> 0]

SettlementInit ==
  /\ settlements = [i \in Ids |-> NoSettlement]
  /\ settlementCount = 0
  /\ pendingIndex = {}
  /\ holdExpiry = [i \in Ids |-> NoTime]
  /\ partialApproved = [i \in Ids |-> 0]
  /\ partialExecuted = [i \in Ids |-> 0]
  /\ merchantSettlements = [m \in Merchants |-> << >>]
  /\ paused = FALSE
  /\ settlementExpiry \in ExpiryWindows
  /\ compliancePinned = FALSE
  /\ allowed \in SUBSET Merchants
  /\ pool = [t \in Tokens |-> Funds]
  /\ paid = [i \in Ids |-> 0]

(***************************************************************************)
(* write_settlement stores the entries of ids, keeps the pending index in  *)
(* step with their status, and drops the hold expiry of the ones that      *)
(* became final. "expiry" is holdExpiry with the caller's own change to it.*)
(***************************************************************************)
Final == {"Executed", "Cancelled", "Expired"}

(* Mutant: the index only ever shrinks once a settlement was held.          *)
WriteIndexingOnlyNew(ids, new, expiry) ==
  /\ settlements' = new
  /\ pendingIndex' = (pendingIndex \ {i \in ids : new[i].status # "Pending"})
                       \cup {i \in ids : settlements[i].status = "Absent"}
  /\ holdExpiry' = expiry

write_settlement(ids, new, expiry) ==
  /\ settlements' = new
  /\ pendingIndex' = (pendingIndex \ ids)
                       \cup {i \in ids : new[i].status = "Pending"}
  /\ holdExpiry' = [i \in Ids |->
       IF i \in ids /\ new[i].status \in Final THEN NoTime ELSE expiry[i]]

(* Mutant: a payout that does not close its settlement.                     *)
WithoutClosing(ids, status) ==
  [i \in Ids |-> IF i \in ids /\ status # "Executed"
                 THEN [settlements[i] EXCEPT !.status = status]
                 ELSE settlements[i]]

(* The settlement table after the ids are given the status.                 *)
WithStatus(ids, status) ==
  [i \in Ids |-> IF i \in ids THEN [settlements[i] EXCEPT !.status = status]
                              ELSE settlements[i]]

(* The settlement table after i is put on hold or released.                 *)
WithHold(i, status, reason) ==
  [settlements EXCEPT ![i] =
     [settlements[i] EXCEPT !.status = status, !.hold_reason = reason]]

(* The settlement table after s approves the ids.                           *)
WithApproval(ids, s) ==
  [i \in Ids |->
    IF i \in ids
    THEN [settlements[i] EXCEPT
            !.approval_weight = counted_weight(settlements[i].approvals, @, s),
            !.approvals = @ \cup {s}]
    ELSE settlements[i]]

(* Mutant: the status test replaced by a test that the entry exists.        *)
is_stored(i) == settlements[i].status # "Absent"

is_pending(i) == settlements[i].status = "Pending"

(* Mutant: the pause flag is never consulted.                               *)
IgnorePause == TRUE

require_not_paused == ~paused

is_hold_active(i) == holdExpiry[i] = NoTime \/ now < holdExpiry[i]

(***************************************************************************)
(* Calls into other contracts.                                             *)
(***************************************************************************)
(* Compliance::is_allowed_for_amount, modelled from its callers.            *)
is_allowed_for_amount(m, amount) == m \in allowed /\ amount <= TierLimit

require_compliance_allowed(m, amount) ==
  compliancePinned => is_allowed_for_amount(m, amount)

(* The token contract's transfer of "amount" out of the treasury panics     *)
(* when the balance does not cover it.                                      *)
transfer(token, amount) ==
  /\ pool[token] - amount \in Nat
  /\ pool' = [pool EXCEPT ![token] = @ - amount]

token_allowed(token) == TokenAllowlist = {} \/ token \in TokenAllowlist

(***************************************************************************)
(* Proposing.                                                              *)
(***************************************************************************)
(* Mutant: a full index keeps its oldest entries.                                   *)
PushWithoutDropping(m, id) ==
  merchantSettlements' =
    [merchantSettlements EXCEPT ![m] =
       IF Len(@) >= MAX_MERCHANT_SETTLEMENTS THEN @ ELSE Append(@, id)]

push_merchant_settlement(m, id) ==
  LET ids == merchantSettlements[m]
      kept == IF Len(ids) >= MAX_MERCHANT_SETTLEMENTS THEN Tail(ids) ELSE ids
  IN  merchantSettlements' = [merchantSettlements EXCEPT ![m] = Append(kept, id)]

propose(s, m, amount, deadline) ==
  LET id == settlementCount + 1
      new == [merchant |-> m, amount |-> amount, approvals |-> {s},
              approval_weight |-> counted_weight({}, 0, s),
              status |-> "Pending", hold_reason |-> "None",
              proposed_at |-> now, execution_deadline |-> deadline]
  IN  /\ require_not_paused
      /\ require_authorized_signer(s)
      /\ compliancePinned => m \in allowed
      /\ id \in Ids
      /\ record_approval({}, 0, s)
      /\ write_settlement({id}, [settlements EXCEPT ![id] = new], holdExpiry)
      /\ settlementCount' = id
      /\ push_merchant_settlement(m, id)
      /\ UNCHANGED <<moneyVars, configVars, partialApproved, registryVars, now>>

(* propose_partial_settlement is an alias of propose_settlement.            *)
propose_settlement(s, m, amount, deadline) ==
  propose(s, m, amount, deadline)

(* The token named here is only a label for get_pending_metrics: payouts    *)
(* take the token contract of their own call. The label is left out.        *)
propose_settlement_with_token(s, m, amount) ==
  propose(s, m, amount, 0)

(***************************************************************************)
(* Approving.                                                              *)
(***************************************************************************)
approve_settlement(s, i) ==
  /\ require_not_paused
  /\ require_authorized_signer(s)
  /\ is_pending(i)
  /\ record_approval(settlements[i].approvals, settlements[i].approval_weight, s)
  /\ write_settlement({i}, WithApproval({i}, s), holdExpiry)
  /\ UNCHANGED <<catalogVars, moneyVars, configVars, partialApproved,
                 registryVars, now>>

revoke_approval(s, i) ==
  /\ require_not_paused
  /\ require_authorized_signer(s)
  /\ is_pending(i)
  /\ s \in settlements[i].approvals
  /\ write_settlement({i},
       [settlements EXCEPT
          ![i].approvals = @ \ {s},
          ![i].approval_weight = revoked_weight(@, s)],
       holdExpiry)
  /\ UNCHANGED <<catalogVars, moneyVars, configVars, partialApproved,
                 registryVars, now>>

(* One overflowing sum fails the whole batch.                               *)
batch_approve_settlements(s, ids) ==
  LET open == {i \in ids : is_pending(i)} IN
  /\ require_not_paused
  /\ require_authorized_signer(s)
  /\ \A i \in open : counted_weight(settlements[i].approvals,
                       settlements[i].approval_weight, s) <= MaxWeight
  /\ write_settlement(open, WithApproval(open, s), holdExpiry)
  /\ UNCHANGED <<catalogVars, moneyVars, configVars, partialApproved,
                 registryVars, now>>

approve_partial_settlement(s, i, part) ==
  /\ require_not_paused
  /\ require_authorized_signer(s)
  /\ is_pending(i)
  /\ part > 0 /\ part < settlements[i].amount
  /\ partialApproved[i] + part <= settlements[i].amount
  /\ partialApproved' = [partialApproved EXCEPT ![i] = @ + part]
  /\ record_approval(settlements[i].approvals, settlements[i].approval_weight, s)
  /\ write_settlement({i}, WithApproval({i}, s), holdExpiry)
  /\ UNCHANGED <<catalogVars, moneyVars, configVars, registryVars, now>>

(***************************************************************************)
(* Paying.                                                                 *)
(***************************************************************************)
(* The status test of execute_settlement: pending, or on a lapsed hold.     *)
executable(i) ==
  \/ is_pending(i)
  \/ settlements[i].status = "OnHold" /\ ~is_hold_active(i)

execute_settlement(s, i, token) ==
  LET stl == settlements[i] IN
  /\ require_not_paused
  /\ require_authorized_signer(s)
  /\ executable(i)
  /\ meets_threshold(stl.approval_weight)
  /\ stl.execution_deadline > 0 => now <= stl.execution_deadline
  /\ token_allowed(token)
  /\ require_compliance_allowed(stl.merchant, stl.amount)
  /\ transfer(token, stl.amount)
  /\ paid' = [paid EXCEPT ![i] = @ + stl.amount]
  /\ write_settlement({i}, WithStatus({i}, "Executed"), holdExpiry)
  /\ UNCHANGED <<catalogVars, configVars, partialApproved, partialExecuted,
                 registryVars, now>>

(* Mutant: the batch takes only what was not approved in parts.             *)
AmountNotPartial(i) == settlements[i].amount - partialApproved[i]

AmountDue(i) == settlements[i].amount

(* The batch pays every pending id with a quorum and stores it directly,    *)
(* without write_settlement: index and hold expiry stay as they were. There *)
(* is no deadline and no compliance check. A transfer that fails fails all. *)
batch_execute_settlements(s, ids, token) ==
  LET due == {i \in ids : /\ is_pending(i)
                          /\ meets_threshold(settlements[i].approval_weight)} IN
  /\ require_not_paused
  /\ require_authorized_signer(s)
  /\ token_allowed(token)
  /\ transfer(token, SumOver([i \in Ids |-> AmountDue(i)], due))
  /\ paid' = [i \in Ids |-> IF i \in due THEN paid[i] + settlements[i].amount
                                         ELSE paid[i]]
  /\ settlements' = WithStatus(due, "Executed")
  /\ UNCHANGED <<pendingIndex, holdExpiry, catalogVars, configVars,
                 partialApproved, partialExecuted, registryVars, now>>

(* No allowlist, deadline or compliance check; the status it leaves is one  *)
(* no entry point accepts again.                                            *)
partially_execute_settlement(s, i, part, token) ==
  LET stl == settlements[i] IN
  /\ require_not_paused
  /\ require_authorized_signer(s)
  /\ is_pending(i)
  /\ part > 0 /\ part < stl.amount
  /\ meets_threshold(stl.approval_weight)
  /\ partialExecuted[i] + part <= stl.amount
  /\ partialExecuted' = [partialExecuted EXCEPT ![i] = @ + part]
  /\ transfer(token, part)
  /\ paid' = [paid EXCEPT ![i] = @ + part]
  /\ write_settlement({i}, WithStatus({i}, "PartiallyExecuted"), holdExpiry)
  /\ UNCHANGED <<catalogVars, configVars, partialApproved, registryVars,
                 now>>

(***************************************************************************)
(* Closing and holding.                                                    *)
(***************************************************************************)
cancel_settlement(s, i) ==
  /\ require_not_paused
  /\ require_authorized_signer(s)
  /\ is_pending(i)
  /\ write_settlement({i}, WithStatus({i}, "Cancelled"), holdExpiry)
  /\ UNCHANGED <<catalogVars, moneyVars, configVars, partialApproved,
                 registryVars, now>>

batch_cancel_settlements(ids) ==
  LET open == {i \in ids : is_pending(i)} IN
  /\ write_settlement(open, WithStatus(open, "Cancelled"), holdExpiry)
  /\ UNCHANGED <<catalogVars, moneyVars, configVars, partialApproved,
                 registryVars, now>>

force_cancel_settlement(i) ==
  /\ settlements[i].status \in {"Pending", "OnHold"}
  /\ write_settlement({i}, WithStatus({i}, "Cancelled"), holdExpiry)
  /\ UNCHANGED <<catalogVars, moneyVars, configVars, partialApproved,
                 registryVars, now>>

expire_settlement(i) ==
  /\ is_pending(i)
  /\ now > settlements[i].proposed_at + settlementExpiry
  /\ write_settlement({i}, WithStatus({i}, "Expired"), holdExpiry)
  /\ UNCHANGED <<catalogVars, moneyVars, configVars, partialApproved,
                 registryVars, now>>

(* A lapsed hold may be replaced; a permanent hold drops an old expiry.     *)
hold_settlement(i, reason, expires_at) ==
  /\ \/ is_pending(i)
     \/ settlements[i].status = "OnHold" /\ ~is_hold_active(i)
  /\ write_settlement({i}, WithHold(i, "OnHold", reason),
                      [holdExpiry EXCEPT ![i] = expires_at])
  /\ UNCHANGED <<catalogVars, moneyVars, configVars, partialApproved,
                 registryVars, now>>

release_hold(i) ==
  /\ settlements[i].status = "OnHold"
  /\ write_settlement({i}, WithHold(i, "Pending", "None"),
                      [holdExpiry EXCEPT ![i] = NoTime])
  /\ UNCHANGED <<catalogVars, moneyVars, configVars, partialApproved,
                 registryVars, now>>

(***************************************************************************)
(* Configuration.                                                          *)
(***************************************************************************)
pause ==
  /\ paused' = TRUE
  /\ UNCHANGED <<settlementExpiry, compliancePinned, allowed>>

unpause ==
  /\ paused' = FALSE
  /\ UNCHANGED <<settlementExpiry, compliancePinned, allowed>>

set_settlement_expiry(secs) ==
  /\ settlementExpiry' = secs
  /\ UNCHANGED <<paused, compliancePinned, allowed>>

set_compliance_id ==
  /\ compliancePinned' = TRUE
  /\ UNCHANGED <<paused, settlementExpiry, allowed>>

(* External: the compliance contract allows or blocks a merchant.           *)
ComplianceChange(m) ==
  /\ \/ allowed' = allowed \cup {m}
     \/ allowed' = allowed \ {m}
  /\ UNCHANGED <<paused, settlementExpiry, compliancePinned>>

Configure ==
  /\ \/ pause
     \/ unpause
     \/ \E secs \in ExpiryWindows : set_settlement_expiry(secs)
     \/ set_compliance_id
     \/ \E m \in Merchants : ComplianceChange(m)
  /\ UNCHANGED <<tableVars, catalogVars, moneyVars, partialApproved,
                 registryVars, now>>

SettlementNext ==
  \/ \E s \in Signers, m \in Merchants, a \in Amounts, d \in Deadlines :
       propose_settlement(s, m, a, d)
  \/ \E s \in Signers, m \in Merchants, a \in Amounts :
       propose_settlement_with_token(s, m, a)
  \/ \E s \in Signers, i \in Ids : approve_settlement(s, i)
  \/ \E s \in Signers, i \in Ids : revoke_approval(s, i)
  \/ \E s \in Signers, ids \in SUBSET Ids : batch_approve_settlements(s, ids)
  \/ \E s \in Signers, i \in Ids : \E part \in 1 .. settlements[i].amount :
       approve_partial_settlement(s, i, part)
  \/ \E s \in Signers, i \in Ids, t \in Tokens : execute_settlement(s, i, t)
  \/ \E s \in Signers, ids \in SUBSET Ids, t \in Tokens :
       batch_execute_settlements(s, ids, t)
  \/ \E s \in Signers, i \in Ids, t \in Tokens :
       \E part \in 1 .. settlements[i].amount :
         partially_execute_settlement(s, i, part, t)
  \/ \E s \in Signers, i \in Ids : cancel_settlement(s, i)
  \/ \E ids \in SUBSET Ids : batch_cancel_settlements(ids)
  \/ \E i \in Ids : force_cancel_settlement(i)
  \/ \E i \in Ids : expire_settlement(i)
  \/ \E i \in Ids, r \in HoldReasons \cup {"None"}, e \in HoldExpiries :
       hold_settlement(i, r, e)
  \/ \E i \in Ids : release_hold(i)
  \/ Configure

SettlementTypeOK ==
  /\ settlements \in [Ids -> Settlement]
  /\ settlementCount \in 0 .. MaxSettlements
  /\ pendingIndex \subseteq Ids
  /\ holdExpiry \in [Ids -> Nat \cup {NoTime}]
  /\ partialApproved \in [Ids -> Nat]
  /\ partialExecuted \in [Ids -> Nat]
  /\ merchantSettlements \in [Merchants -> Seq(Ids)]
  /\ paused \in BOOLEAN
  /\ settlementExpiry \in Nat
  /\ compliancePinned \in BOOLEAN
  /\ allowed \subseteq Merchants
  /\ pool \in [Tokens -> Nat]
  /\ paid \in [Ids -> Nat]
=============================================================================
