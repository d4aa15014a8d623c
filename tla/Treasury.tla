------------------------------ MODULE Treasury ------------------------------
(***************************************************************************)
(* The treasury contract: the signer registry, the settlement engine and   *)
(* the disputes that hold settlements (contracts/treasury/src/disputes.rs),*)
(* composed over the one storage they share, and the properties of the     *)
(* composition.                                                            *)
(***************************************************************************)
EXTENDS Settlements

CONSTANTS
  MaxDisputes,      \* bound on DisputeCount
  DisputeAmounts,   \* amounts disputed
  DisputeExpiries,  \* values of dispute_expires_at
  Bps               \* shares of claimant offered to resolve_dispute_split

ASSUME DisputeAssumption ==
  /\ MaxDisputes \in Nat
  /\ DisputeAmounts \subseteq Nat \ {0}
  /\ DisputeExpiries \subseteq Nat
  /\ Bps \subseteq Nat

VARIABLES
  disputes,      \* DataKey::Dispute(_)
  disputeCount   \* DataKey::DisputeCount

disputeVars == <<disputes, disputeCount>>
vars == <<registryVars, now, settlementVars, disputeVars>>

DisputeIds == 1 .. MaxDisputes

(* DisputeStatus, with Absent for "no such storage entry".                  *)
DisputeStatuses == {"Absent", "Raised", "ResolvedClaimant",
                    "ResolvedCounterparty", "ResolvedSplit", "Expired"}

(* The parties are left out: a dispute is told apart by its settlement, its *)
(* amount and its votes. DataKey::SettlementDisputes is the list of the     *)
(* dispute ids of a settlement in order, which the disputes themselves give.*)
Dispute ==
  [settlement_id : Ids, amount : Nat, status : DisputeStatuses,
   resolution_approvals : SUBSET Signers, resolution_weight : 0 .. MaxWeight,
   resolution_for_claimant : BOOLEAN, dispute_expires_at : Nat,
   claimant_share_bps : Nat]

NoDispute ==
  [settlement_id |-> CHOOSE i \in Ids : TRUE, amount |-> 0,
   status |-> "Absent", resolution_approvals |-> {}, resolution_weight |-> 0,
   resolution_for_claimant |-> FALSE, dispute_expires_at |-> 0,
   claimant_share_bps |-> 0]

DisputeInit ==
  /\ disputes = [d \in DisputeIds |-> NoDispute]
  /\ disputeCount = 0

(***************************************************************************)
(* Disputes.                                                               *)
(***************************************************************************)
(* Anyone may dispute any id; a pending settlement goes on hold, without a  *)
(* reason and without touching an earlier HoldExpiry.                       *)
raise_dispute(i, amount, expires_at) ==
  LET id == disputeCount + 1 IN
  /\ require_not_paused
  /\ id \in DisputeIds
  /\ IF is_pending(i)
     THEN write_settlement({i}, WithStatus({i}, "OnHold"), holdExpiry)
     ELSE UNCHANGED tableVars
  /\ disputes' = [disputes EXCEPT ![id] =
       [settlement_id |-> i, amount |-> amount, status |-> "Raised",
        resolution_approvals |-> {}, resolution_weight |-> 0,
        resolution_for_claimant |-> FALSE, dispute_expires_at |-> expires_at,
        claimant_share_bps |-> 0]]
  /\ disputeCount' = id
  /\ UNCHANGED <<catalogVars, moneyVars, configVars,
                 partialApproved, registryVars, now>>

(* Mutant: the scan stops one dispute short.                                *)
HasOpenButLast(table, i) ==
  \E d \in DisputeIds : /\ d < disputeCount
                        /\ table[d].settlement_id = i
                        /\ table[d].status = "Raised"

(* Mutant: a dispute that ended still counts.                               *)
HasOpenEver(table, i) ==
  \E d \in DisputeIds : d <= disputeCount /\ table[d].settlement_id = i

has_open(table, i) ==
  \E d \in DisputeIds : /\ d <= disputeCount
                        /\ table[d].settlement_id = i
                        /\ table[d].status = "Raised"

(* Mutant: the reason of the hold survives it.                              *)
ReleaseKeepingReason(table, i) ==
  IF settlements[i].status = "OnHold" /\ ~has_open(table, i)
  THEN write_settlement({i}, WithStatus({i}, "Pending"), holdExpiry)
  ELSE UNCHANGED tableVars

(* The hold goes when the updated dispute table has no open dispute on i;   *)
(* HoldExpiry stays.                                                        *)
release_settlement_hold_if_no_open_disputes(table, i) ==
  IF settlements[i].status = "OnHold" /\ ~has_open(table, i)
  THEN write_settlement({i}, WithHold(i, "Pending", "None"), holdExpiry)
  ELSE UNCHANGED tableVars

expire_dispute(d) ==
  /\ disputes[d].status = "Raised"
  /\ now >= disputes[d].dispute_expires_at
  /\ disputes' = [disputes EXCEPT ![d].status = "Expired"]
  /\ release_settlement_hold_if_no_open_disputes(disputes', disputes[d].settlement_id)
  /\ UNCHANGED <<disputeCount, catalogVars, moneyVars, configVars,
                 partialApproved, registryVars, now>>

verdict(for_claimant) ==
  IF for_claimant THEN "ResolvedClaimant" ELSE "ResolvedCounterparty"

resolve_dispute(d, for_claimant) ==
  /\ require_not_paused
  /\ disputes[d].status = "Raised"
  /\ disputes' = [disputes EXCEPT ![d].status = verdict(for_claimant)]
  /\ release_settlement_hold_if_no_open_disputes(disputes', disputes[d].settlement_id)
  /\ UNCHANGED <<disputeCount, catalogVars, moneyVars, configVars,
                 partialApproved, registryVars, now>>

BPS_DENOMINATOR == 10000

is_valid_bps(bps) == bps <= BPS_DENOMINATOR

(* The share truncates toward zero; amounts here are far from i128::MAX.    *)
apply_bps(amount, bps) == (amount * bps) \div BPS_DENOMINATOR

(* Mutant: the other half as a truncated share of its own.                  *)
CounterpartyShareByDivision(amount, bps) ==
  apply_bps(amount, BPS_DENOMINATOR - bps)

(* The other half is what the first leaves.                                 *)
counterparty_share(amount, bps) == amount - apply_bps(amount, bps)

resolve_dispute_split(d, bps, token) ==
  LET amount == disputes[d].amount
      total == apply_bps(amount, bps) + counterparty_share(amount, bps) IN
  /\ require_not_paused
  /\ is_valid_bps(bps)
  /\ disputes[d].status = "Raised"
  /\ transfer(token, total)
  /\ disputes' = [disputes EXCEPT ![d].status = "ResolvedSplit",
                                  ![d].claimant_share_bps = bps]
  /\ release_settlement_hold_if_no_open_disputes(disputes', disputes[d].settlement_id)
  /\ UNCHANGED <<disputeCount, paid, partialExecuted, catalogVars, configVars,
                 partialApproved, registryVars, now>>

(* Mutant: a later vote may turn the direction.                             *)
AnyDirection(dsp, for_claimant) == TRUE

(* The first vote sets the direction; the later ones must agree with it.    *)
direction_agrees(dsp, for_claimant) ==
  dsp.resolution_weight = 0 \/ dsp.resolution_for_claimant = for_claimant

(* Votes settle the dispute when they reach the threshold, and leave the    *)
(* settlement's hold alone.                                                 *)
vote_dispute_resolution(s, d, for_claimant) ==
  LET dsp == disputes[d]
      weight == counted_weight(dsp.resolution_approvals, dsp.resolution_weight, s)
  IN
  /\ require_not_paused
  /\ require_authorized_signer(s)
  /\ dsp.status = "Raised"
  /\ s \notin dsp.resolution_approvals
  /\ direction_agrees(dsp, for_claimant)
  /\ record_approval(dsp.resolution_approvals, dsp.resolution_weight, s)
  /\ disputes' = [disputes EXCEPT ![d] =
       [dsp EXCEPT
          !.resolution_approvals = @ \cup {s},
          !.resolution_weight = weight,
          !.resolution_for_claimant = for_claimant,
          !.status = IF meets_threshold(weight) THEN verdict(for_claimant)
                                                ELSE "Raised"]]
  /\ UNCHANGED <<disputeCount, tableVars, catalogVars, moneyVars,
                 configVars, partialApproved, registryVars, now>>

DisputeNext ==
  \/ \E i \in Ids, a \in DisputeAmounts, e \in DisputeExpiries :
       raise_dispute(i, a, e)
  \/ \E d \in DisputeIds : expire_dispute(d)
  \/ \E d \in DisputeIds, c \in BOOLEAN : resolve_dispute(d, c)
  \/ \E d \in DisputeIds, b \in Bps, t \in Tokens : resolve_dispute_split(d, b, t)
  \/ \E s \in Signers, d \in DisputeIds, c \in BOOLEAN :
       vote_dispute_resolution(s, d, c)

(***************************************************************************)
(* The contract: any caller may make any call at any time. Nothing obliges *)
(* anyone to make one, so the specification has no fairness.               *)
(***************************************************************************)
Init == RegistryInit /\ SettlementInit /\ DisputeInit

Next ==
  \/ SettlementNext /\ UNCHANGED disputeVars
  \/ DisputeNext
  \/ (RegistryNext \/ Tick) /\ UNCHANGED <<settlementVars, disputeVars>>

Spec == Init /\ [][Next]_vars

(* Every storage entry keeps its type: in particular an approval weight     *)
(* never passes u32::MAX and no token balance goes below zero.              *)
TypeOK ==
  /\ RegistryTypeOK
  /\ SettlementTypeOK
  /\ disputes \in [DisputeIds -> Dispute]
  /\ disputeCount \in 0 .. MaxDisputes

(***************************************************************************)
(* Safety.                                                                 *)
(***************************************************************************)
Settled == Final \cup {"PartiallyExecuted"}

(* Whatever mix of execute, batch_execute, partially_execute, cancels,      *)
(* expiries, holds and disputes a settlement goes through, its merchant has *)
(* received its whole amount exactly when it is Executed, the recorded      *)
(* partial total when it is PartiallyExecuted, and nothing otherwise: no    *)
(* payout is made twice, and none on a settlement that was called off.      *)
PaidMatchesStatus ==
  \A i \in Ids :
    LET stl == settlements[i] IN
    /\ stl.status = "Executed" => paid[i] = stl.amount /\ partialExecuted[i] = 0
    /\ stl.status = "PartiallyExecuted" =>
         /\ paid[i] = partialExecuted[i]
         /\ 0 < paid[i] /\ paid[i] < stl.amount
    /\ stl.status \notin {"Executed", "PartiallyExecuted"} =>
         paid[i] = 0 /\ partialExecuted[i] = 0

SplitDisputes == {d \in DisputeIds : disputes[d].status = "ResolvedSplit"}

(* Every unit that left the treasury's token balances is accounted for by a *)
(* settlement payout or by the full amount of a dispute resolved by         *)
(* resolve_dispute_split: batches charge the sum of what they pay, and the  *)
(* truncating basis-point split creates and loses no dust.                  *)
FundsAccounted ==
  SumOver(pool, Tokens) + SumOver(paid, Ids)
    + SumOver([d \in DisputeIds |-> disputes[d].amount], SplitDisputes)
  = Funds * Cardinality(Tokens)

(* The pending index never misses a Pending settlement through any sequence *)
(* of writes (get_pending_settlements and the metrics read only the index), *)
(* and what it may still list besides is an Executed one, left behind by    *)
(* batch_execute_settlements.                                               *)
PendingAlwaysIndexed ==
  \A i \in Ids :
    /\ is_pending(i) => i \in pendingIndex
    /\ i \in pendingIndex => settlements[i].status \in {"Pending", "Executed"}

(* A settlement back at Pending carries no hold reason, whether             *)
(* release_hold or the end of its last dispute released it.                 *)
PendingHasNoHoldReason ==
  \A i \in Ids : is_pending(i) => settlements[i].hold_reason = "None"

(* The list holds the newest ids of own, oldest first: no more than the cap *)
(* and, only once it is full, fewer than all, those left out being older.   *)
ListsNewest(list, own) ==
  /\ ListsInOrder(list, ToSet(list) \cap own)
  /\ Len(list) <= MAX_MERCHANT_SETTLEMENTS
  /\ \A i \in own \ ToSet(list) :
       Len(list) = MAX_MERCHANT_SETTLEMENTS /\ \A j \in ToSet(list) : i < j

(* The capped index of a merchant (push_merchant_settlement) is always the  *)
(* newest MAX_MERCHANT_SETTLEMENTS of the settlements proposed for it, in   *)
(* proposal order.                                                          *)
MerchantIndexIsLatest ==
  \A m \in Merchants :
    ListsNewest(merchantSettlements[m],
                {i \in 1 .. settlementCount : settlements[i].merchant = m})

UnitWeights == Weights = {1}

(* With every signer at weight 1, an approval weight is the number of       *)
(* distinct signers whose approval stands, through re-approvals, batches,   *)
(* revocations and the removal and return of signers; so are dispute votes. *)
WeightCountsSigners ==
  UnitWeights =>
    /\ \A i \in Ids :
         settlements[i].approval_weight = Cardinality(settlements[i].approvals)
    /\ \A d \in DisputeIds :
         disputes[d].resolution_weight = Cardinality(disputes[d].resolution_approvals)

(***************************************************************************)
(* Action properties.                                                      *)
(***************************************************************************)
(* No step touches a settlement that was executed, partially executed,      *)
(* cancelled or expired, or pays on it again. For PartiallyExecuted this is *)
(* what the code does against its own comments, which speak of a cumulative *)
(* amount over several calls: every entry point asks for Pending, so the    *)
(* first partial payout is the last.                                        *)
SettledStaysSettled ==
  [][\A i \in Ids : settlements[i].status \in Settled =>
       settlements'[i] = settlements[i] /\ paid'[i] = paid[i]]_vars

PaysOn(i) == paid'[i] # paid[i]

(* With every signer at weight 1, no payout of any kind happens without the *)
(* standing approval of at least threshold distinct signers, threshold      *)
(* being the one in force at the payout.                                    *)
QuorumOfDistinctSigners ==
  [][UnitWeights => \A i \in Ids : PaysOn(i) =>
       Cardinality(settlements[i].approvals) >= threshold]_vars

(* A dispute call that puts a held settlement back to Pending leaves no     *)
(* open dispute on it: one of two disputes ending never lifts the hold.     *)
HoldEndsWithLastDispute ==
  [][\A i \in Ids :
       (/\ settlements[i].status = "OnHold"
        /\ settlements'[i].status = "Pending"
        /\ disputes' # disputes) =>
         \A d \in DisputeIds : ~(/\ disputes'[d].settlement_id = i
                                 /\ disputes'[d].status = "Raised")]_vars

(* The step ends d, and no dispute on its settlement is open after it.      *)
LastDisputeEnds(d) ==
  /\ disputes[d].status = "Raised"
  /\ disputes'[d].status # "Raised"
  /\ \A e \in DisputeIds : disputes'[e].settlement_id = disputes[d].settlement_id
                              => disputes'[e].status # "Raised"

(* The other half: when the last open dispute on a settlement ends by       *)
(* expiry, by the admin's verdict or by a split, the settlement is not left *)
(* on hold. The fourth ending, votes, does not call the release: that is    *)
(* VotesLiftHold below.                                                     *)
LastDisputeLiftsHold ==
  [][\A d \in DisputeIds :
       (LastDisputeEnds(d)
        /\ disputes'[d].resolution_approvals = disputes[d].resolution_approvals)
         => settlements'[disputes[d].settlement_id].status # "OnHold"]_vars

(* Signers' votes decide a dispute only with threshold distinct voters      *)
(* (unit weights), for the side every one of them voted for: the direction  *)
(* of the first vote never turns.                                           *)
VotesDecide ==
  [][\A d \in DisputeIds :
       LET old == disputes[d]
           new == disputes'[d] IN
       /\ old.resolution_approvals # {} =>
            new.resolution_for_claimant = old.resolution_for_claimant
       /\ (/\ UnitWeights
           /\ old.status = "Raised" /\ new.status # "Raised"
           /\ new.resolution_approvals # old.resolution_approvals) =>
            /\ Cardinality(new.resolution_approvals) >= threshold
            /\ new.status = verdict(new.resolution_for_claimant)]_vars

(* While the contract is paused no token leaves it, nothing is proposed or  *)
(* disputed, and no approval or vote is recorded or withdrawn ("blocking    *)
(* all state-mutating operations except admin functions").                  *)
PauseFreezesCallers ==
  [][paused =>
       /\ UNCHANGED <<pool, paid, settlementCount, disputeCount>>
       /\ \A i \in Ids : settlements'[i].approvals = settlements[i].approvals
       /\ \A d \in DisputeIds : disputes'[d].resolution_approvals
                                  = disputes[d].resolution_approvals]_vars

(***************************************************************************)
(* The treasury implements the settlement life cycle.                      *)
(***************************************************************************)
StageOf(status) ==
  CASE status = "Absent"            -> "unborn"
    [] status = "Pending"           -> "open"
    [] status = "OnHold"            -> "held"
    [] status = "Executed"          -> "paid"
    [] status = "PartiallyExecuted" -> "part_paid"
    [] OTHER                        -> "closed"

Life == INSTANCE SettlementLifecycle WITH
          stage <- [i \in Ids |-> StageOf(settlements[i].status)],
          due <- [i \in Ids |-> settlements[i].amount],
          received <- paid

(* Every call of the treasury is a step of the settlement life cycle, or    *)
(* leaves every settlement's stage, amount and payout alone.                *)
ImplementsLifecycle == Life!LifecycleSpec

(***************************************************************************)
(* What the documentation claims and the code does not keep.               *)
(***************************************************************************)
(* Raising a dispute places the settlement "on hold while the dispute is    *)
(* open": a held settlement with an open dispute is not paid.               *)
DisputedIsNotPaid ==
  [][\A i \in Ids :
       (settlements[i].status = "OnHold" /\ has_open(disputes, i)) => ~PaysOn(i)]_vars

(* When votes reach the threshold "the dispute is resolved and the          *)
(* settlement hold is lifted": a vote that decides the last open dispute on *)
(* a settlement does not leave it on hold.                                  *)
VotesLiftHold ==
  [][\A d \in DisputeIds :
       (LastDisputeEnds(d)
        /\ disputes'[d].resolution_approvals # disputes[d].resolution_approvals)
         => settlements'[disputes[d].settlement_id].status # "OnHold"]_vars
=============================================================================
