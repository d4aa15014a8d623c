--------------------------- MODULE SignerRegistry ---------------------------
(***************************************************************************)
(* The weighted signer registry of the treasury contract and the approval  *)
(* arithmetic every multisig decision shares (crates/multisig, and the     *)
(* signer and threshold entry points of contracts/treasury).               *)
(*                                                                         *)
(* A contract call is one atomic step: a call that returns an error or     *)
(* panics is rolled back by the host, so it is no step at all, and the     *)
(* guard of an action is the conjunction of the checks its call passes.    *)
(* Authentication (require_auth, require_admin) is implicit: an action     *)
(* taken "by" a key is a call that key signed.                             *)
(***************************************************************************)
EXTENDS Integers, FiniteSets, FiniteSetsExt

CONSTANTS
  Signers,     \* every address that may ever be registered as a signer
  Admin,       \* the treasury admin; it starts as a signer of weight 1
  Weights,     \* the positive weights the admin hands out
  Thresholds,  \* the non-zero thresholds the admin configures
  MaxWeight,   \* stands for u32::MAX, where the weight arithmetic overflows
  MaxTime      \* bound on the ledger timestamp

(* What the code relies on: addresses are finitely many, weights and       *)
(* thresholds handed to the entry points below are positive u32 values.    *)
ASSUME RegistryAssumption ==
  /\ IsFiniteSet(Signers)
  /\ Admin \in Signers
  /\ MaxWeight \in Nat \ {0}
  /\ Weights \subseteq 1 .. MaxWeight
  /\ Thresholds \subseteq 1 .. MaxWeight
  /\ MaxTime \in Nat \ {0}

VARIABLES
  signerWeight,  \* DataKey::Signer(_): 0 when there is no entry
  signerList,    \* DataKey::SignerList, which holds no duplicates
  threshold,     \* DataKey::Threshold
  now            \* the ledger timestamp

registryVars == <<signerWeight, signerList, threshold>>

(* "No timestamp": the None of an Option<u64>.                              *)
NoTime == -1

(***************************************************************************)
(* The multisig crate.                                                     *)
(***************************************************************************)
signer_weight(s) == signerWeight[s]

require_authorized_signer(s) == signer_weight(s) # 0

(* Mutant: an approval short of the threshold is enough.                    *)
AlmostMeetsThreshold(weight) == weight + 1 >= threshold

meets_threshold(weight) == weight >= threshold

(* Mutant: no duplicate check.                                              *)
CountEveryApproval(approvals, weight, s) == weight + signer_weight(s)

(* The weight of an approval set after s approves: a repeated approval      *)
(* counts once.                                                             *)
counted_weight(approvals, weight, s) ==
  IF s \in approvals THEN weight ELSE weight + signer_weight(s)

(* record_approval panics when the sum overflows; its caller stores         *)
(* approvals \cup {s} with the counted weight. The SignerLastActive stamp,  *)
(* which only its getter reads, is left out.                                *)
record_approval(approvals, weight, s) ==
  counted_weight(approvals, weight, s) <= MaxWeight

(* Revoking subtracts the signer's current weight, saturating at zero.      *)
revoked_weight(weight, s) ==
  IF weight >= signer_weight(s) THEN weight - signer_weight(s) ELSE 0

(***************************************************************************)
(* Signer and threshold administration.                                    *)
(***************************************************************************)
TotalWeight == MapThenSumSet(signer_weight, signerList)

(* initialize: the admin starts in the list with weight 1, then each pair   *)
(* (s, w) overwrites the weight of s and appends s to the list if w > 0 and *)
(* it is not there. A key named twice may end with weight 0 in the list.    *)
RegistryInit ==
  /\ \E named \in SUBSET Signers, w \in [Signers -> Weights \cup {0}] :
       /\ signerWeight = [s \in Signers |->
            IF s \in named THEN w[s] ELSE IF s = Admin THEN 1 ELSE 0]
       /\ \E extra \in SUBSET {s \in named : w[s] = 0} :
            signerList = {Admin} \cup {s \in named : w[s] > 0} \cup extra
  /\ threshold \in Thresholds
  /\ now = 1

(* Mutant: the new weight is added to the old one.                          *)
SetSignerAdding(s, w) ==
  /\ signerWeight' = [signerWeight EXCEPT ![s] = @ + w]
  /\ signerList' = signerList \cup {s}
  /\ UNCHANGED <<threshold, now>>

(* set_signer rejects weight 0 (Weights is positive).                       *)
set_signer(s, w) ==
  /\ signerWeight' = [signerWeight EXCEPT ![s] = w]
  /\ signerList' = signerList \cup {s}
  /\ UNCHANGED <<threshold, now>>

(* remove_signer refuses to leave the listed weight below the threshold;    *)
(* the total saturates at u32::MAX.                                         *)
remove_signer(s) ==
  /\ Min({TotalWeight, MaxWeight}) - signer_weight(s) >= threshold
  /\ signerWeight' = [signerWeight EXCEPT ![s] = 0]
  /\ signerList' = signerList \ {s}
  /\ UNCHANGED <<threshold, now>>

(* update_threshold: the sum of the listed weights must not overflow.       *)
update_threshold(t) ==
  /\ TotalWeight <= MaxWeight
  /\ t <= TotalWeight
  /\ threshold' = t
  /\ UNCHANGED <<signerWeight, signerList, now>>

(* The ledger closes: time moves on.                                        *)
Tick ==
  /\ now < MaxTime
  /\ now' = now + 1
  /\ UNCHANGED registryVars

RegistryNext ==
  \/ \E s \in Signers, w \in Weights : set_signer(s, w)
  \/ \E s \in Signers : remove_signer(s)
  \/ \E t \in Thresholds : update_threshold(t)

RegistryTypeOK ==
  /\ signerWeight \in [Signers -> 0 .. MaxWeight]
  /\ signerList \subseteq Signers
  /\ threshold \in 1 .. MaxWeight
  /\ now \in Nat
=============================================================================
