----------------------------- MODULE Governance -----------------------------
(***************************************************************************)
(* How the treasury's signer set, threshold and admin change other than by *)
(* the admin's direct calls: signer rotations that the signers approve     *)
(* (contracts/treasury/src/signers.rs), signer changes that wait behind a  *)
(* timelock (timelock.rs) and the two-step hand-over of the admin role     *)
(* (admin.rs). The three share the registry of SignerRegistry with the     *)
(* direct calls, which can land between any two of their steps.            *)
(*                                                                         *)
(* None of these entry points is gated by the pause flag. A call checked   *)
(* by require_admin is a call the current admin signed.                    *)
(***************************************************************************)
EXTENDS SignerRegistry, Sequences

CONSTANTS
  RotationCooldown,    \* COOLDOWN_SECS of propose_signer_rotation
  MinTimelockDelay,    \* MIN_TIMELOCK_DELAY_SECS
  MaxTimelockDelay,    \* MAX_TIMELOCK_DELAY_SECS
  SignerChangeDelay,   \* SIGNER_CHANGE_TIMELOCK_SECS, the delay at the start
  QueuedWeights,       \* the weights, 0 among them, SetSigner changes ask for
  QueuedThresholds,    \* the thresholds UpdateThreshold changes ask for
  QueuedDelays,        \* the delays UpdateTimelockDelay changes ask for
  Nominees,            \* the addresses the admin may nominate as admin
  HandoverPeriods,     \* the expiry_secs of those nominations
  MaxRotations,        \* bound on the rotations proposed
  MaxChanges           \* bound on the signer changes queued

ASSUME GovernanceAssumption ==
  /\ MinTimelockDelay \in Nat \ {0}
  /\ SignerChangeDelay \in MinTimelockDelay .. MaxTimelockDelay
  /\ MaxTimelockDelay \in Nat
  /\ RotationCooldown \in Nat
  /\ QueuedWeights \subseteq 0 .. MaxWeight
  /\ QueuedThresholds \subseteq 0 .. MaxWeight
  /\ QueuedDelays \subseteq Nat
  /\ HandoverPeriods \subseteq Nat
  /\ MaxRotations \in Nat
  /\ MaxChanges \in Nat

VARIABLES
  rotations,     \* DataKey::SignerRotation(id), id from 1 to RotationCount
  lastProposal,  \* DataKey::LastRotationProposal(_): NoTime when unset
  changes,       \* DataKey::SignerChange(id), id from 1 to SignerChangeCount
  timelockDelay, \* DataKey::TimelockDelaySecs, or its default
  admin,         \* DataKey::Admin
  pendingAdmin   \* DataKey::PendingAdmin: a set of at most one nomination

rotationVars == <<rotations, lastProposal>>
changeVars == <<changes, timelockDelay>>
handoverVars == <<admin, pendingAdmin>>
governanceVars == <<registryVars, rotationVars, changeVars, handoverVars, now>>

(* SignerChangeKind.                                                        *)
ChangeKinds ==
  [op : {"SetSigner"}, signer : Signers, weight : QueuedWeights]
    \cup [op : {"RemoveSigner"}, signer : Signers]
    \cup [op : {"UpdateThreshold"}, threshold : QueuedThresholds]
    \cup [op : {"UpdateTimelockDelay"}, seconds : QueuedDelays]

(* RotationStatus and SignerChangeStatus have the same three values.        *)
ProposalStatus == {"Pending", "Executed", "Cancelled"}

GovernanceInit ==
  /\ RegistryInit
  /\ rotations = << >>
  /\ lastProposal = [s \in Signers |-> NoTime]
  /\ changes = << >>
  /\ timelockDelay = SignerChangeDelay
  /\ admin = Admin
  /\ pendingAdmin = {}

(***************************************************************************)
(* Signer rotation.                                                        *)
(***************************************************************************)

(* The proposal records its proposer's approval and the weight the old key  *)
(* has now. It is never executed here, even where that approval suffices.   *)
propose_signer_rotation(proposer, old, new) ==
  /\ Len(rotations) < MaxRotations
  /\ require_authorized_signer(proposer)
  /\ \/ lastProposal[proposer] = NoTime
     \/ now >= lastProposal[proposer] + RotationCooldown
  /\ record_approval({}, 0, proposer)
  /\ lastProposal' = [lastProposal EXCEPT ![proposer] = now]
  /\ rotations' = Append(rotations,
       [old_signer |-> old, new_signer |-> new, approvals |-> {proposer},
        approval_weight |-> counted_weight({}, 0, proposer),
        captured_old_weight |-> signer_weight(old), status |-> "Pending"])
  /\ UNCHANGED <<registryVars, changeVars, handoverVars, now>>

(* The two writes of an executed rotation, in their order: rotating a key   *)
(* to itself leaves it with weight 0. SignerList is not touched.            *)
Rotated(r) ==
  [signerWeight EXCEPT ![r.new_signer] = r.captured_old_weight,
                       ![r.old_signer] = 0]

(* Mutant: the executed rotation is stored as Pending.                      *)
ApproveRotationLeftPending(approver, i) ==
  LET r == rotations[i]
      weight == counted_weight(r.approvals, r.approval_weight, approver)
  IN /\ require_authorized_signer(approver)
     /\ r.status = "Pending"
     /\ record_approval(r.approvals, r.approval_weight, approver)
     /\ rotations' = [rotations EXCEPT
          ![i].approvals = @ \cup {approver}, ![i].approval_weight = weight]
     /\ signerWeight' = IF meets_threshold(weight) THEN Rotated(r) ELSE signerWeight
     /\ UNCHANGED <<signerList, threshold, lastProposal, changeVars,
                    handoverVars, now>>

approve_signer_rotation(approver, i) ==
  LET r == rotations[i]
      weight == counted_weight(r.approvals, r.approval_weight, approver)
      carried == meets_threshold(weight)
  IN /\ require_authorized_signer(approver)
     /\ r.status = "Pending"
     /\ record_approval(r.approvals, r.approval_weight, approver)
     /\ rotations' = [rotations EXCEPT
          ![i].approvals = @ \cup {approver},
          ![i].approval_weight = weight,
          ![i].status = IF carried THEN "Executed" ELSE "Pending"]
     /\ signerWeight' = IF carried THEN Rotated(r) ELSE signerWeight
     /\ UNCHANGED <<signerList, threshold, lastProposal, changeVars,
                    handoverVars, now>>

cancel_rotation(i) ==
  /\ rotations[i].status = "Pending"
  /\ rotations' = [rotations EXCEPT ![i].status = "Cancelled"]
  /\ UNCHANGED <<registryVars, lastProposal, changeVars, handoverVars, now>>

(***************************************************************************)
(* Timelocked signer changes.                                              *)
(***************************************************************************)

(* Mutant: a delay is only bounded from above.                              *)
UncheckedDelay(kind) ==
  kind.op = "UpdateTimelockDelay" => kind.seconds <= MaxTimelockDelay

(* The bound propose_signer_change and execute_signer_change both check.    *)
valid_delay(kind) ==
  kind.op = "UpdateTimelockDelay" =>
    kind.seconds \in MinTimelockDelay .. MaxTimelockDelay

(* Nothing else about the change is checked until it is executed.           *)
propose_signer_change(kind) ==
  /\ Len(changes) < MaxChanges
  /\ valid_delay(kind)
  /\ changes' = Append(changes,
       [kind |-> kind, proposed_at |-> now,
        executable_at |-> now + timelockDelay, status |-> "Pending"])
  /\ UNCHANGED <<registryVars, rotationVars, timelockDelay, handoverVars, now>>

(* Mutant: the key is taken off the list and keeps its weight.              *)
UnlistOnly(s) ==
  /\ signerList' = signerList \ {s}
  /\ UNCHANGED <<signerWeight, threshold, timelockDelay>>

(* A RemoveSigner change, unlike remove_signer, does not ask what weight is *)
(* left once the key is gone.                                               *)
apply_remove_signer(s) ==
  /\ signerWeight' = [signerWeight EXCEPT ![s] = 0]
  /\ signerList' = signerList \ {s}
  /\ UNCHANGED <<threshold, timelockDelay>>

(* What executing a change does to the registry and the delay. A SetSigner  *)
(* to 0 takes the key off the list; UpdateThreshold is checked against the  *)
(* list as it is now.                                                       *)
apply_change(kind) ==
  \/ /\ kind.op = "SetSigner"
     /\ signerWeight' = [signerWeight EXCEPT ![kind.signer] = kind.weight]
     /\ signerList' = IF kind.weight > 0 THEN signerList \cup {kind.signer}
                                         ELSE signerList \ {kind.signer}
     /\ UNCHANGED <<threshold, timelockDelay>>
  \/ /\ kind.op = "RemoveSigner"
     /\ apply_remove_signer(kind.signer)
  \/ /\ kind.op = "UpdateThreshold"
     /\ kind.threshold # 0
     /\ TotalWeight <= MaxWeight
     /\ kind.threshold <= TotalWeight
     /\ threshold' = kind.threshold
     /\ UNCHANGED <<signerWeight, signerList, timelockDelay>>
  \/ /\ kind.op = "UpdateTimelockDelay"
     /\ valid_delay(kind)
     /\ timelockDelay' = kind.seconds
     /\ UNCHANGED registryVars

execute_signer_change(i) ==
  /\ changes[i].status = "Pending"
  /\ now >= changes[i].executable_at
  /\ apply_change(changes[i].kind)
  /\ changes' = [changes EXCEPT ![i].status = "Executed"]
  /\ UNCHANGED <<rotationVars, handoverVars, now>>

cancel_signer_change(i) ==
  /\ changes[i].status = "Pending"
  /\ changes' = [changes EXCEPT ![i].status = "Cancelled"]
  /\ UNCHANGED <<registryVars, rotationVars, timelockDelay, handoverVars, now>>

(***************************************************************************)
(* The hand-over of the admin role.                                        *)
(***************************************************************************)

(* get_pending_admin: a nomination that has expired is as good as none. The *)
(* removal that accept_admin attempts of one is rolled back with its error. *)
get_pending_admin == {p \in pendingAdmin : now < p.expires_at}

(* A new nomination replaces the one that is pending.                       *)
transfer_admin(new, expiry) ==
  /\ pendingAdmin' = {[new_admin |-> new, expires_at |-> now + expiry]}
  /\ UNCHANGED <<registryVars, rotationVars, changeVars, admin, now>>

accept_admin(new) ==
  /\ \E p \in get_pending_admin : p.new_admin = new
  /\ admin' = new
  /\ pendingAdmin' = {}
  /\ UNCHANGED <<registryVars, rotationVars, changeVars, now>>

cancel_transfer_admin ==
  /\ get_pending_admin # {}
  /\ pendingAdmin' = {}
  /\ UNCHANGED <<registryVars, rotationVars, changeVars, admin, now>>

(***************************************************************************)
(* The specification.                                                      *)
(***************************************************************************)
RotationNext ==
  \/ \E p, old, new \in Signers : propose_signer_rotation(p, old, new)
  \/ \E i \in 1 .. Len(rotations) :
       \/ \E s \in Signers : approve_signer_rotation(s, i)
       \/ cancel_rotation(i)

ChangeNext ==
  \/ \E kind \in ChangeKinds : propose_signer_change(kind)
  \/ \E i \in 1 .. Len(changes) :
       execute_signer_change(i) \/ cancel_signer_change(i)

HandoverNext ==
  \E n \in Nominees :
    \/ \E e \in HandoverPeriods : transfer_admin(n, e)
    \/ accept_admin(n)
    \/ cancel_transfer_admin

(* The admin's direct calls, which bypass the timelock, and the clock.      *)
DirectNext ==
  /\ RegistryNext \/ Tick
  /\ UNCHANGED <<rotationVars, changeVars, handoverVars>>

GovernanceNext == RotationNext \/ ChangeNext \/ HandoverNext \/ DirectNext

GovernanceSpec == GovernanceInit /\ [][GovernanceNext]_governanceVars

(***************************************************************************)
(* Properties.                                                             *)
(***************************************************************************)
RotationRecord ==
  [old_signer : Signers, new_signer : Signers, approvals : SUBSET Signers,
   approval_weight : 0 .. MaxWeight, captured_old_weight : 0 .. MaxWeight,
   status : ProposalStatus]

ChangeRecord ==
  [kind : ChangeKinds, proposed_at : Nat, executable_at : Nat,
   status : ProposalStatus]

(* Every variable has its type. The bounds of the delay are part of it: no  *)
(* sequence of changes takes it out of them.                                *)
GovernanceTypeOK ==
  /\ RegistryTypeOK
  /\ rotations \in Seq(RotationRecord)
  /\ lastProposal \in [Signers -> Nat \cup {NoTime}]
  /\ changes \in Seq(ChangeRecord)
  /\ timelockDelay \in MinTimelockDelay .. MaxTimelockDelay
  /\ admin \in Nominees \cup {Admin}
  /\ pendingAdmin \subseteq [new_admin : Nominees, expires_at : Nat]
  /\ Cardinality(pendingAdmin) <= 1

(* SignerList is what remove_signer and update_threshold sum over and what  *)
(* emergency_withdraw asks for signatures. A key with weight is on the      *)
(* list, or it is the new key of an executed rotation: rotations are the    *)
(* only way to hold weight off the list, whatever the direct calls and the  *)
(* timelocked changes do between them.                                      *)
UnlistedComesFromRotation ==
  \A s \in Signers :
    \/ signerWeight[s] = 0
    \/ s \in signerList
    \/ \E i \in 1 .. Len(rotations) :
         rotations[i].status = "Executed" /\ rotations[i].new_signer = s

(* A timelocked change takes effect no sooner than the shortest delay the   *)
(* contract allows after it was queued, also when the delay itself was      *)
(* changed, repeatedly, through the same queue.                             *)
ChangesWaited ==
  [][\A i \in 1 .. Len(changes) :
       changes[i].status # "Executed" /\ changes'[i].status = "Executed"
         => now >= changes[i].proposed_at + MinTimelockDelay]_governanceVars

Decisions ==
  {<<"rotation", i>> : i \in {j \in 1 .. Len(rotations) : rotations[j].status = "Executed"}}
    \cup {<<"change", i>> : i \in {j \in 1 .. Len(changes) : changes[j].status = "Executed"}}

(* A proposal takes effect once. What is decided stays as it was decided,   *)
(* and a step that changes the registry or the delay without being one of   *)
(* the admin's direct calls executes exactly one proposal that was pending: *)
(* approving or executing again, in whatever order, moves no weight twice.  *)
ProposalsApplyOnce ==
  [][/\ \A i \in 1 .. Len(rotations) :
          rotations[i].status # "Pending" => rotations'[i] = rotations[i]
     /\ \A i \in 1 .. Len(changes) :
          changes[i].status # "Pending" => changes'[i] = changes[i]
     /\ <<registryVars, timelockDelay>>' # <<registryVars, timelockDelay>>
          => \/ RegistryNext
             \/ Cardinality(Decisions' \ Decisions) = 1]_governanceVars
=============================================================================
