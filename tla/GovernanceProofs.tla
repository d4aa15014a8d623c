-------------------------- MODULE GovernanceProofs --------------------------
(***************************************************************************)
(* Proofs about signer governance, for any number of signers, rotations    *)
(* and queued changes and any length of the timelock. First what one call  *)
(* does to the two proposal tables (the lemmas named Form), then the types *)
(* and the properties that are read off from them.                         *)
(***************************************************************************)
EXTENDS Governance, SequenceTheorems, FiniteSetTheorems, TLAPS

(***************************************************************************)
(* Types.                                                                  *)
(***************************************************************************)

(* initialize leaves the registry of its type.                              *)
LEMMA RegistryInitType == RegistryInit => RegistryTypeOK
<1> SUFFICES ASSUME RegistryInit PROVE RegistryTypeOK
  OBVIOUS
<1>1. PICK named \in SUBSET Signers, w \in [Signers -> Weights \cup {0}] :
        /\ signerWeight = [s \in Signers |->
             IF s \in named THEN w[s] ELSE IF s = Admin THEN 1 ELSE 0]
        /\ \E extra \in SUBSET {s \in named : w[s] = 0} :
             signerList = {Admin} \cup {s \in named : w[s] > 0} \cup extra
  BY DEF RegistryInit
<1>2. \A s \in Signers : w[s] \in 0 .. MaxWeight
  <2>1. MaxWeight \in Nat /\ \A x \in Weights : x \in 0 .. MaxWeight
    BY RegistryAssumption
  <2> QED BY <2>1
<1>3. signerWeight \in [Signers -> 0 .. MaxWeight]
  BY <1>1, <1>2, RegistryAssumption
<1>4. signerList \subseteq Signers
  BY <1>1, RegistryAssumption
<1>5. threshold \in 1 .. MaxWeight /\ now \in Nat
  BY RegistryAssumption DEF RegistryInit
<1> QED BY <1>3, <1>4, <1>5 DEF RegistryTypeOK

(* The admin's direct calls and the clock keep the registry typed.          *)
LEMMA DirectCallType ==
  ASSUME RegistryTypeOK, RegistryNext \/ Tick
  PROVE  RegistryTypeOK'
<1>1. ASSUME NEW s \in Signers, NEW w \in Weights, set_signer(s, w)
      PROVE  RegistryTypeOK'
  <2>1. w \in 0 .. MaxWeight
    BY RegistryAssumption
  <2> QED BY <1>1, <2>1 DEF set_signer, RegistryTypeOK
<1>2. ASSUME NEW s \in Signers, remove_signer(s)
      PROVE  RegistryTypeOK'
  <2>1. 0 \in 0 .. MaxWeight
    BY RegistryAssumption
  <2>2. /\ signerWeight' = [signerWeight EXCEPT ![s] = 0]
        /\ signerList' = signerList \ {s}
        /\ UNCHANGED <<threshold, now>>
    BY <1>2 DEF remove_signer
  <2> QED BY <2>1, <2>2 DEF RegistryTypeOK
<1>3. ASSUME NEW t \in Thresholds, update_threshold(t)
      PROVE  RegistryTypeOK'
  <2>1. t \in 1 .. MaxWeight
    BY RegistryAssumption
  <2>2. threshold' = t /\ UNCHANGED <<signerWeight, signerList, now>>
    BY <1>3 DEF update_threshold
  <2> QED BY <2>1, <2>2 DEF RegistryTypeOK
<1>4. CASE Tick
  BY <1>4 DEF Tick, registryVars, RegistryTypeOK
<1> QED BY <1>1, <1>2, <1>3, <1>4 DEF RegistryNext

(* What a call can do to the rotation table: a new pending entry at the     *)
(* end, a decision about one pending entry, or nothing.                     *)
RotationTableForm ==
  \/ \E r \in RotationRecord :
       r.status = "Pending" /\ rotations' = Append(rotations, r)
  \/ \E i \in 1 .. Len(rotations), r \in RotationRecord :
       /\ rotations[i].status = "Pending"
       /\ r.new_signer = rotations[i].new_signer
       /\ rotations' = [rotations EXCEPT ![i] = r]
  \/ rotations' = rotations

(* The same of the table of queued changes; a change keeps its timestamps   *)
(* and is executed only once it is due.                                     *)
ChangeTableForm ==
  \/ \E c \in ChangeRecord :
       /\ c.status = "Pending"
       /\ c.executable_at = c.proposed_at + timelockDelay
       /\ changes' = Append(changes, c)
  \/ \E i \in 1 .. Len(changes), c \in ChangeRecord :
       /\ changes[i].status = "Pending"
       /\ c.proposed_at = changes[i].proposed_at
       /\ c.executable_at = changes[i].executable_at
       /\ c.status = "Executed" => now >= changes[i].executable_at
       /\ changes' = [changes EXCEPT ![i] = c]
  \/ changes' = changes

(* A list with one more element at its end.                                 *)
LEMMA AppendSeq ==
  ASSUME NEW S, NEW seq \in Seq(S), NEW x \in S
  PROVE  /\ Append(seq, x) \in Seq(S)
         /\ Len(Append(seq, x)) = Len(seq) + 1
         /\ \A i \in 1 .. Len(seq) : Append(seq, x)[i] = seq[i]
         /\ Append(seq, x)[Len(seq) + 1] = x
BY AppendProperties

(* Both tables stay sequences of records, and grow at the end only: an      *)
(* entry that is not pending stays what it is.                              *)
LEMMA RotationTableType ==
  ASSUME rotations \in Seq(RotationRecord), RotationTableForm
  PROVE  /\ rotations' \in Seq(RotationRecord)
         /\ Len(rotations) <= Len(rotations')
         /\ \A i \in 1 .. Len(rotations) :
              /\ rotations'[i].new_signer = rotations[i].new_signer
              /\ rotations[i].status # "Pending" => rotations'[i] = rotations[i]
<1>0. Len(rotations) \in Nat
  BY LenProperties
<1>1. ASSUME NEW r \in RotationRecord, rotations' = Append(rotations, r)
      PROVE  /\ rotations' \in Seq(RotationRecord)
             /\ Len(rotations') = Len(rotations) + 1
             /\ \A i \in 1 .. Len(rotations) : rotations'[i] = rotations[i]
  <2>1. /\ Append(rotations, r) \in Seq(RotationRecord)
        /\ Len(Append(rotations, r)) = Len(rotations) + 1
        /\ \A i \in 1 .. Len(rotations) : Append(rotations, r)[i] = rotations[i]
    BY AppendSeq
  <2> QED BY <1>1, <2>1
<1>2. ASSUME NEW i \in 1 .. Len(rotations), NEW r \in RotationRecord,
             rotations' = [rotations EXCEPT ![i] = r]
      PROVE  /\ rotations' \in Seq(RotationRecord)
             /\ Len(rotations') = Len(rotations)
             /\ \A j \in 1 .. Len(rotations) :
                  rotations'[j] = IF j = i THEN r ELSE rotations[j]
  BY <1>2, ExceptSeq
<1> QED BY <1>0, <1>1, <1>2 DEF RotationTableForm

(* The same of the queued changes, with their timestamps; one that becomes  *)
(* executed was due.                                                        *)
LEMMA ChangeTableType ==
  ASSUME changes \in Seq(ChangeRecord), ChangeTableForm
  PROVE  /\ changes' \in Seq(ChangeRecord)
         /\ Len(changes) <= Len(changes')
         /\ \A i \in 1 .. Len(changes) :
              /\ changes[i].status # "Pending" => changes'[i] = changes[i]
              /\ changes'[i].proposed_at = changes[i].proposed_at
              /\ changes'[i].executable_at = changes[i].executable_at
              /\ changes[i].status # "Executed" /\ changes'[i].status = "Executed"
                   => now >= changes[i].executable_at
         /\ \A i \in 1 .. Len(changes') :
              i \in 1 .. Len(changes) \/
                changes'[i].executable_at = changes'[i].proposed_at + timelockDelay
<1>0. Len(changes) \in Nat
  BY LenProperties
<1>1. ASSUME NEW c \in ChangeRecord, changes' = Append(changes, c)
      PROVE  /\ changes' \in Seq(ChangeRecord)
             /\ Len(changes') = Len(changes) + 1
             /\ \A i \in 1 .. Len(changes) : changes'[i] = changes[i]
             /\ changes'[Len(changes) + 1] = c
  <2>1. /\ Append(changes, c) \in Seq(ChangeRecord)
        /\ Len(Append(changes, c)) = Len(changes) + 1
        /\ \A i \in 1 .. Len(changes) : Append(changes, c)[i] = changes[i]
        /\ Append(changes, c)[Len(changes) + 1] = c
    BY AppendSeq
  <2> QED BY <1>1, <2>1
<1>2. ASSUME NEW i \in 1 .. Len(changes), NEW c \in ChangeRecord,
             changes' = [changes EXCEPT ![i] = c]
      PROVE  /\ changes' \in Seq(ChangeRecord)
             /\ Len(changes') = Len(changes)
             /\ \A j \in 1 .. Len(changes) :
                  changes'[j] = IF j = i THEN c ELSE changes[j]
  BY <1>2, ExceptSeq
<1> QED BY <1>0, <1>1, <1>2 DEF ChangeTableForm

(* Types of everything but the two tables and the nomination.               *)
PlainTypeOK ==
  /\ RegistryTypeOK
  /\ lastProposal \in [Signers -> Nat \cup {NoTime}]
  /\ timelockDelay \in MinTimelockDelay .. MaxTimelockDelay

(* record_approval panics before a weight leaves u32.                       *)
LEMMA CountedWeightType ==
  ASSUME RegistryTypeOK, NEW approvals, NEW w \in 0 .. MaxWeight, NEW s \in Signers,
         record_approval(approvals, w, s)
  PROVE  counted_weight(approvals, w, s) \in 0 .. MaxWeight
BY RegistryAssumption DEF RegistryTypeOK, record_approval, counted_weight, signer_weight

(* Proposing a rotation appends a pending record.                           *)
LEMMA ProposeRotationForm ==
  ASSUME GovernanceTypeOK, NEW p \in Signers, NEW old \in Signers, NEW new \in Signers,
         propose_signer_rotation(p, old, new)
  PROVE  PlainTypeOK' /\ RotationTableForm
<1> DEFINE r == [old_signer |-> old, new_signer |-> new, approvals |-> {p},
                 approval_weight |-> counted_weight({}, 0, p),
                 captured_old_weight |-> signer_weight(old), status |-> "Pending"]
<1>0. RegistryTypeOK
  BY DEF GovernanceTypeOK
<1>1. counted_weight({}, 0, p) \in 0 .. MaxWeight
  <2>1. 0 \in 0 .. MaxWeight
    BY RegistryAssumption
  <2> QED BY <1>0, <2>1, CountedWeightType DEF propose_signer_rotation
<1>2. signer_weight(old) \in 0 .. MaxWeight
  BY <1>0 DEF signer_weight, RegistryTypeOK
<1>3. r \in RotationRecord /\ r.status = "Pending"
  BY <1>1, <1>2 DEF RotationRecord, ProposalStatus
<1>4. rotations' = Append(rotations, r)
  BY DEF propose_signer_rotation
<1>5. RotationTableForm
  <2> HIDE DEF r
  <2> QED BY <1>3, <1>4 DEF RotationTableForm
<1>6. PlainTypeOK'
  BY <1>0 DEF GovernanceTypeOK, propose_signer_rotation, PlainTypeOK, RegistryTypeOK,
     registryVars, changeVars
<1> QED BY <1>5, <1>6

(* Approving a rotation rewrites its pending record; the weights move only  *)
(* when that executes it.                                                   *)
LEMMA ApproveRotationForm ==
  ASSUME GovernanceTypeOK, NEW s \in Signers, NEW i \in 1 .. Len(rotations),
         approve_signer_rotation(s, i)
  PROVE  /\ PlainTypeOK'
         /\ \E r \in RotationRecord :
              /\ rotations[i].status = "Pending"
              /\ r.new_signer = rotations[i].new_signer
              /\ rotations' = [rotations EXCEPT ![i] = r]
              /\ \/ signerWeight' = signerWeight
                 \/ r.status = "Executed" /\ signerWeight' = Rotated(rotations[i])
<1> DEFINE old == rotations[i]
           weight == counted_weight(old.approvals, old.approval_weight, s)
           r == [old EXCEPT !.approvals = @ \cup {s}, !.approval_weight = weight,
                   !.status = IF meets_threshold(weight) THEN "Executed" ELSE "Pending"]
<1>0. RegistryTypeOK /\ old \in RotationRecord
  BY ElementOfSeq DEF GovernanceTypeOK
<1>1. weight \in 0 .. MaxWeight
  <2>1. old.approval_weight \in 0 .. MaxWeight
    BY <1>0 DEF RotationRecord
  <2> QED BY <1>0, <2>1, CountedWeightType DEF approve_signer_rotation
<1>2. /\ rotations[i].status = "Pending"
      /\ signerWeight' = IF meets_threshold(weight) THEN Rotated(old) ELSE signerWeight
  BY DEF approve_signer_rotation
<1>3. rotations' = [rotations EXCEPT ![i] = r]
  BY DEF approve_signer_rotation
<1>4. r \in RotationRecord /\ r.new_signer = old.new_signer
  <2> HIDE DEF weight
  <2> QED BY <1>0, <1>1 DEF RotationRecord, ProposalStatus
<1>5. meets_threshold(weight) => r.status = "Executed"
  <2> HIDE DEF weight
  <2> QED BY <1>0 DEF RotationRecord
<1>6. Rotated(old) \in [Signers -> 0 .. MaxWeight]
  BY <1>0, RegistryAssumption DEF Rotated, RotationRecord, RegistryTypeOK
<1>7. PlainTypeOK'
  <2>1. UNCHANGED <<signerList, threshold, lastProposal, timelockDelay, now>>
    BY DEF approve_signer_rotation, changeVars
  <2>2. signerWeight' \in [Signers -> 0 .. MaxWeight]
    <3> HIDE DEF weight, old
    <3> QED BY <1>0, <1>2, <1>6 DEF RegistryTypeOK
  <2> QED BY <2>1, <2>2 DEF GovernanceTypeOK, PlainTypeOK, RegistryTypeOK
<1> HIDE DEF r, weight
<1> QED BY <1>2, <1>3, <1>4, <1>5, <1>7

(* Cancelling a rotation rewrites its pending record and nothing else.      *)
LEMMA CancelRotationForm ==
  ASSUME GovernanceTypeOK, NEW i \in 1 .. Len(rotations), cancel_rotation(i)
  PROVE  PlainTypeOK' /\ RotationTableForm
<1> DEFINE r == [rotations[i] EXCEPT !.status = "Cancelled"]
<1>0. rotations[i] \in RotationRecord
  BY ElementOfSeq DEF GovernanceTypeOK
<1>1. r \in RotationRecord /\ r.new_signer = rotations[i].new_signer
  BY <1>0 DEF RotationRecord, ProposalStatus
<1>2. rotations[i].status = "Pending" /\ rotations' = [rotations EXCEPT ![i] = r]
  BY DEF cancel_rotation
<1>3. RotationTableForm
  <2> HIDE DEF r
  <2> QED BY <1>1, <1>2 DEF RotationTableForm
<1>4. PlainTypeOK'
  BY DEF GovernanceTypeOK, cancel_rotation, PlainTypeOK, RegistryTypeOK, registryVars, changeVars
<1> QED BY <1>3, <1>4

(* Queueing a change appends a pending record that is due a delay from now. *)
LEMMA ProposeChangeForm ==
  ASSUME GovernanceTypeOK, NEW kind \in ChangeKinds, propose_signer_change(kind)
  PROVE  PlainTypeOK' /\ ChangeTableForm
<1> DEFINE c == [kind |-> kind, proposed_at |-> now,
                 executable_at |-> now + timelockDelay, status |-> "Pending"]
<1>1. now \in Nat /\ timelockDelay \in Nat
  BY GovernanceAssumption DEF GovernanceTypeOK, RegistryTypeOK
<1>2. /\ c \in ChangeRecord /\ c.status = "Pending"
      /\ c.executable_at = c.proposed_at + timelockDelay
  BY <1>1 DEF ChangeRecord, ProposalStatus
<1>3. changes' = Append(changes, c)
  BY DEF propose_signer_change
<1>4. ChangeTableForm
  <2> HIDE DEF c
  <2> QED BY <1>2, <1>3 DEF ChangeTableForm
<1>5. PlainTypeOK'
  BY DEF GovernanceTypeOK, propose_signer_change, PlainTypeOK, RegistryTypeOK,
     registryVars, rotationVars
<1> QED BY <1>4, <1>5

(* What executing a change writes is of its type: an invalid weight,        *)
(* threshold or delay never gets in through the queue.                      *)
LEMMA ApplyChangeType ==
  ASSUME GovernanceTypeOK, NEW kind \in ChangeKinds, apply_change(kind)
  PROVE  /\ signerWeight' \in [Signers -> 0 .. MaxWeight]
         /\ signerList' \subseteq Signers
         /\ threshold' \in 1 .. MaxWeight
         /\ timelockDelay' \in MinTimelockDelay .. MaxTimelockDelay
<1>0. /\ signerWeight \in [Signers -> 0 .. MaxWeight] /\ signerList \subseteq Signers
      /\ threshold \in 1 .. MaxWeight
      /\ timelockDelay \in MinTimelockDelay .. MaxTimelockDelay
  BY DEF GovernanceTypeOK, RegistryTypeOK
<1>1. CASE kind.op = "SetSigner"
  <2>1. kind.signer \in Signers /\ kind.weight \in 0 .. MaxWeight
    BY <1>1, GovernanceAssumption DEF ChangeKinds
  <2> QED BY <1>0, <1>1, <2>1 DEF apply_change
<1>2. CASE kind.op = "RemoveSigner"
  BY <1>0, <1>2, RegistryAssumption DEF apply_change, apply_remove_signer
<1>3. CASE kind.op = "UpdateThreshold"
  <2>1. kind.threshold \in 0 .. MaxWeight
    BY <1>3, GovernanceAssumption DEF ChangeKinds
  <2>2. /\ kind.threshold # 0 /\ threshold' = kind.threshold
        /\ UNCHANGED <<signerWeight, signerList, timelockDelay>>
    BY <1>3 DEF apply_change
  <2> QED BY <1>0, <2>1, <2>2, RegistryAssumption
<1>4. CASE kind.op = "UpdateTimelockDelay"
  BY <1>0, <1>4 DEF apply_change, valid_delay, registryVars
<1> QED BY <1>1, <1>2, <1>3, <1>4 DEF ChangeKinds

(* Executing or cancelling a change rewrites its pending record.            *)
LEMMA DecideChangeForm ==
  ASSUME GovernanceTypeOK, NEW i \in 1 .. Len(changes),
         execute_signer_change(i) \/ cancel_signer_change(i)
  PROVE  PlainTypeOK' /\ ChangeTableForm
<1>0. changes[i] \in ChangeRecord
  BY ElementOfSeq DEF GovernanceTypeOK
<1>1. CASE execute_signer_change(i)
  <2> DEFINE c == [changes[i] EXCEPT !.status = "Executed"]
  <2>1. /\ c \in ChangeRecord /\ c.proposed_at = changes[i].proposed_at
        /\ c.executable_at = changes[i].executable_at
    BY <1>0 DEF ChangeRecord, ProposalStatus
  <2>2. /\ changes[i].status = "Pending" /\ now >= changes[i].executable_at
        /\ changes' = [changes EXCEPT ![i] = c]
    BY <1>1 DEF execute_signer_change
  <2>3. ChangeTableForm
    <3> HIDE DEF c
    <3> QED BY <2>1, <2>2 DEF ChangeTableForm
  <2>4. apply_change(changes[i].kind) /\ UNCHANGED <<rotationVars, handoverVars, now>>
    BY <1>1 DEF execute_signer_change
  <2>5. changes[i].kind \in ChangeKinds
    BY <1>0 DEF ChangeRecord
  <2>6. PlainTypeOK'
    BY <2>4, <2>5, ApplyChangeType DEF PlainTypeOK, RegistryTypeOK, GovernanceTypeOK,
       rotationVars
  <2> QED BY <2>3, <2>6
<1>2. CASE cancel_signer_change(i)
  <2> DEFINE c == [changes[i] EXCEPT !.status = "Cancelled"]
  <2>1. /\ c \in ChangeRecord /\ c.proposed_at = changes[i].proposed_at
        /\ c.executable_at = changes[i].executable_at /\ c.status # "Executed"
    BY <1>0 DEF ChangeRecord, ProposalStatus
  <2>2. changes[i].status = "Pending" /\ changes' = [changes EXCEPT ![i] = c]
    BY <1>2 DEF cancel_signer_change
  <2>3. ChangeTableForm
    <3> HIDE DEF c
    <3> QED BY <2>1, <2>2 DEF ChangeTableForm
  <2>4. PlainTypeOK'
    BY <1>2 DEF cancel_signer_change, PlainTypeOK, RegistryTypeOK, GovernanceTypeOK,
       registryVars, rotationVars
  <2> QED BY <2>3, <2>4
<1> QED BY <1>1, <1>2

(* At most one nomination is pending, through the whole hand-over.          *)
NominationTypeOK ==
  /\ admin \in Nominees \cup {Admin}
  /\ pendingAdmin \subseteq [new_admin : Nominees, expires_at : Nat]
  /\ Cardinality(pendingAdmin) <= 1

(* Each call of the hand-over keeps it typed and touches nothing else.      *)
LEMMA HandoverStepType ==
  ASSUME GovernanceTypeOK, HandoverNext
  PROVE  NominationTypeOK' /\ UNCHANGED <<registryVars, rotationVars, changeVars, now>>
<1>0. /\ now \in Nat /\ admin \in Nominees \cup {Admin}
  BY DEF GovernanceTypeOK, RegistryTypeOK
<1>1. ASSUME NEW n \in Nominees, NEW e \in HandoverPeriods, transfer_admin(n, e)
      PROVE  NominationTypeOK' /\ UNCHANGED <<registryVars, rotationVars, changeVars, now>>
  <2> DEFINE p == [new_admin |-> n, expires_at |-> now + e]
  <2>1. p \in [new_admin : Nominees, expires_at : Nat]
    BY <1>0, GovernanceAssumption
  <2>2. pendingAdmin' = {p} /\ UNCHANGED <<registryVars, rotationVars, changeVars, admin, now>>
    BY <1>1 DEF transfer_admin
  <2> HIDE DEF p
  <2>3. Cardinality({p}) = 1
    BY FS_Singleton
  <2> QED BY <1>0, <2>1, <2>2, <2>3 DEF NominationTypeOK
<1>2. ASSUME NEW n \in Nominees, accept_admin(n) \/ cancel_transfer_admin
      PROVE  NominationTypeOK' /\ UNCHANGED <<registryVars, rotationVars, changeVars, now>>
  <2>1. /\ pendingAdmin' = {} /\ admin' \in Nominees \cup {Admin}
        /\ UNCHANGED <<registryVars, rotationVars, changeVars, now>>
    BY <1>0, <1>2 DEF accept_admin, cancel_transfer_admin
  <2>2. Cardinality({}) = 0
    BY FS_EmptySet
  <2> QED BY <2>1, <2>2 DEF NominationTypeOK
<1> QED BY <1>1, <1>2 DEF HandoverNext

(* What any call does: the tables take one of their forms, and what is      *)
(* outside the tables keeps its type.                                       *)
LEMMA StepForm ==
  ASSUME GovernanceTypeOK, GovernanceNext
  PROVE  RotationTableForm /\ ChangeTableForm /\ PlainTypeOK' /\ NominationTypeOK'
<1>1. CASE RotationNext
  <2>1. UNCHANGED <<changes, handoverVars>>
    BY <1>1 DEF RotationNext, propose_signer_rotation, approve_signer_rotation,
       cancel_rotation, changeVars
  <2>2. RotationTableForm /\ PlainTypeOK'
    BY <1>1, ProposeRotationForm, ApproveRotationForm, CancelRotationForm
       DEF RotationNext, RotationTableForm
  <2> QED BY <2>1, <2>2 DEF ChangeTableForm, NominationTypeOK, GovernanceTypeOK, handoverVars
<1>2. CASE ChangeNext
  <2>1. UNCHANGED <<rotations, handoverVars>>
    BY <1>2 DEF ChangeNext, propose_signer_change, execute_signer_change,
       cancel_signer_change, rotationVars
  <2>2. ChangeTableForm /\ PlainTypeOK'
    BY <1>2, ProposeChangeForm, DecideChangeForm DEF ChangeNext
  <2> QED BY <2>1, <2>2 DEF RotationTableForm, NominationTypeOK, GovernanceTypeOK, handoverVars
<1>3. CASE HandoverNext
  <2>1. NominationTypeOK' /\ UNCHANGED <<registryVars, rotationVars, changeVars, now>>
    BY <1>3, HandoverStepType
  <2> QED BY <2>1 DEF RotationTableForm, ChangeTableForm, PlainTypeOK, RegistryTypeOK,
             GovernanceTypeOK, registryVars, rotationVars, changeVars
<1>4. CASE DirectNext
  <2>1. RegistryTypeOK' /\ UNCHANGED <<rotationVars, changeVars, handoverVars>>
    BY <1>4, DirectCallType DEF DirectNext, GovernanceTypeOK
  <2> QED BY <2>1 DEF RotationTableForm, ChangeTableForm, PlainTypeOK, NominationTypeOK,
             GovernanceTypeOK, rotationVars, changeVars, handoverVars
<1> QED BY <1>1, <1>2, <1>3, <1>4 DEF GovernanceNext

(* Every reachable governance state is typed: whatever is queued, approved  *)
(* or handed over, weights and thresholds stay u32 values, the threshold is *)
(* never 0, the delay stays within its bounds and at most one nomination is *)
(* pending.                                                                 *)
THEOREM GovernanceTypeCorrect == GovernanceSpec => []GovernanceTypeOK
<1>1. GovernanceInit => GovernanceTypeOK
  <2> SUFFICES ASSUME GovernanceInit PROVE GovernanceTypeOK
    OBVIOUS
  <2>1. RegistryTypeOK
    BY RegistryInitType DEF GovernanceInit
  <2>2. rotations \in Seq(RotationRecord) /\ changes \in Seq(ChangeRecord)
    BY EmptySeq DEF GovernanceInit
  <2>3. Cardinality(pendingAdmin) = 0
    BY FS_EmptySet DEF GovernanceInit
  <2> QED BY <2>1, <2>2, <2>3, GovernanceAssumption DEF GovernanceInit, GovernanceTypeOK
<1>2. GovernanceTypeOK /\ [GovernanceNext]_governanceVars => GovernanceTypeOK'
  <2> SUFFICES ASSUME GovernanceTypeOK, [GovernanceNext]_governanceVars
               PROVE  GovernanceTypeOK'
    OBVIOUS
  <2>1. CASE GovernanceNext
    <3>1. RotationTableForm /\ ChangeTableForm /\ PlainTypeOK' /\ NominationTypeOK'
      BY <2>1, StepForm
    <3>2. rotations \in Seq(RotationRecord) /\ changes \in Seq(ChangeRecord)
      BY DEF GovernanceTypeOK
    <3>3. rotations' \in Seq(RotationRecord) /\ changes' \in Seq(ChangeRecord)
      BY <3>1, <3>2, RotationTableType, ChangeTableType
    <3> QED BY <3>1, <3>3 DEF GovernanceTypeOK, PlainTypeOK, NominationTypeOK
  <2>2. CASE UNCHANGED governanceVars
    BY <2>2 DEF governanceVars, registryVars, rotationVars, changeVars, handoverVars,
       GovernanceTypeOK, RegistryTypeOK
  <2> QED BY <2>1, <2>2
<1> QED BY <1>1, <1>2, PTL DEF GovernanceSpec

(***************************************************************************)
(* Weight off the list.                                                    *)
(***************************************************************************)

(* An executed rotation stays in the table with its new key.                *)
LEMMA ExecutedStays ==
  ASSUME GovernanceTypeOK, GovernanceNext, NEW s,
         \E i \in 1 .. Len(rotations) :
           rotations[i].status = "Executed" /\ rotations[i].new_signer = s
  PROVE  \E i \in 1 .. Len(rotations') :
           rotations'[i].status = "Executed" /\ rotations'[i].new_signer = s
<1>1. rotations \in Seq(RotationRecord) /\ RotationTableForm
  BY StepForm DEF GovernanceTypeOK
<1>2. rotations' \in Seq(RotationRecord)
  BY <1>1, RotationTableType
<1>3. Len(rotations) \in Nat /\ Len(rotations') \in Nat
  BY <1>1, <1>2, LenProperties
<1>4. /\ Len(rotations) <= Len(rotations')
      /\ \A i \in 1 .. Len(rotations) :
           /\ rotations'[i].new_signer = rotations[i].new_signer
           /\ rotations[i].status # "Pending" => rotations'[i] = rotations[i]
  BY <1>1, RotationTableType
<1> QED BY <1>3, <1>4

(* A key that a call leaves with weight off the list had it before, or the  *)
(* call executed a rotation to it.                                          *)
LEMMA WeightOffList ==
  ASSUME GovernanceTypeOK, GovernanceNext, NEW s \in Signers,
         signerWeight'[s] # 0, s \notin signerList'
  PROVE  \/ signerWeight[s] # 0 /\ s \notin signerList
         \/ \E i \in 1 .. Len(rotations') :
              rotations'[i].status = "Executed" /\ rotations'[i].new_signer = s
<1>0. signerWeight \in [Signers -> 0 .. MaxWeight] /\ signerList \subseteq Signers
  BY DEF GovernanceTypeOK, RegistryTypeOK
<1>1. ASSUME NEW p \in Signers, NEW i \in 1 .. Len(rotations), approve_signer_rotation(p, i)
      PROVE  \/ signerWeight[s] # 0 /\ s \notin signerList
             \/ \E j \in 1 .. Len(rotations') :
                  rotations'[j].status = "Executed" /\ rotations'[j].new_signer = s
  <2>1. PICK r \in RotationRecord :
          /\ r.new_signer = rotations[i].new_signer
          /\ rotations' = [rotations EXCEPT ![i] = r]
          /\ \/ signerWeight' = signerWeight
             \/ r.status = "Executed" /\ signerWeight' = Rotated(rotations[i])
    BY <1>1, ApproveRotationForm
  <2>2. signerList' = signerList
    BY <1>1 DEF approve_signer_rotation
  <2>3. CASE signerWeight' = signerWeight
    BY <2>2, <2>3
  <2>4. CASE r.status = "Executed" /\ signerWeight' = Rotated(rotations[i])
    <3>1. rotations[i] \in RotationRecord /\ rotations \in Seq(RotationRecord)
      BY ElementOfSeq DEF GovernanceTypeOK
    <3>2. s = rotations[i].new_signer \/ signerWeight'[s] \in {0, signerWeight[s]}
      BY <1>0, <2>4, <3>1 DEF Rotated, RotationRecord
    <3>3. Len(rotations') = Len(rotations) /\ rotations'[i] = r
      BY <2>1, <3>1, ExceptSeq
    <3> QED BY <2>1, <2>2, <2>4, <3>2, <3>3
  <2> QED BY <2>1, <2>3, <2>4
<1>2. ASSUME NEW i \in 1 .. Len(changes), execute_signer_change(i)
      PROVE  signerWeight[s] # 0 /\ s \notin signerList
  <2>0. changes[i] \in ChangeRecord
    BY ElementOfSeq DEF GovernanceTypeOK
  <2>1. changes[i].kind \in ChangeKinds
    BY <2>0 DEF ChangeRecord
  <2> DEFINE kind == changes[i].kind
  <2>2. apply_change(kind)
    BY <1>2 DEF execute_signer_change
  <2>3. CASE kind.op = "SetSigner"
    <3>1. kind.signer \in Signers /\ kind.weight \in 0 .. MaxWeight
      BY <2>1, <2>3, GovernanceAssumption DEF ChangeKinds
    <3>2. /\ signerWeight' = [signerWeight EXCEPT ![kind.signer] = kind.weight]
          /\ signerList' = IF kind.weight > 0 THEN signerList \cup {kind.signer}
                                              ELSE signerList \ {kind.signer}
      BY <2>2, <2>3 DEF apply_change
    <3> HIDE DEF kind
    <3> QED BY <1>0, <3>1, <3>2
  <2>4. CASE kind.op = "RemoveSigner"
    <3>1. kind.signer \in Signers
      BY <2>1, <2>4 DEF ChangeKinds
    <3>2. /\ signerWeight' = [signerWeight EXCEPT ![kind.signer] = 0]
          /\ signerList' = signerList \ {kind.signer}
      BY <2>2, <2>4 DEF apply_change, apply_remove_signer
    <3> HIDE DEF kind
    <3> QED BY <1>0, <3>1, <3>2
  <2>5. CASE kind.op \in {"UpdateThreshold", "UpdateTimelockDelay"}
    BY <2>2, <2>5 DEF apply_change, registryVars
  <2> QED BY <2>1, <2>3, <2>4, <2>5 DEF ChangeKinds
<1>3. CASE DirectNext
  <2>1. ASSUME NEW x \in Signers, NEW w \in Weights, set_signer(x, w)
        PROVE  signerWeight[s] # 0 /\ s \notin signerList
    BY <1>0, <2>1 DEF set_signer
  <2>2. ASSUME NEW x \in Signers, remove_signer(x)
        PROVE  signerWeight[s] # 0 /\ s \notin signerList
    <3>1. signerWeight' = [signerWeight EXCEPT ![x] = 0] /\ signerList' = signerList \ {x}
      BY <2>2 DEF remove_signer
    <3> QED BY <1>0, <3>1
  <2>3. ASSUME NEW t \in Thresholds, update_threshold(t)
        PROVE  signerWeight[s] # 0 /\ s \notin signerList
    BY <2>3 DEF update_threshold
  <2>4. CASE Tick
    BY <2>4 DEF Tick, registryVars
  <2> QED BY <1>3, <2>1, <2>2, <2>3, <2>4 DEF DirectNext, RegistryNext
<1>4. CASE UNCHANGED registryVars
  BY <1>4 DEF registryVars
<1> QED
  BY <1>1, <1>2, <1>3, <1>4, HandoverStepType DEF GovernanceNext, RotationNext, ChangeNext,
     propose_signer_rotation, cancel_rotation, propose_signer_change, cancel_signer_change

(* Rotation is the only way to hold weight off the signer list, for any     *)
(* number of keys, rotations and changes.                                   *)
THEOREM UnlistedWeightIsRotated == GovernanceSpec => []UnlistedComesFromRotation
<1>1. GovernanceInit => UnlistedComesFromRotation
  <2> SUFFICES ASSUME GovernanceInit PROVE UnlistedComesFromRotation
    OBVIOUS
  <2>1. PICK named \in SUBSET Signers, w \in [Signers -> Weights \cup {0}] :
          /\ signerWeight = [s \in Signers |->
               IF s \in named THEN w[s] ELSE IF s = Admin THEN 1 ELSE 0]
          /\ \E extra \in SUBSET {s \in named : w[s] = 0} :
               signerList = {Admin} \cup {s \in named : w[s] > 0} \cup extra
    BY DEF GovernanceInit, RegistryInit
  <2>2. \A s \in Signers : w[s] # 0 => w[s] > 0
    <3>1. \A x \in Weights : x > 0
      BY RegistryAssumption
    <3> QED BY <3>1
  <2> QED BY <2>1, <2>2 DEF UnlistedComesFromRotation
<1>2. UnlistedComesFromRotation /\ GovernanceTypeOK /\ [GovernanceNext]_governanceVars
        => UnlistedComesFromRotation'
  <2> SUFFICES ASSUME UnlistedComesFromRotation, GovernanceTypeOK,
                      [GovernanceNext]_governanceVars
               PROVE  UnlistedComesFromRotation'
    OBVIOUS
  <2>1. CASE GovernanceNext
    <3> SUFFICES ASSUME NEW s \in Signers, signerWeight'[s] # 0, s \notin signerList'
                 PROVE  \E i \in 1 .. Len(rotations') :
                          rotations'[i].status = "Executed" /\ rotations'[i].new_signer = s
      BY DEF UnlistedComesFromRotation
    <3>1. CASE signerWeight[s] # 0 /\ s \notin signerList
      BY <2>1, <3>1, ExecutedStays DEF UnlistedComesFromRotation
    <3> QED BY <2>1, <3>1, WeightOffList
  <2>2. CASE UNCHANGED governanceVars
    BY <2>2 DEF governanceVars, registryVars, rotationVars, UnlistedComesFromRotation
  <2> QED BY <2>1, <2>2
<1> QED BY <1>1, <1>2, GovernanceTypeCorrect, PTL DEF GovernanceSpec

(***************************************************************************)
(* The timelock.                                                           *)
(***************************************************************************)

(* Every queued change is due no sooner than the shortest delay after it    *)
(* was queued. The inductive part of ChangesWaited.                         *)
DueAfterDelay ==
  \A i \in 1 .. Len(changes) :
    changes[i].executable_at >= changes[i].proposed_at + MinTimelockDelay

(* The queue keeps its distance however often the delay itself is changed.  *)
LEMMA ChangesQueuedWithDelay == GovernanceSpec => []DueAfterDelay
<1>1. GovernanceInit => DueAfterDelay
  BY EmptySeq DEF GovernanceInit, DueAfterDelay
<1>2. DueAfterDelay /\ GovernanceTypeOK /\ [GovernanceNext]_governanceVars => DueAfterDelay'
  <2> SUFFICES ASSUME DueAfterDelay, GovernanceTypeOK, [GovernanceNext]_governanceVars
               PROVE  DueAfterDelay'
    OBVIOUS
  <2>1. CASE GovernanceNext
    <3>1. changes \in Seq(ChangeRecord) /\ ChangeTableForm
      BY <2>1, StepForm DEF GovernanceTypeOK
    <3>2. changes' \in Seq(ChangeRecord)
      BY <3>1, ChangeTableType
    <3> SUFFICES ASSUME NEW i \in 1 .. Len(changes')
                 PROVE  changes'[i].executable_at >= changes'[i].proposed_at + MinTimelockDelay
      BY DEF DueAfterDelay
    <3>3. changes'[i].proposed_at \in Nat /\ timelockDelay \in Nat
          /\ MinTimelockDelay \in Nat /\ timelockDelay >= MinTimelockDelay
      <4>1. changes'[i] \in ChangeRecord
        BY <3>2, ElementOfSeq
      <4>2. timelockDelay \in Nat /\ MinTimelockDelay \in Nat /\ timelockDelay >= MinTimelockDelay
        BY GovernanceAssumption DEF GovernanceTypeOK
      <4> QED BY <4>1, <4>2 DEF ChangeRecord
    <3>4. \/ /\ i \in 1 .. Len(changes)
             /\ changes'[i].proposed_at = changes[i].proposed_at
             /\ changes'[i].executable_at = changes[i].executable_at
          \/ changes'[i].executable_at = changes'[i].proposed_at + timelockDelay
      BY <3>1, ChangeTableType
    <3> QED BY <3>3, <3>4 DEF DueAfterDelay
  <2>2. CASE UNCHANGED governanceVars
    BY <2>2 DEF governanceVars, changeVars, DueAfterDelay
  <2> QED BY <2>1, <2>2
<1> QED BY <1>1, <1>2, GovernanceTypeCorrect, PTL DEF GovernanceSpec

(* No queued change takes effect before the shortest delay has passed.      *)
THEOREM QueuedChangesWait == GovernanceSpec => ChangesWaited
<1> DEFINE Waited ==
      \A i \in 1 .. Len(changes) :
        changes[i].status # "Executed" /\ changes'[i].status = "Executed"
          => now >= changes[i].proposed_at + MinTimelockDelay
<1>1. GovernanceTypeOK /\ DueAfterDelay /\ [GovernanceNext]_governanceVars
        => [Waited]_governanceVars
  <2> SUFFICES ASSUME GovernanceTypeOK, DueAfterDelay, GovernanceNext,
                      NEW i \in 1 .. Len(changes),
                      changes[i].status # "Executed", changes'[i].status = "Executed"
               PROVE  now >= changes[i].proposed_at + MinTimelockDelay
    OBVIOUS
  <2>1. changes \in Seq(ChangeRecord) /\ ChangeTableForm
    BY StepForm DEF GovernanceTypeOK
  <2>2. now >= changes[i].executable_at
    BY <2>1, ChangeTableType
  <2>3. changes[i].executable_at \in Nat /\ changes[i].proposed_at \in Nat
    <3>1. changes[i] \in ChangeRecord
      BY <2>1, ElementOfSeq
    <3> QED BY <3>1 DEF ChangeRecord
  <2>4. now \in Nat /\ MinTimelockDelay \in Nat
    BY GovernanceAssumption DEF GovernanceTypeOK, RegistryTypeOK
  <2> QED BY <2>2, <2>3, <2>4 DEF DueAfterDelay
<1> QED BY <1>1, GovernanceTypeCorrect, ChangesQueuedWithDelay, PTL
        DEF GovernanceSpec, ChangesWaited

(***************************************************************************)
(* Proposals apply once.                                                   *)
(***************************************************************************)

(* A decision about one pending rotation adds only that one to Decisions.   *)
LEMMA OneRotationDecided ==
  ASSUME GovernanceTypeOK, NEW i \in 1 .. Len(rotations), NEW r \in RotationRecord,
         rotations[i].status = "Pending", r.status = "Executed",
         rotations' = [rotations EXCEPT ![i] = r], changes' = changes
  PROVE  Cardinality(Decisions' \ Decisions) = 1
<1>1. rotations \in Seq(RotationRecord)
  BY DEF GovernanceTypeOK
<1>2. /\ Len(rotations') = Len(rotations)
      /\ \A j \in 1 .. Len(rotations) : rotations'[j] = IF j = i THEN r ELSE rotations[j]
  BY <1>1, ExceptSeq
<1>3. Decisions' \ Decisions = {<<"rotation", i>>}
  BY <1>2 DEF Decisions
<1> QED BY <1>3, FS_Singleton

(* A decision about one pending change adds only that one to Decisions.     *)
LEMMA OneChangeDecided ==
  ASSUME GovernanceTypeOK, NEW i \in 1 .. Len(changes), execute_signer_change(i)
  PROVE  Cardinality(Decisions' \ Decisions) = 1
<1> DEFINE c == [changes[i] EXCEPT !.status = "Executed"]
<1>1. changes \in Seq(ChangeRecord) /\ changes[i] \in ChangeRecord
  BY ElementOfSeq DEF GovernanceTypeOK
<1>2. c \in ChangeRecord /\ c.status = "Executed"
  BY <1>1 DEF ChangeRecord, ProposalStatus
<1>3. /\ changes[i].status = "Pending" /\ changes' = [changes EXCEPT ![i] = c]
      /\ rotations' = rotations
  BY DEF execute_signer_change, rotationVars
<1> HIDE DEF c
<1>4. /\ Len(changes') = Len(changes)
      /\ \A j \in 1 .. Len(changes) : changes'[j] = IF j = i THEN c ELSE changes[j]
  BY <1>1, <1>2, <1>3, ExceptSeq
<1>5. Decisions' \ Decisions = {<<"change", i>>}
  BY <1>2, <1>3, <1>4 DEF Decisions
<1> QED BY <1>5, FS_Singleton

(* A decided proposal stays decided, and a step outside the direct calls    *)
(* that changes the registry or the delay executes exactly one proposal.    *)
THEOREM ProposalsTakeEffectOnce == GovernanceSpec => ProposalsApplyOnce
<1> DEFINE Frozen ==
      /\ \A i \in 1 .. Len(rotations) :
           rotations[i].status # "Pending" => rotations'[i] = rotations[i]
      /\ \A i \in 1 .. Len(changes) :
           changes[i].status # "Pending" => changes'[i] = changes[i]
    Effect ==
      <<registryVars, timelockDelay>>' # <<registryVars, timelockDelay>>
        => \/ RegistryNext
           \/ Cardinality(Decisions' \ Decisions) = 1
<1>1. ASSUME GovernanceTypeOK, GovernanceNext PROVE Frozen
  <2>1. RotationTableForm /\ ChangeTableForm
    BY <1>1, StepForm
  <2>2. rotations \in Seq(RotationRecord) /\ changes \in Seq(ChangeRecord)
    BY <1>1 DEF GovernanceTypeOK
  <2> QED BY <2>1, <2>2, RotationTableType, ChangeTableType
<1>2. ASSUME GovernanceTypeOK, GovernanceNext PROVE Effect
  <2>1. ASSUME NEW s \in Signers, NEW i \in 1 .. Len(rotations), approve_signer_rotation(s, i)
        PROVE  Effect
    <3>1. PICK r \in RotationRecord :
            /\ rotations[i].status = "Pending"
            /\ rotations' = [rotations EXCEPT ![i] = r]
            /\ \/ signerWeight' = signerWeight
               \/ r.status = "Executed" /\ signerWeight' = Rotated(rotations[i])
      BY <1>2, <2>1, ApproveRotationForm
    <3>2. UNCHANGED <<signerList, threshold, changes, timelockDelay>>
      BY <2>1 DEF approve_signer_rotation, changeVars
    <3> QED BY <1>2, <3>1, <3>2, OneRotationDecided DEF registryVars
  <2>2. ASSUME NEW i \in 1 .. Len(changes), execute_signer_change(i) PROVE Effect
    BY <1>2, <2>2, OneChangeDecided
  <2>3. CASE UNCHANGED <<registryVars, timelockDelay>>
    BY <2>3
  <2>4. CASE DirectNext
    BY <2>4 DEF DirectNext, Tick, changeVars, registryVars
  <2> HIDE DEF Effect
  <2> QED
    BY <1>2, <2>1, <2>2, <2>3, <2>4, HandoverStepType DEF GovernanceNext, RotationNext,
       ChangeNext, propose_signer_rotation, cancel_rotation, propose_signer_change,
       cancel_signer_change, changeVars
<1>3. GovernanceTypeOK /\ [GovernanceNext]_governanceVars => [Frozen /\ Effect]_governanceVars
  <2> HIDE DEF Frozen, Effect
  <2> QED BY <1>1, <1>2
<1> QED BY <1>3, GovernanceTypeCorrect, PTL DEF GovernanceSpec, ProposalsApplyOnce
=============================================================================
