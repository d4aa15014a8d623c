------------------------- MODULE SettlementWorkflow -------------------------
(***************************************************************************)
(* The settlement workflow contract (contracts/settlement-workflow), which *)
(* executes treasury settlements behind a compliance check and coordinates *)
(* an emergency pause over several contracts, with the compliance client   *)
(* (crates/compliance-client) it asks through.                             *)
(*                                                                         *)
(* The contracts it calls are environment here: which settlements the      *)
(* treasury would execute, which merchants compliance allows, and which    *)
(* targets are paused change by calls that do not pass through the         *)
(* workflow. A call of the workflow is one atomic step, the calls it makes *)
(* included: an error of its own undoes what the contracts it called did.  *)
(* Events, which only observers read, are left out.                        *)
(***************************************************************************)
EXTENDS Integers, Sequences, FiniteSets, SequencesExt

CONSTANTS
  Callers,            \* the keys that call the workflow
  Deployer,           \* the admin given to the constructor
  Merchants,
  SettlementIds,      \* the ids of the treasury's settlements
  MerchantOf,         \* the merchant each settlement pays
  AmountOf,           \* and how much
  IdLists,            \* the id lists given to the batch call
  Targets,            \* contracts with pause and unpause
  Treasury,           \* the treasury's address, one of Targets
  Workflow,           \* the workflow's own address
  TargetLists,        \* the lists given to initialize_emergency_pause
  MAX_PAUSE_TARGETS,
  MinDelays,          \* the min_delay_secs given to resume_all
  Funds,              \* what the treasury can pay
  MaxTime             \* bound on the ledger timestamp

ASSUME WorkflowAssumption ==
  /\ Deployer \in Callers
  /\ MerchantOf \in [SettlementIds -> Merchants]
  /\ AmountOf \in [SettlementIds -> Nat \ {0}]
  /\ IdLists \subseteq Seq(SettlementIds)
  /\ Treasury \in Targets
  /\ Workflow \notin Targets
  /\ TargetLists \subseteq Seq(Targets \cup {Workflow})
  /\ MAX_PAUSE_TARGETS \in Nat
  /\ MinDelays \subseteq Nat
  /\ Funds \in Nat
  /\ MaxTime \in Nat

VARIABLES
  admin,            \* DataKey::Admin
  pendingAdmin,     \* DataKey::PendingAdmin: a set of at most one address
  paused,           \* DataKey::Paused
  pauseAdmin,       \* DataKey::EmergencyPauseAdmin, likewise
  pauseTargets,     \* DataKey::EmergencyPauseTargets: << >> when unset
  emergencyPausedAt,\* DataKey::EmergencyPausedAt: NoTime when unset
  now,              \* the ledger timestamp
  targetPaused,     \* external: the targets whose own Paused flag is set
  allowed,          \* external: the merchants Compliance::is_allowed accepts
  treasury,         \* external: what the treasury would execute, has executed
  gated,            \* history: payouts of each settlement by the workflow
  pausedBefore,     \* history: targets that were paused when the sweep of
                    \* this incident began, not unpaused by others since
  ownReleased       \* history: targets their own admin unpaused since the
                    \* last sweep

roleVars == <<admin, pendingAdmin>>
sweepVars == <<pauseAdmin, pauseTargets, emergencyPausedAt>>
targetVars == <<targetPaused, pausedBefore, ownReleased>>
payVars == <<treasury, gated>>
workflowVars == <<roleVars, paused, sweepVars, targetVars, payVars, allowed, now>>

NoTime == -1

(* The constructor sets the admin and pins the two contracts. The emergency *)
(* pause is configured later.                                               *)
WorkflowInit ==
  /\ admin = Deployer
  /\ pendingAdmin = {}
  /\ paused = FALSE
  /\ pauseAdmin = {}
  /\ pauseTargets = << >>
  /\ emergencyPausedAt = NoTime
  /\ now = 1
  /\ targetPaused = {}
  /\ allowed = {}
  /\ treasury = [ready |-> {}, executed |-> {}, pool |-> Funds]
  /\ gated = [i \in SettlementIds |-> 0]
  /\ pausedBefore = {}
  /\ ownReleased = {}

(***************************************************************************)
(* The admin role and the workflow's own pause.                            *)
(***************************************************************************)

(* A new nomination replaces the pending one; there is no expiry.           *)
transfer_admin(caller, new) ==
  /\ caller = admin
  /\ pendingAdmin' = {new}
  /\ UNCHANGED <<admin, paused, sweepVars, targetVars, payVars, allowed, now>>

accept_admin(new) ==
  /\ new \in pendingAdmin
  /\ admin' = new
  /\ pendingAdmin' = {}
  /\ UNCHANGED <<paused, sweepVars, targetVars, payVars, allowed, now>>

(* pause and unpause.                                                       *)
set_paused(caller, p) ==
  /\ caller = admin
  /\ paused' = p
  /\ UNCHANGED <<roleVars, sweepVars, targetVars, payVars, allowed, now>>

(***************************************************************************)
(* Execution behind the compliance gate.                                   *)
(***************************************************************************)

(* Treasury::execute_settlement, called by the workflow. It panics while    *)
(* the treasury is paused, for a settlement that is not ready (not Pending, *)
(* held, short of approvals, the workflow not a signer, the token not       *)
(* allowed) and when the transfer is not covered.                           *)
would_execute(tr, i) ==
  /\ Treasury \notin targetPaused
  /\ i \in tr.ready
  /\ tr.pool >= AmountOf[i]

execute_settlement(tr, i) ==
  [ready |-> tr.ready \ {i}, executed |-> tr.executed \cup {i},
   pool |-> tr.pool - AmountOf[i]]

(* ComplianceClient::require_allowed_for_treasury.                          *)
require_allowed_for_treasury(m) == m \in allowed

(* The merchant whose compliance is checked is the one the caller names.    *)
(* The settlement is not read before it is executed.                        *)
execute_with_compliance(i, m) ==
  /\ ~paused
  /\ require_allowed_for_treasury(m)
  /\ would_execute(treasury, i)
  /\ treasury' = execute_settlement(treasury, i)
  /\ gated' = [gated EXCEPT ![i] = @ + 1]
  /\ UNCHANGED <<roleVars, paused, sweepVars, targetVars, allowed, now>>

(* One round of the batch's loop: a settlement the treasury refuses now,    *)
(* after the rounds before, is skipped.                                     *)
try_execute_settlement(state, i) ==
  IF would_execute(state.tr, i)
  THEN [tr |-> execute_settlement(state.tr, i), paid |-> [state.paid EXCEPT ![i] = @ + 1]]
  ELSE state

(* Mutant: the first id the treasury refuses ends the loop.                 *)
StopAtFirstRefusal(ids, m) ==
  LET Paid(k) == FoldLeft(try_execute_settlement, [tr |-> treasury, paid |-> gated],
                          SubSeq(ids, 1, k))
      done == Paid(CHOOSE k \in 0 .. Len(ids) :
                     /\ k = Len(ids) \/ ~would_execute(Paid(k).tr, ids[k + 1])
                     /\ \A j \in 1 .. k : would_execute(Paid(j - 1).tr, ids[j]))
  IN /\ ~paused
     /\ require_allowed_for_treasury(m)
     /\ treasury' = done.tr
     /\ gated' = done.paid
     /\ UNCHANGED <<roleVars, paused, sweepVars, targetVars, allowed, now>>

execute_with_compliance_batch(ids, m) ==
  LET done == FoldLeft(try_execute_settlement, [tr |-> treasury, paid |-> gated], ids)
  IN /\ ~paused
     /\ require_allowed_for_treasury(m)
     /\ treasury' = done.tr
     /\ gated' = done.paid
     /\ UNCHANGED <<roleVars, paused, sweepVars, targetVars, allowed, now>>

(***************************************************************************)
(* The emergency pause.                                                    *)
(***************************************************************************)
validate_pause_targets(list) ==
  /\ list # << >>
  /\ Len(list) <= MAX_PAUSE_TARGETS
  /\ \A k \in DOMAIN list : list[k] # Workflow
  /\ \A j, k \in DOMAIN list : list[j] = list[k] => j = k

(* Mutant: reconfiguration in the middle of an incident.                    *)
ReconfigureAnyTime(caller, list) ==
  /\ validate_pause_targets(list)
  /\ pauseAdmin' = {caller}
  /\ pauseTargets' = list
  /\ UNCHANGED <<roleVars, paused, emergencyPausedAt, targetVars, payVars,
                 allowed, now>>

(* Any key may call it: the caller becomes the pause admin.                 *)
initialize_emergency_pause(caller, list) ==
  /\ emergencyPausedAt = NoTime
  /\ validate_pause_targets(list)
  /\ pauseAdmin' = {caller}
  /\ pauseTargets' = list
  /\ UNCHANGED <<roleVars, paused, emergencyPausedAt, targetVars, payVars,
                 allowed, now>>

(* Mutant: a target that refuses is left out of the sweep.                  *)
SweepSkippingRefusals(caller, obeying) ==
  /\ caller \in pauseAdmin
  /\ targetPaused' = targetPaused \cup (ToSet(pauseTargets) \cap obeying)
  /\ ownReleased' = {}
  /\ pausedBefore' = IF emergencyPausedAt = NoTime THEN targetPaused ELSE pausedBefore
  /\ emergencyPausedAt' = now
  /\ UNCHANGED <<roleVars, paused, pauseAdmin, pauseTargets, payVars,
                 allowed, now>>

(* obeying: the targets that accept the workflow as their admin now. One    *)
(* that does not makes the call fail and undoes the pauses before it. The   *)
(* sweep may be repeated during an incident, which restarts its clock.      *)
emergency_pause_all(caller, obeying) ==
  /\ caller \in pauseAdmin
  /\ ToSet(pauseTargets) \subseteq obeying
  /\ targetPaused' = targetPaused \cup ToSet(pauseTargets)
  /\ ownReleased' = {}
  /\ pausedBefore' = IF emergencyPausedAt = NoTime THEN targetPaused ELSE pausedBefore
  /\ emergencyPausedAt' = now
  /\ UNCHANGED <<roleVars, paused, pauseAdmin, pauseTargets, payVars,
                 allowed, now>>

(* Every target is unpaused, in reverse order, or the call fails. The delay *)
(* is the caller's own choice.                                              *)
resume_all(caller, min_delay, obeying) ==
  /\ caller \in pauseAdmin
  /\ emergencyPausedAt # NoTime
  /\ min_delay > 0 => now >= emergencyPausedAt + min_delay
  /\ ToSet(pauseTargets) \subseteq obeying
  /\ targetPaused' = targetPaused \ ToSet(pauseTargets)
  /\ emergencyPausedAt' = NoTime
  /\ pausedBefore' = {}
  /\ UNCHANGED <<roleVars, paused, pauseAdmin, pauseTargets, ownReleased,
                 payVars, allowed, now>>

(***************************************************************************)
(* The environment.                                                        *)
(***************************************************************************)

(* External: a target is paused or unpaused by a call of its own admin.     *)
OwnPause(t) ==
  /\ targetPaused' = targetPaused \cup {t}
  /\ ownReleased' = ownReleased \ {t}
  /\ UNCHANGED <<roleVars, paused, sweepVars, pausedBefore, payVars, allowed,
                 now>>

OwnUnpause(t) ==
  /\ targetPaused' = targetPaused \ {t}
  /\ pausedBefore' = pausedBefore \ {t}
  /\ ownReleased' = ownReleased \cup {t}
  /\ UNCHANGED <<roleVars, paused, sweepVars, payVars, allowed, now>>

(* External: compliance allows or stops allowing a merchant.                *)
ComplianceChange(m) ==
  /\ allowed' \in {allowed \cup {m}, allowed \ {m}}
  /\ UNCHANGED <<roleVars, paused, sweepVars, targetVars, payVars, now>>

(* External: a settlement becomes executable, stops being so (cancelled,    *)
(* held, an approval revoked), or is executed by another signer.            *)
TreasuryChange(i) ==
  /\ i \notin treasury.executed
  /\ \/ treasury' = [treasury EXCEPT !.ready = @ \cup {i}]
     \/ treasury' = [treasury EXCEPT !.ready = @ \ {i}]
     \/ would_execute(treasury, i) /\ treasury' = execute_settlement(treasury, i)
  /\ UNCHANGED <<roleVars, paused, sweepVars, targetVars, gated, allowed, now>>

(* External: a withdrawal or a drain takes from the treasury's balance.     *)
PoolShrinks(left) ==
  /\ left < treasury.pool
  /\ treasury' = [treasury EXCEPT !.pool = left]
  /\ UNCHANGED <<roleVars, paused, sweepVars, targetVars, gated, allowed, now>>

Tick ==
  /\ now < MaxTime
  /\ now' = now + 1
  /\ UNCHANGED <<roleVars, paused, sweepVars, targetVars, payVars, allowed>>

WorkflowNext ==
  \/ \E c, new \in Callers : transfer_admin(c, new)
  \/ \E new \in Callers : accept_admin(new)
  \/ \E c \in Callers, p \in BOOLEAN : set_paused(c, p)
  \/ \E i \in SettlementIds, m \in Merchants : execute_with_compliance(i, m)
  \/ \E ids \in IdLists, m \in Merchants : execute_with_compliance_batch(ids, m)
  \/ \E c \in Callers, list \in TargetLists : initialize_emergency_pause(c, list)
  \/ \E c \in Callers, obeying \in SUBSET Targets : emergency_pause_all(c, obeying)
  \/ \E c \in Callers, d \in MinDelays, obeying \in SUBSET Targets :
       resume_all(c, d, obeying)
  \/ \E t \in Targets : OwnPause(t) \/ OwnUnpause(t)
  \/ \E m \in Merchants : ComplianceChange(m)
  \/ \E i \in SettlementIds : TreasuryChange(i)
  \/ \E left \in 0 .. Funds : PoolShrinks(left)
  \/ Tick

WorkflowSpec == WorkflowInit /\ [][WorkflowNext]_workflowVars

(***************************************************************************)
(* Properties.                                                             *)
(***************************************************************************)

(* "An operator who sees get_emergency_paused_at() set knows every target   *)
(* is paused": while an incident is open every configured target is paused, *)
(* except one that its own admin unpaused after the sweep. Neither a        *)
(* refusing target nor a reconfiguration between the sweep and the resume   *)
(* leaves a target running.                                                 *)
IncidentCoversTargets ==
  emergencyPausedAt # NoTime =>
    ToSet(pauseTargets) \subseteq targetPaused \cup ownReleased

(* An incident that covers the treasury stops the money: no settlement is   *)
(* executed, by the workflow or past it, between the sweep and the resume,  *)
(* unless the treasury's own admin reopens it.                              *)
IncidentStopsPayouts ==
  [][(/\ emergencyPausedAt # NoTime
      /\ Treasury \in ToSet(pauseTargets) \ ownReleased)
        => treasury'.executed = treasury.executed]_workflowVars

(* "Settlement IDs that ... fail treasury execution are silently skipped    *)
(* rather than aborting the whole batch": a refused id costs no other id    *)
(* its payout. After a batch the treasury would execute none of the listed  *)
(* settlements any more, whatever it refused on the way, for its status or  *)
(* because an earlier id of the list used up the balance.                   *)
BatchSkipsOnlyRefused ==
  [][\A ids \in IdLists, m \in Merchants :
       execute_with_compliance_batch(ids, m)
         => \A i \in ToSet(ids) : ~would_execute(treasury', i)]_workflowVars

(***************************************************************************)
(* What the documentation says and the code does not do.                   *)
(***************************************************************************)

(* "A settlement only pays out to a compliant merchant": the merchant of    *)
(* every settlement the workflow executes is one compliance allows.         *)
PaysOnlyCompliant ==
  [][\A i \in SettlementIds :
       gated'[i] # gated[i] => MerchantOf[i] \in allowed]_workflowVars

(* "Targets that were already paused before emergency_pause_all ran.        *)
(* resume_all skips these so it only reverses its own sweep": a target that *)
(* was paused when the sweep began is still paused after the resume.        *)
ResumeSparesOthers ==
  [][emergencyPausedAt # NoTime /\ emergencyPausedAt' = NoTime
       => pausedBefore \subseteq targetPaused']_workflowVars
=============================================================================
