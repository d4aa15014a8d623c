# TLA+ verification of the COMEBACKHERE contracts

The repository holds four Soroban contracts (treasury, compliance, invoice,
settlement-workflow) and the crates they share. A contract call is atomic: the
host rolls back a call that fails, and calls are executed one at a time. What is
hard is therefore not threads but *sequences*: any signer, operator, admin or
stranger may make any call at any time, the clock moves between calls, and the
same facts are kept in several storage entries that different calls update.
Every model here has one action per entry point, guarded by the checks that the
call passes, and lets the callers interleave freely.

## Inventory

| Component | State | Operations | What is hard | What makes it correct |
|---|---|---|---|---|
| Signer registry and approval arithmetic (`crates/multisig`, `treasury/src/signers.rs`, `admin.rs`) | weight per signer, signer list, threshold | set and remove a signer, change the threshold, record and revoke an approval | weights change while approvals stand; u32 sums | a weight reflects the signers behind it; a quorum is one of distinct signers |
| Settlement engine (`treasury/src/settlements.rs`, `holds.rs`, `lib.rs`) | settlement table, pending index, hold expiries, partial totals, capped merchant index, pause, compliance pin | propose, approve, revoke, batch and partial variants, execute (three ways), cancel (three ways), expire, hold, release | three payout paths and three closing paths on one record; cached index; lapsing holds, deadlines and windows | each settlement ends once and its merchant holds what that end says; the index misses nothing; payouts have a quorum |
| Disputes (`treasury/src/disputes.rs`, `crates/protocol-math`) | disputes with votes; they hold settlements | raise, expire, resolve, split, vote | several disputes on one settlement ending in any order; votes racing signer changes | the hold ends with the last dispute; votes decide with a quorum on one side; a split loses no dust |
| Compliance (`contracts/compliance`) | allow and block records with expiries and provenance, paged index, roles, pause, bulk cooldowns | allow, block, clear, sweep, bulk calls, export, roles | lazily evaluated expiries; admin and operators write the same record; handover | sweeps change no answer; records are paired; the index is complete |
| Signer rotation and timelock (`treasury/src/signers.rs`, `timelock.rs`) | rotation and change proposals, cooldown, delay | propose, approve, execute, cancel | executed long after the proposal, against a registry that direct calls changed meanwhile | a proposal takes effect once, after its delay; weight off the signer list has a known origin |
| Deposits and withdrawals (`treasury/src/deposits.rs`) | balance per depositor and token, totals, withdrawal window, allowlist | deposit, batch, withdraw, withdraw all, emergency withdraw, list and delist tokens | depositors' claims and settlement payouts draw on one balance; windows that restart | the totals agree with the balances; the window limit holds; delisting hides no balance |
| Admin handover (each contract) | admin, pending admin | nominate, accept, cancel | replaced, expired and cancelled nominations | only the last nominee accepts |
| Settlement workflow (`contracts/settlement-workflow`, `crates/compliance-client`) | admin, pinned contracts, pause targets, incident start | compliance-gated execution, batch, pause and resume of all targets | checks the merchant it is told, pays the one that is stored; a target that refuses; targets with admins of their own | an incident pauses every target and stops payouts; a batch skips only what the treasury refuses |
| Invoice (`contracts/invoice`) | invoices with history, pending, merchant and payer indexes, nonces, settings, refund escrow | create, pay, release, cancel, amend, extend, transfer, expire, refund (request, approve, process, reject), batches | refunds in several steps by two parties, grace and refund windows, indexes kept beside the records | listings agree with records; a history replays; a refund is paid once and adds up; an end is final |
| Templates (`invoice/src/entrypoints/template.rs`) | templates with their next run | create, switch, generate, keeper call | a keeper that comes late, twice, or with repeated ids | a period is invoiced once; a due template is invoiced |
| Error crates and macros | none | none | nothing | not modelled: no state |

The contracts interact by calls within one transaction: the workflow asks
compliance and then calls `execute_settlement`; the treasury asks a pinned
compliance contract when a settlement is proposed and executed; an emergency
sweep calls `pause` of every target, and one refusal undoes it all; every payout
and refund is a call of the token contract.

`PROJECT.json` lists the hazards line by line.

## Modules

* **SignerRegistry** - `signerWeight`, `signerList`, `threshold`, `now`. The
  operators `counted_weight` / `record_approval` / `revoked_weight` /
  `meets_threshold` are those of `crates/multisig`; `set_signer`,
  `remove_signer` and `update_threshold` are the entry points. `RegistryInit` is
  `initialize`, which may leave a signer of weight 0 in the list.
* **Settlements** extends it with the settlement engine. `write_settlement`
  carries the index and hold-expiry bookkeeping of the Rust function of that
  name; `batch_execute_settlements` does not use it, as in the code. `transfer`
  (token contract) and `is_allowed_for_amount` (compliance) are external.
  `paid` is a history variable: what each settlement's merchant received.
* **Treasury** extends it with disputes, composes `Init`, `Next` and `Spec`, and
  states the properties.
* **SettlementLifecycle** - the abstract specification: unborn, open, held, then
  exactly one of paid, part_paid, closed, with what the merchant received.
  `Treasury!ImplementsLifecycle` instantiates it with a refinement mapping from
  the status field.
* **Compliance** - one record per address (`entries`), the paged index, the
  roles. Every address call goes through `write`, which ends, as in the code, by
  tracking the address.
* **Governance** extends SignerRegistry with the two slower ways to change it:
  `rotations` (proposed by a signer, approved by weight, executed inside the
  approval that reaches the threshold) and `changes` (queued by the admin with
  `executable_at`, executed later), and with the admin's handover. The direct
  calls of SignerRegistry interleave. As in the code a rotation writes the weights
  and not `signerList`, and a queued removal has no quorum check.
* **Custody** extends Governance with the money of depositors: `balance` and
  `tokenTotal` are the books, `held` is the token contract's balance, `limit`,
  `windowSecs`, `windowStart`, `usedInWindow` the withdrawal window,
  `referenceUntil` the deposit references in temporary storage. Settlement
  payouts are the other draw on `held`: `pay_settlement` (single and batch, in an
  allowed token), `partially_pay_settlement` and `pay_split` (a dispute split), both
  in any token. Whether some settlement is pending is an input of
  `remove_allowed_token`. `withdrawn` is history.
* **SettlementWorkflow** - the workflow and what it calls, reduced to what it can
  observe: `treasury` is a record of which settlements are ready, which were executed
  and the pool; `would_execute` and `execute_settlement` stand for the checks and
  the effect of the treasury's `execute_settlement`;
  `allowed` is compliance's answer; `targetPaused` the pause flag of each target.
  `execute_with_compliance_batch` folds `try_execute_settlement` over its list,
  repeated ids included. Between its calls settlements become ready, are called off
  or executed past it, and the pool shrinks. A sweep in which a target refuses does not happen, since
  the host rolls it back. `ownReleased`, `pausedBefore` and `gated` are history.
* **Invoice** - one record per invoice in `invoices`, its audit log in the record,
  the three indexes, settings, roles, and `escrow` (the contract's token balance)
  with `received` per account.
* **InvoiceTemplates** extends it with templates, the permissionless keeper and,
  external, an expiry job of the admin that works from a list it read earlier
  (`listed`), in pages of at most `MAX_BATCH_EXPIRE` ids.
* **MCTreasury**, **MCGovernance**, **MCCustody**, **MCCompliance**,
  **MCSettlementWorkflow**, **MCInvoice**, **MCInvoiceTemplates** - constants and
  symmetry for TLC.
* **Aggregates** - what the contracts compute in a loop: the sum of a table over a
  set (`SumOver`), a list without some entries (`Only`), a list in order
  (`ListsInOrder`). Settlements, Custody, Invoice and Compliance extend it.
* **TreasuryProofs**, **TreasurySafetyProofs**, **GovernanceProofs**,
  **CustodyProofs**, **ComplianceProofs**, **WorkflowProofs**, **InvoiceProofs** - the
  theorems, each module extending the component it is about. **AggregateProofs** has
  no theorem of its own: its lemmas are what the others know of sums and loops.

Abstractions common to all: authentication is implicit in who takes an action;
events, error codes, getters, time-to-live bumps and labels are left out. A batch
is the set of its ids in the treasury and a repetition-free sequence in compliance,
because those loops re-read a repeated id from storage and change nothing more. In
invoice and in the workflow it is the list itself, repetitions, unknown ids and
over-long lists included: `batch_cancel_invoices` validates every id before it writes
any, so there a repeated id is logged once per occurrence.
`SettlementStatus::PartiallySettled` is kept in the type although nothing ever
stores it. In the treasury, signer last-active stamps (only a getter reads
them), the payout-address override and the token label of a proposal are left
out, and in Settlements the token allowlist is a constant (Custody administers
it). In invoice, hashes, links, late fees and the open-invoice caps are left out:
the latter two are stored and returned and nothing enforces them. In compliance, tiers, reasons,
jurisdictions, history, counters and the Merkle root are left out: no call that
changes state reads them.

## Runs

| Run | Instance | Shows |
|---|---|---|
| `quorum` | 2 signers, 2 settlements, threshold 1 or 2, no clock | pays once, on a quorum of distinct signers; indexes complete; paused means frozen; refines the life cycle |
| `disputes` | 2 signers, threshold 2, 1 settlement, 2 disputes, 2 instants | holds, windows, splits, votes and dispute endings in every order; the last dispute that ends other than by votes lifts the hold; votes decide with distinct voters of one side |
| `governance` | 2 keys, 1 rotation, 2 queued changes, delays 1 to 2, 3 instants | the delay keeps its bounds, changes wait, proposals apply once, unlisted weight comes from rotations |
| `custody` | 1 signer, 2 depositors, 1 token, limit 2 over a window of 2, 3 instants, a nominee | totals and balances agree, delisting hides no balance, withdrawals are bounded |
| `compliance` | 2 addresses, admin and operator, 2 instants | index, provenance, sweeps |
| `workflow` | 2 callers, 2 merchants, 2 settlements, 2 targets, amounts 2 and 1 against a pool of 3 that may shrink | an incident covers its targets and stops payouts; a batch skips only what the treasury refuses |
| `invoice` | 2 invoices, 1 payer, up to 5 transitions each, 2 instants, fees that round, cancel lists of up to 2 and expiry lists of 1 | listings, histories, refund money, finality |
| `keeper` | 1 template, 2 invoices, period 1, grace 1, 3 instants, expiry pages of 1, fair keeper and expiry job | a period is invoiced once; due templates are invoiced and overdue invoices expire |
| `disputed_paid` (violation) | | a lapsed earlier hold expiry lets a disputed settlement be paid |
| `votes_hold` (violation) | | votes that decide the only dispute leave the settlement on hold |
| `noncompliant_paid` (violation) | | the workflow pays a refused merchant's settlement when the caller names an allowed merchant |
| `resume_all` (violation) | | a resume unpauses a target that was paused before the incident |

The violation runs each check one sentence of the repository's own
documentation; `findings` in `PROJECT.json` quotes it. Other disagreements between
text and code that the models contain, without a run of their own:

* `batch_execute_settlements` stores past `write_settlement`, so a paid id stays in
  the pending index (`settlements.rs:490`; `lib.rs:145-148` says it cannot drift).
* A weight lowered between approval and revocation leaves weight nobody stands
  behind (`crates/multisig/src/lib.rs:561`; the comment at 532 considers raising).
* Batch and partial payouts do not ask compliance (`settlements.rs:441`;
  `lib.rs:114-117`).
* An operator's block replaces the admin's and may then be cleared, by the operator
  alone in two calls (`compliance/src/lib.rs:704`). `compliance/src/lib.rs:957-961`
  says that "a block placed by the admin" is "reversed by the admin only", 663-664
  that "no operator may clear these afterwards", and `ARCHITECTURE.md:231` agrees.
* A partial execution is final: every entry point asks for `Pending`, so the rest of
  the amount is never paid and `PartialExecutedTotal` never accumulates.
  `settlements.rs:537-540` speaks of "cumulative executed amounts across multiple
  calls", 506-509 of progress, and `crates/multisig/src/lib.rs:150` leaves
  `PartiallyExecuted` out of the terminal states. `SettledStaysSettled` and the stage
  `part_paid` of the life cycle state what the code does.
* `batch_cancel_invoices` logs and announces an id once per occurrence in its list
  (`invoice/src/entrypoints/batch.rs:183-212`; 166 says "one `invoice_cancelled` event
  per cancelled id"). `HistoryReplays` allows for the repeated entries.
* `batch_create_invoice` has no cap on its length (`batch.rs:19-124`; `docs/GLOSSARY.md:29`
  and `docs/economic-parameters.md:30` say `MAX_BATCH_SIZE`), and `batch_expire` takes its
  ids from the caller (`docs/GLOSSARY.md:190` says it enumerates the pending index).
* A refund goes to the account that holds the claim, which `transfer_invoice` may have
  moved (`invoice/src/refund.rs:103` says the payer recorded at `mark_paid`).
* `emergency_withdraw` asks the listed signers, not every key with weight, and the
  withdrawal window tumbles although it is called rolling
  (`WithdrawalsBounded` states twice the limit for that reason).
* `initialize_emergency_pause` is documented as first caller wins, and accepts any
  caller again whenever no incident is open.

**Bounds.** `MaxSettlements`, `MaxDisputes`, `MaxTime`, `MaxWeight` (stands for
`u32::MAX`), `MAX_MERCHANT_SETTLEMENTS` = 1, `MAX_TRACKED_ADDRESSES` = 2,
`ADDR_INDEX_PAGE_SIZE` = 1, `MAX_OPERATORS` = 1. Two settlements are the least
for a batch that pays one and skips one and for the merchant index to overflow;
`Funds` 3 against amounts of 2 makes a second payout fail; two disputes are the
least for one to end while another holds, and two signers with threshold 2 the least
for a vote that does not decide; of two instants the second is at or past every
hold expiry, dispute expiry and window that the first is before. Moving thresholds
under approvals are exercised in `quorum`, under votes they are left to the proof of
`VotesDecideWithQuorum`. Execution deadlines, which only narrow `execute_settlement`,
are 0 in the passing runs; the theorems are for every deadline. With page size 1
every index window crosses pages; windows inside a page are not exercised by TLC
and are covered by the proof of `IndexIsComplete`, which is for every page size.
Weights are 1, where "quorum of distinct signers" has a meaning. In `governance` a
second queued change is the least for the delay to change under a change that
waits, and four values of `now` let a change wait longer than it must; nominations
are exercised by `custody`, which extends the same module with an empty queue. In
`custody` deposits of 2 against a limit of 2 and a window of 2 within times 0 to 3
let one stretch of time meet two windows; one token suffices since the code treats
tokens one by one, and a deposit list may still name it twice. In `workflow` the pool covers both settlements at
first; once it has shrunk, or one was paid past the workflow, a batch pays the one
and is refused the other (`AmountOf`), and `IdLists` names the small one twice before
the large one. In `invoice` the denominator of the fee is 4 in place of 10000 so
that gross amounts leave remainders; `MaxTransitions` bounds the request and
reject cycle of refunds; `MaxFunds` what strangers pay into the escrow;
`MAX_BATCH_SIZE` and `MAX_BATCH_EXPIRE` are 1 or 2, so that lists are refused for their
length and the expiry job needs a second page.
`MAX_PAYER_INDEX_ENTRIES` and `MAX_ALLOWED_TOKENS` are small enough to be met.
Symmetry is used in `compliance` (screened addresses) and `custody` (depositors),
where nothing names an element of the set and no liveness is checked.

**Deadlock** is checked: an admin may always make a call.

**Fairness.** Only `keeper` assumes any, and only it claims liveness. `TemplateSpec`
has weak fairness of the clock, of `generate_due_invoices` for each template, and
of an expiry job that reads `get_pending_ids` and passes that list to `batch_expire`
page by page. Generation is permissionless and left to a keeper
(`contracts/invoice/README.md:97-103`). The expiry job is an assumption: `batch_expire`
is the admin's and tolerates stale ids (`entrypoints/batch.rs:126-132`), but no such job
is in the repository. `OverdueInvoicesExpire` says that such a job suffices, with the
contract's own index and caps; without one, overdue invoices stay pending. Nothing obliges
anybody else to send a transaction, so no other action is fair; both properties
are conditional on the contract being left unpaused in the end. Elsewhere
`expire_settlement`, `expire_dispute` and `sweep_expired` exist precisely because
nothing happens by itself, and no liveness is claimed.

**Mutants.** Definitions marked "Mutant" change a modelled definition as a
plausible bug would; every property of a passing run is violated by one.

## Proofs

Every invariant and every safety action property that a passing run checks is
also a theorem, for every value of the constants that satisfies the modules'
assumptions (`RegistryAssumption`, `SettlementAssumption`, `DisputeAssumption`,
`GovernanceAssumption`, `CustodyAssumption`, `ComplianceAssumption`,
`WorkflowAssumption`, `InvoiceAssumption`, `TemplateAssumption`). These say what the
host's types say: finitely many signers, tokens, addresses and accounts, a storage
table being finite; weights and thresholds within u32; amounts, times and caps
natural numbers; `None` unlike any value it may be confused with.

**Treasury** (`TreasuryProofs`, `TreasurySafetyProofs`)

* `TypeCorrect` - `Spec => []TypeOK`.
* `PayoutsMatchStatus` - not inductive alone: a proposal could land on an id with an
  old payout. `PayInv` adds `FreshIds` (ids above `settlementCount` are unused, those
  below used). `SettledIsFinal` follows from the same invariant.
* `WeightsCountDistinctSigners`, `PayoutsHaveQuorum` - `CountInv` adds that registry
  weights stay in {0, 1} when only weight 1 is handed out; that a signer of weight 0
  can neither approve nor revoke is what keeps count and weight together while
  signers leave and return.
* `IndexListsPending`, `ReleasedHoldsLeaveNoReason` - from `IndexShape`, what a step
  does to one settlement and its place in the index: nothing, a `write_settlement`, or
  the direct write of the batch payout.
* `MerchantIndexesAreLatest` - `PushKeepsNewest` is the argument: a list of the newest
  ids that drops its head when full still lists the newest once a larger id is
  pushed. Every other step keeps the catalog (`CatalogKept`).
* `PauseStopsCallers` - which calls a paused contract accepts, and that none of them
  moves money or counts a vote.
* `HoldOutlivesOpenDisputes`, `LastDisputeFreesSettlement`, `VotesDecideWithQuorum` -
  from `DisputeForm` and `DisputeInv`: dispute ids are handed out in order, and a
  recorded vote has weight, so that a standing side is never without a voter.
* `TreasuryImplementsLifecycle` - the refinement, one lemma per kind of step: close,
  full payout, partial payout, hold or release, proposal, stutter. It needs
  `PayInv`, since a payout is a step of the life cycle only from 0.
* `FundsStayAccounted` - each payout moves the same amount from the sum of the
  balances to the sum of the payouts; a batch transfers the sum of what it pays
  (`BatchSum`); the two truncated shares of a split add up to the whole
  (`SplitSumAdds`).

The payout, finality and quorum theorems go through a classification. `StepShape` shows
once, entry point by entry point, that any step leaves a settlement untouched, gives
birth to it, moves it among the live and closed statuses without money, records or
revokes one approval, or pays on it with the threshold met; the theorems only consult
these shapes. `CallForm` plays the same part for compliance and `Kinds` for invoices.

**Governance** (`GovernanceProofs`) - `GovernanceTypeCorrect` (with the bounds of the
delay), `UnlistedWeightIsRotated`, `QueuedChangesWait` (from `DueAfterDelay`:
`executable_at` keeps its distance from `proposed_at` however the delay changes),
`ProposalsTakeEffectOnce`.

**Custody** (`CustodyProofs`) - `TotalsAgreeWithBalances` needs balances to be natural
numbers (`BookInv`), and `DelistedTokenIsEmpty` then follows: a sum of 0 has only zeros.
For `WithdrawalsStayBounded` the contract's counter is not enough; `Bounded` adds, about
what one address really took out, that nothing leaves after its window is over, that
at most the limit and at most what was counted leaves from the start of the window on,
and at most the limit in as much time before it. A stretch that contains now lies in
those two parts (`StretchMeetsTwo`), hence twice the limit and never three times.

**Compliance** (`ComplianceProofs`) - `BlockRecordsArePaired` from `RecordInv`;
`ComplianceTypeCorrect`, whose
strengthening is that the operators are a finite set. `IndexIsComplete` rests on `IndexInv`: all
pages but the last are full, the last holds the rest, slot `i` is on page
`i \div PageSize`, and the slots hold the tracked addresses, each once
(`SoundIndexes`). From it follow that the pages put end to end are the slots in order
(`FlattenIsSlots`) and that a window read page by page is a slice (`WindowIsSlice`).
`StatesNeverOverstate` and `SweepsAreBookkeeping` follow from the records.

**Workflow** (`WorkflowProofs`) - `BatchesSkipOnlyRefused`: the loop is laid out as its
rounds (`BatchRounds`). After the round of an id the treasury refuses that id, because
it was executed or because it was refused already, and a refused id stays refused,
since rounds only take from what is ready and from the pool (`RoundRefuses`); so it is
refused at the end (`BatchReaches`). `PayInv` supplies the types. `IncidentsCoverTargets` is inductive as it stands;
`IncidentsStopPayouts` uses it.

**Invoice** (`InvoiceProofs`) - `InvoiceTypeCorrect` and `AuditLogReplays` together
(`TypeLog`; the one place where an entry does not start from the status before it is
a cancellation that repeats its predecessor, which only `batch_cancel_invoices` writes), `TerminalInvoicesAreFinal`, `ListingsAlwaysAgree` (`ListingInv` adds that
the nonces in use are recorded), `RefundsAlwaysReconcile` (`RefundInv`). With templates,
`PeriodsInvoicedOnce` from `ScheduleInv`: the next run is a whole number of periods
after the creation and the last invoice fell in an earlier period.
`TemplatesKeepTheInvoices` and `TemplatesKeepTerminalInvoices` carry the theorems of the
plain contract over to the composition.

**Sums and loops.** Folds of the community modules are recursive functions, whose value
follows from no definition alone. `AggregateProofs` shows that the sum of a table is the
number of its units, a cardinality, and that the function a loop over a list is
recursive in exists, built up one index after the other (`LoopExists`). Induction is
replaced by a least counterexample (`LeastCounterexample`, `CountUp`), a set and not an
operator, which the provers can instantiate.

**Only model-checked:** the two liveness properties `DueTemplatesAreInvoiced` and
`OverdueInvoicesExpire`, since the prover handles neither fairness nor ENABLED; and
the violation runs, whose result is a counterexample.

## Not modelled

* Error crates and macros: no state.
* Signer labels and last-active stamps, payout addresses, tiers, reasons,
  jurisdictions, status history and counters of compliance, the Merkle root, late
  fee and open-invoice caps of invoice: written and returned, read by no call that
  decides anything.
* The i128 and u64 overflow limits, except for u32 weights.
* Archival of storage entries by the host, except for deposit references.

## Plan

1. Done: the models, the runs, and a theorem for every safety property of a passing
   run.
2. Next: theorems that are not properties of a run yet. The custody and workflow
   modules state no type invariant of their own; the extension of the treasury's
   theorems to registries with weights other than 1 (a payout has the recorded weight
   of its approvals); the index bound `MAX_TRACKED_ADDRESSES` as a theorem; a shared
   lemma for the loops of AggregateProofs, ComplianceProofs and WorkflowProofs.
