------------------------------ MODULE Custody ------------------------------
(***************************************************************************)
(* The money the treasury holds for its depositors: deposits, withdrawals  *)
(* and their limit, the two emergency drains and the token allowlist       *)
(* (contracts/treasury/src/deposits.rs, the allowlist of settlements.rs,   *)
(* the withdrawal limit of admin.rs), over the registry of Governance that *)
(* says whose signatures an emergency withdrawal needs.                    *)
(*                                                                         *)
(* The contract keeps one token balance for everybody. What a depositor    *)
(* may withdraw is bookkeeping beside it, which the settlement payouts and *)
(* the drains, taken from the same balance, do not touch.                  *)
(*                                                                         *)
(* The settlement engine, modelled in Settlements, appears here only as    *)
(* what it does to this state: there is or is not a Pending settlement,    *)
(* and settlements, parts of them and split disputes are paid out of the   *)
(* pool. The withdrawal allowlist that withdraw reads is left out: no      *)
(* entry point writes it, so it is empty and lets every address through.   *)
(***************************************************************************)
EXTENDS Governance, Aggregates

CONSTANTS
  Tokens,            \* token contracts
  Addresses,         \* depositors and recipients
  DepositLists,      \* the (token, amount) lists that are deposited
  WithdrawAmounts,   \* the amounts withdraw is called with, 0 among them
  PayoutAmounts,     \* the amounts of settlements
  InitialPools,      \* what the treasury may hold before the first deposit
  Limits,            \* the withdrawal limits the admin sets: 0 is uncapped
  Windows,           \* the window lengths it sets
  References,        \* deposit reference ids
  NoReference,       \* the None of a deposit's reference
  ReferenceTTL,      \* DEPOSIT_REF_TTL_LEDGERS
  MAX_ALLOWED_TOKENS,
  MaxDeposited       \* bound on what is deposited and not withdrawn, per token

ASSUME CustodyAssumption ==
  /\ IsFiniteSet(Addresses)
  /\ DepositLists \subseteq Seq([token : Tokens, amount : Int])
  /\ WithdrawAmounts \subseteq Int
  /\ PayoutAmounts \subseteq Nat \ {0}
  /\ InitialPools \subseteq Nat
  /\ Limits \subseteq Int
  /\ Windows \subseteq Nat
  /\ NoReference \notin References
  /\ ReferenceTTL \in Nat
  /\ MAX_ALLOWED_TOKENS \in Nat

VARIABLES
  balance,        \* DataKey::Balance(address, token)
  tokenTotal,     \* DataKey::TokenTotal(token)
  held,           \* the treasury's balance in the token contract
  tokenAllowlist, \* DataKey::TokenAllowlist, which holds no duplicates
  paused,         \* DataKey::Paused
  limit,          \* DataKey::WithdrawalLimitPerWindow
  windowSecs,     \* DataKey::WithdrawalWindowSecs
  windowStart,    \* DataKey::WithdrawalWindowStart(address), 0 when unset
  usedInWindow,   \* DataKey::WithdrawnInWindow(address)
  referenceUntil, \* DataKey::DepositRef(id): the last ledger it lives in
  withdrawn       \* history: per address and time, what left under this limit

bookVars == <<balance, tokenTotal>>
limitVars == <<limit, windowSecs>>
usageVars == <<windowStart, usedInWindow, withdrawn>>
custodyVars == <<bookVars, held, tokenAllowlist, paused, limitVars, usageVars,
                 referenceUntil>>
allVars == <<governanceVars, custodyVars>>

Times == 0 .. MaxTime

(* initialize: no limit, no allowlist, not paused. The token contract may   *)
(* already hold a balance for the treasury's address.                       *)
CustodyInit ==
  /\ GovernanceInit
  /\ balance = [a \in Addresses |-> [t \in Tokens |-> 0]]
  /\ tokenTotal = [t \in Tokens |-> 0]
  /\ held \in [Tokens -> InitialPools]
  /\ tokenAllowlist = {}
  /\ paused = FALSE
  /\ limit = 0
  /\ windowSecs = 0
  /\ windowStart = [a \in Addresses |-> 0]
  /\ usedInWindow = [a \in Addresses |-> 0]
  /\ referenceUntil = [r \in References |-> NoTime]
  /\ withdrawn = [a \in Addresses |-> [u \in Times |-> 0]]

(***************************************************************************)
(* Deposits.                                                               *)
(***************************************************************************)
record_deposit_reference(ref) ==
  \/ /\ ref = NoReference
     /\ UNCHANGED referenceUntil
  \/ /\ ref \in References
     /\ now > referenceUntil[ref]
     /\ referenceUntil' = [referenceUntil EXCEPT ![ref] = now + ReferenceTTL]

AmountOf(list, t) ==
  SumOver([k \in DOMAIN list |-> list[k].amount], {k \in DOMAIN list : list[k].token = t})

(* batch_deposit: every pair of the list, or none of them. deposit is the   *)
(* list of one pair. Any token contract is accepted, on the allowlist or    *)
(* not, and the list may name a token more than once or be empty.           *)
batch_deposit(from, list, ref) ==
  /\ ~paused
  /\ \A k \in DOMAIN list : list[k].amount > 0
  /\ \A t \in Tokens : tokenTotal[t] + AmountOf(list, t) <= MaxDeposited
  /\ record_deposit_reference(ref)
  /\ held' = [t \in Tokens |-> held[t] + AmountOf(list, t)]
  /\ balance' = [balance EXCEPT ![from] = [t \in Tokens |-> @[t] + AmountOf(list, t)]]
  /\ tokenTotal' = [t \in Tokens |-> tokenTotal[t] + AmountOf(list, t)]
  /\ UNCHANGED <<tokenAllowlist, paused, limitVars, usageVars>>

(***************************************************************************)
(* Withdrawals.                                                            *)
(***************************************************************************)

(* Mutant: the window is taken to have elapsed one withdrawal after it      *)
(* began.                                                                   *)
ElapsedOnceUsed(addr) == usedInWindow[addr] > 0

(* No window length, or as much time as a window has since it started.      *)
window_elapsed(addr) ==
  windowSecs = 0 \/ now - windowStart[addr] >= windowSecs

(* The amount counts against the window it falls in; a window starts with   *)
(* the first withdrawal after the last one elapsed. Nothing is counted      *)
(* while there is no limit.                                                 *)
enforce_withdrawal_limit(addr, amount) ==
  LET used == amount + IF window_elapsed(addr) THEN 0 ELSE usedInWindow[addr]
  IN \/ /\ limit <= 0
        /\ UNCHANGED usageVars
     \/ /\ limit > 0
        /\ used <= limit
        /\ windowStart' = [windowStart EXCEPT ![addr] =
                             IF window_elapsed(addr) THEN now ELSE @]
        /\ usedInWindow' = [usedInWindow EXCEPT ![addr] = used]
        /\ withdrawn' = [withdrawn EXCEPT ![addr][now] = @ + amount]

(* Mutant: the aggregate total is decremented for the balance that is left. *)
WithdrawMiscounting(to, t, amount) ==
  /\ ~paused
  /\ amount > 0
  /\ balance[to][t] >= amount
  /\ held[t] >= amount
  /\ enforce_withdrawal_limit(to, amount)
  /\ balance' = [balance EXCEPT ![to][t] = @ - amount]
  /\ tokenTotal' = [tokenTotal EXCEPT ![t] = @ - balance[to][t]]
  /\ held' = [held EXCEPT ![t] = @ - amount]
  /\ UNCHANGED <<tokenAllowlist, paused, limitVars, referenceUntil>>

(* The token contract refuses the transfer when the treasury holds less     *)
(* than the amount, whatever the depositor's bookkeeping says.              *)
withdraw(to, t, amount) ==
  /\ ~paused
  /\ amount > 0
  /\ balance[to][t] >= amount
  /\ held[t] >= amount
  /\ enforce_withdrawal_limit(to, amount)
  /\ balance' = [balance EXCEPT ![to][t] = @ - amount]
  /\ tokenTotal' = [tokenTotal EXCEPT ![t] = @ - amount]
  /\ held' = [held EXCEPT ![t] = @ - amount]
  /\ UNCHANGED <<tokenAllowlist, paused, limitVars, referenceUntil>>

(* What both drains do to the money: everything leaves, the depositors'     *)
(* balances stay as they are.                                               *)
Drain(t) ==
  /\ held' = [held EXCEPT ![t] = 0]
  /\ UNCHANGED <<bookVars, tokenAllowlist, paused, limitVars, referenceUntil>>

(* The admin's drain counts against the recipient's withdrawal window.      *)
withdraw_all(t, recipient) ==
  /\ paused
  /\ \/ held[t] > 0 /\ enforce_withdrawal_limit(recipient, held[t])
     \/ held[t] = 0 /\ UNCHANGED usageVars
  /\ Drain(t)

(* The signatures emergency_withdraw insists on: those of the listed keys   *)
(* that have weight.                                                        *)
emergency_authorized(signed) ==
  \A s \in signerList : signer_weight(s) = 0 \/ s \in signed

emergency_withdraw(signed, t) ==
  /\ paused
  /\ emergency_authorized(signed)
  /\ Drain(t)
  /\ UNCHANGED usageVars

(***************************************************************************)
(* Configuration.                                                          *)
(***************************************************************************)

(* The windows in progress go on under the new limit. The history starts    *)
(* again: it is kept for one limit at a time.                               *)
set_withdrawal_limit(l, secs) ==
  /\ limit' = l
  /\ windowSecs' = secs
  /\ withdrawn' = [a \in Addresses |-> [u \in Times |-> 0]]
  /\ UNCHANGED <<bookVars, held, tokenAllowlist, paused, windowStart,
                 usedInWindow, referenceUntil>>

set_paused(p) ==
  /\ paused' = p
  /\ UNCHANGED <<bookVars, held, tokenAllowlist, limitVars, usageVars,
                 referenceUntil>>

add_allowed_token(t) ==
  /\ t \in tokenAllowlist \/ Cardinality(tokenAllowlist) < MAX_ALLOWED_TOKENS
  /\ tokenAllowlist' = tokenAllowlist \cup {t}
  /\ UNCHANGED <<bookVars, held, paused, limitVars, usageVars,
                 referenceUntil>>

(* A token that is not on the list is "removed" without any condition.      *)
(* has_pending is what has_pending_settlement finds.                        *)
remove_allowed_token(t, has_pending) ==
  /\ t \in tokenAllowlist => ~has_pending /\ tokenTotal[t] <= 0
  /\ tokenAllowlist' = tokenAllowlist \ {t}
  /\ UNCHANGED <<bookVars, held, paused, limitVars, usageVars,
                 referenceUntil>>

(***************************************************************************)
(* The settlement engine, as far as this state sees it.                    *)
(***************************************************************************)

(* Settlement money leaves the pool; the depositors' balances stay.         *)
Payout(t, amount) ==
  /\ ~paused
  /\ held[t] >= amount
  /\ held' = [held EXCEPT ![t] = @ - amount]
  /\ UNCHANGED <<bookVars, tokenAllowlist, paused, limitVars, usageVars,
                 referenceUntil>>

(* execute_settlement, and batch_execute_settlements with the total it pays *)
(* in one call: in a token that is allowed now. An empty allowlist allows   *)
(* every token.                                                             *)
pay_settlement(t, amount) ==
  /\ tokenAllowlist = {} \/ t \in tokenAllowlist
  /\ Payout(t, amount)

(* partially_execute_settlement pays in whatever token the caller names.    *)
partially_pay_settlement(t, amount) == Payout(t, amount)

(* resolve_dispute_split: the claimant's and the counterparty's share of    *)
(* the disputed amount leave together, in whatever token the admin names.   *)
pay_split(t, amount) == Payout(t, amount)

(***************************************************************************)
(* The specification.                                                      *)
(***************************************************************************)
MoneyNext ==
  \/ \E a \in Addresses, list \in DepositLists,
        ref \in References \cup {NoReference} : batch_deposit(a, list, ref)
  \/ \E a \in Addresses, t \in Tokens, n \in WithdrawAmounts : withdraw(a, t, n)
  \/ \E a \in Addresses, t \in Tokens : withdraw_all(t, a)
  \/ \E signed \in SUBSET Signers, t \in Tokens : emergency_withdraw(signed, t)
  \/ \E l \in Limits, secs \in Windows : set_withdrawal_limit(l, secs)
  \/ \E p \in BOOLEAN : set_paused(p)
  \/ \E t \in Tokens : add_allowed_token(t)
  \/ \E t \in Tokens, p \in BOOLEAN : remove_allowed_token(t, p)
  \/ \E t \in Tokens, n \in PayoutAmounts :
       pay_settlement(t, n) \/ partially_pay_settlement(t, n) \/ pay_split(t, n)

CustodyNext ==
  \/ MoneyNext /\ UNCHANGED governanceVars
  \/ GovernanceNext /\ UNCHANGED custodyVars

CustodySpec == CustodyInit /\ [][CustodyNext]_allVars

(***************************************************************************)
(* Properties.                                                             *)
(***************************************************************************)

(* The books agree: the total kept per token is the sum of the balances,    *)
(* through batches that name a token twice, withdrawals, payouts and        *)
(* drains. Nothing like it holds of the money itself: full, partial and     *)
(* split payouts and both drains take tokens the depositors still have on   *)
(* the books.                                                               *)
BooksAgree ==
  \A t \in Tokens :
    tokenTotal[t] = SumOver([a \in Addresses |-> balance[a][t]], Addresses)

(* Delisting a token hides no depositor's balance from get_all_balances:    *)
(* when a token leaves the allowlist every depositor's balance in it is 0,  *)
(* which remove_allowed_token only knows through the total.                 *)
DelistingHidesNothing ==
  [][\A t \in tokenAllowlist \ tokenAllowlist' :
       \A a \in Addresses : balance[a][t] = 0]_allVars

WithdrawnBetween(a, from, to) ==
  SumOver(withdrawn[a], from .. to)

(* The withdrawal limit over time. Under one setting of the limit, what an  *)
(* address takes out in any stretch of time as long as the window, wherever *)
(* it starts, is at most twice the limit: the windows do not slide, so one  *)
(* stretch can meet two of them, and never three.                           *)
WithdrawalsBounded ==
  limit > 0 => \A a \in Addresses, from \in Times :
    WithdrawnBetween(a, from, Min({from + windowSecs - 1, MaxTime})) <= 2 * limit
=============================================================================
