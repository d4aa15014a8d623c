------------------------------- MODULE Invoice ------------------------------
(***************************************************************************)
(* The invoice contract: the life of an invoice from creation through      *)
(* payment, release, expiry, cancellation and refund, the indexes kept     *)
(* beside it, the payout of a refund by the token contract, and the        *)
(* admin's settings (contracts/invoice, without templates).                *)
(*                                                                         *)
(* A call is one atomic step; a call that returns an error is no step.     *)
(* Authentication is implicit: what "the admin", "the merchant" or "the    *)
(* payer" of an invoice does is a call signed by that account. Metadata    *)
(* and payment-link hashes, memos and events are left out, and with them   *)
(* the checks on their form. The entries Invoice(id), InvoiceHistory(id)   *)
(* and RefundBreakdown(id) are one record.                                 *)
(***************************************************************************)
EXTENDS Integers, Sequences, SequencesExt, Aggregates

CONSTANTS
  Merchants, Payers,        \* the accounts that issue and that pay invoices
  FirstAdmin, Nominees,     \* the admin, and the accounts it may hand over to
  Tokens,                   \* what creations name as token: contracts, or None
  None,                     \* the None of an Option
  Prices,                   \* the [amount, gross] pairs merchants ask
  Lifetimes,                \* expires_in_seconds and additional_seconds
  Nonces,                   \* the non-zero merchant nonces
  GraceWindows, RefundWindows, \* the windows the admin sets
  NetworkFees, FeeBps,      \* the fees of a refund
  REFUND_NETWORK_FEE, BPS_DENOMINATOR, MAX_PAYER_INDEX_ENTRIES,
  MAX_BATCH_SIZE, MAX_BATCH_EXPIRE,
  MaxInvoices,              \* bound on the invoices created
  MaxTransitions,           \* bound on the length of an invoice's history
  MaxFunds,                 \* bound on the tokens sent to the contract
  MaxTime,                  \* bound on the ledger timestamp
  MaxExpiry                 \* bound on an extended expiry

Accounts == Merchants \cup Payers
Admins == Nominees \cup {FirstAdmin}
NetRefund == [gross_amount : Nat, processing_fee : Nat, network_fee : Nat, net_amount : Nat]

ASSUME InvoiceAssumption ==
  /\ IsFiniteSet(Accounts)
  /\ None \notin Accounts \cup Admins \cup Nat \cup NetRefund
  /\ Prices \subseteq [amount : Nat \ {0}, gross : Nat \ {0}]
  /\ \A p \in Prices : p.amount <= p.gross
  /\ Lifetimes \subseteq Nat \ {0}
  /\ Nonces \subseteq Nat \ {0}
  /\ GraceWindows \cup RefundWindows \subseteq Nat
  /\ NetworkFees \subseteq Nat
  /\ REFUND_NETWORK_FEE \in Nat
  /\ BPS_DENOMINATOR \in Nat \ {0}
  /\ FeeBps \subseteq 0 .. BPS_DENOMINATOR
  /\ MAX_PAYER_INDEX_ENTRIES \in Nat
  /\ {MAX_BATCH_SIZE, MAX_BATCH_EXPIRE} \subseteq Nat \ {0}
  /\ {MaxInvoices, MaxTransitions, MaxFunds, MaxTime, MaxExpiry} \subseteq Nat

VARIABLES
  invoices,       \* DataKey::Invoice(1 .. InvoiceCount), in order of id
  pendingIndex,   \* DataKey::PendingIndex
  merchantIndex,  \* MerchantInvoiceIndex: the ids of each merchant
  payerIndex,     \* PayerIndexEntry: the ids recorded for each payer
  nonces,         \* the (merchant, nonce) pairs of DataKey::MerchantNonce
  graceWindow, refundWindow, networkFee,
  paused, admin, pendingAdmin,
  escrow,         \* external: the tokens the contract's own address holds
  funded,         \* history: the tokens that ever came in
  received,       \* history: the refunds each account was paid
  now             \* the ledger timestamp

indexVars == <<pendingIndex, merchantIndex, payerIndex, nonces>>
settingVars == <<graceWindow, refundWindow, networkFee, paused, admin, pendingAdmin>>
tokenVars == <<escrow, funded, received>>
invoiceVars == <<invoices, indexVars, settingVars, tokenVars, now>>

Ids == DOMAIN invoices

Statuses == {"Pending", "Paid", "Expired", "Cancelled", "RefundRequested",
             "Released", "Refunded"}

is_terminal(status) == status \in {"Expired", "Cancelled", "Released", "Refunded"}

(***************************************************************************)
(* The refund arithmetic.                                                  *)
(***************************************************************************)
(* calculate_net_refund_with_network_fee: the product gross * bps is never  *)
(* formed, and the payout is floored at zero.                               *)
calculate_net_refund(gross, bps, fee) ==
  LET processing == (gross \div BPS_DENOMINATOR) * bps
                      + ((gross % BPS_DENOMINATOR) * bps) \div BPS_DENOMINATOR
      network == IF fee > gross THEN gross ELSE fee
      net == gross - processing - network
  IN  [gross_amount |-> gross, processing_fee |-> processing,
       network_fee |-> network, net_amount |-> IF net < 0 THEN 0 ELSE net]

(* What a list view shows of an invoice: what was collected, what is owed.  *)
collected_usdc(inv) ==
  IF inv.status \in {"Paid", "RefundRequested", "Released", "Refunded"}
  THEN inv.price.gross ELSE 0

outstanding_usdc(inv) ==
  IF inv.status \in {"Expired", "Cancelled"} THEN 0
  ELSE inv.price.gross - collected_usdc(inv)

(***************************************************************************)
(* Creating invoices.                                                      *)
(***************************************************************************)
InvoiceInit ==
  /\ invoices = <<>>
  /\ pendingIndex = <<>>
  /\ merchantIndex = [m \in Merchants |-> <<>>]
  /\ payerIndex = [a \in Accounts |-> <<>>]
  /\ nonces = {}
  /\ graceWindow = 0 /\ refundWindow = 0 /\ networkFee = REFUND_NETWORK_FEE
  /\ paused = FALSE
  /\ admin = FirstAdmin
  /\ pendingAdmin = None
  /\ escrow = 0 /\ funded = 0
  /\ received = [a \in Accounts |-> 0]
  /\ now = 1

NewInvoice(merchant, price, lifetime, nonce, token) ==
  [merchant |-> merchant, price |-> price, status |-> "Pending",
   expires_at |-> now + lifetime, paid_at |-> None, payer |-> None,
   nonce |-> nonce, token |-> token, history |-> <<>>, breakdown |-> None]

(* Mutant: the pending index is not told.                                   *)
RecordWithoutPendingIndex(new) ==
  LET ids == [k \in DOMAIN new |-> Len(invoices) + k]
      OfMerchant(m) == Only(ids, {ids[k] : k \in {j \in DOMAIN new : new[j].merchant = m}})
  IN  /\ Len(invoices) + Len(new) <= MaxInvoices
      /\ invoices' = invoices \o new
      /\ merchantIndex' = [m \in Merchants |-> merchantIndex[m] \o OfMerchant(m)]
      /\ nonces' = nonces \cup
           {<<new[k].merchant, new[k].nonce>> : k \in {j \in DOMAIN new : new[j].nonce # 0}}
      /\ UNCHANGED <<pendingIndex, payerIndex>>

(* create_invoice_record, once per element of new: the next ids, the used   *)
(* nonces, the merchant's index and the pending index.                      *)
create_invoice_record(new) ==
  LET ids == [k \in DOMAIN new |-> Len(invoices) + k]
      OfMerchant(m) == Only(ids, {ids[k] : k \in {j \in DOMAIN new : new[j].merchant = m}})
  IN  /\ Len(invoices) + Len(new) <= MaxInvoices
      /\ invoices' = invoices \o new
      /\ merchantIndex' = [m \in Merchants |-> merchantIndex[m] \o OfMerchant(m)]
      /\ nonces' = nonces \cup
           {<<new[k].merchant, new[k].nonce>> : k \in {j \in DOMAIN new : new[j].nonce # 0}}
      /\ pendingIndex' = pendingIndex \o ids
      /\ UNCHANGED payerIndex

create_invoice(merchant, price, lifetime, nonce, token) ==
  /\ ~paused
  /\ <<merchant, nonce>> \notin nonces
  /\ create_invoice_record(<<NewInvoice(merchant, price, lifetime, nonce, token)>>)
  /\ UNCHANGED <<settingVars, tokenVars, now>>

(* batch_create_invoice: every element is validated first, against the      *)
(* stored nonces and against the rest of the batch. The length is not       *)
(* checked.                                                                 *)
batch_create_invoice(new) ==
  /\ ~paused
  /\ \A k \in DOMAIN new :
       /\ <<new[k].merchant, new[k].nonce>> \notin nonces
       /\ new[k].nonce # 0 => \A j \in DOMAIN new : j < k => new[j].nonce # new[k].nonce
  /\ create_invoice_record(new)
  /\ UNCHANGED <<settingVars, tokenVars, now>>

(***************************************************************************)
(* The life of an invoice.                                                 *)
(***************************************************************************)
(* An entry with its status moved on and the move appended to its history.  *)
Moved(inv, to) ==
  [inv EXCEPT !.status = to, !.history = Append(@, [from |-> inv.status, to |-> to])]

pending_index_remove(ids) == Only(pendingIndex, Ids \ ids)

(* Mutant: a full index still takes the payment's id.                       *)
UncappedPayerIndexAdd(payer, i) ==
  [payerIndex EXCEPT ![payer] = Append(@, i)]

(* payer_index_add: a full index drops the id, not the payment.             *)
payer_index_add(payer, i) ==
  IF Len(payerIndex[payer]) >= MAX_PAYER_INDEX_ENTRIES THEN payerIndex
  ELSE [payerIndex EXCEPT ![payer] = Append(@, i)]

(* Mutant: the payment's status is not checked.                             *)
MarkPaidAnyStatus(i, payer) ==
  /\ ~paused
  /\ payer # invoices[i].merchant
  /\ now < invoices[i].expires_at + graceWindow
  /\ invoices' = [invoices EXCEPT ![i] =
       [Moved(@, "Paid") EXCEPT !.paid_at = now, !.payer = payer]]
  /\ payerIndex' = payer_index_add(payer, i)
  /\ pendingIndex' = pending_index_remove({i})
  /\ UNCHANGED <<merchantIndex, nonces, settingVars, tokenVars, now>>

(* mark_paid: the admin records that the payer paid. The grace window in    *)
(* force now, not at creation, extends the deadline.                        *)
mark_paid(i, payer) ==
  /\ ~paused
  /\ invoices[i].status = "Pending"
  /\ payer # invoices[i].merchant
  /\ now < invoices[i].expires_at + graceWindow
  /\ invoices' = [invoices EXCEPT ![i] =
       [Moved(@, "Paid") EXCEPT !.paid_at = now, !.payer = payer]]
  /\ payerIndex' = payer_index_add(payer, i)
  /\ pendingIndex' = pending_index_remove({i})
  /\ UNCHANGED <<merchantIndex, nonces, settingVars, tokenVars, now>>

(* release_escrow records the release; no tokens move.                      *)
release_escrow(i) ==
  /\ ~paused
  /\ invoices[i].status = "Paid"
  /\ invoices' = [invoices EXCEPT ![i] = Moved(@, "Released")]
  /\ UNCHANGED <<indexVars, settingVars, tokenVars, now>>

(* Ending pending invoices, one or several at once.                         *)
Close(ids, to) ==
  /\ invoices' = [i \in Ids |-> IF i \in ids THEN Moved(invoices[i], to) ELSE invoices[i]]
  /\ pendingIndex' = pending_index_remove(ids)
  /\ UNCHANGED <<merchantIndex, payerIndex, nonces, settingVars, tokenVars, now>>

(* cancel_invoice, by the merchant or the admin.                            *)
cancel_invoice(i) ==
  /\ ~paused
  /\ invoices[i].status = "Pending"
  /\ Close({i}, "Cancelled")

(* batch_cancel_invoices: all of them pending and of one merchant, or none. *)
(* Every id is validated before any is written, so an id listed again       *)
(* passes too, and each time it is listed adds an entry to its history.     *)
batch_cancel_invoices(merchant, ids) ==
  LET entry == [from |-> "Pending", to |-> "Cancelled"]
      Times(i) == Cardinality({k \in DOMAIN ids : ids[k] = i})
  IN  /\ ~paused
      /\ Len(ids) <= MAX_BATCH_SIZE
      /\ \A i \in ToSet(ids) :
           /\ i \in Ids
           /\ invoices[i].merchant = merchant
           /\ invoices[i].status = "Pending"
      /\ invoices' = [i \in Ids |->
           IF i \in ToSet(ids)
           THEN [invoices[i] EXCEPT !.status = "Cancelled",
                                    !.history = @ \o [k \in 1 .. Times(i) |-> entry]]
           ELSE invoices[i]]
      /\ pendingIndex' = pending_index_remove(ToSet(ids))
      /\ UNCHANGED <<merchantIndex, payerIndex, nonces, settingVars, tokenVars, now>>

(* batch_expire: of the listed ids, those pending and past expires_at (the  *)
(* grace window does not count here); the rest are skipped, and so is an id *)
(* listed again, which is read anew and no longer pending. A list that is   *)
(* too long is refused as a whole.                                          *)
batch_expire(ids) ==
  /\ ~paused
  /\ Len(ids) <= MAX_BATCH_EXPIRE
  /\ Close({i \in ToSet(ids) \cap Ids : /\ invoices[i].status = "Pending"
                                        /\ now >= invoices[i].expires_at}, "Expired")

amend_invoice(i, price, lifetime) ==
  /\ ~paused
  /\ invoices[i].status = "Pending"
  /\ invoices' = [invoices EXCEPT ![i].price = price, ![i].expires_at = now + lifetime]
  /\ UNCHANGED <<indexVars, settingVars, tokenVars, now>>

(* extend_expiry works while paused.                                        *)
extend_expiry(i, seconds) ==
  /\ invoices[i].status = "Pending"
  /\ invoices[i].expires_at + seconds <= MaxExpiry
  /\ invoices' = [invoices EXCEPT ![i].expires_at = @ + seconds]
  /\ UNCHANGED <<indexVars, settingVars, tokenVars, now>>

(* transfer_invoice: the payer of a paid invoice assigns its claim; the     *)
(* payer index is not told, and the merchant is an admissible assignee.     *)
transfer_invoice(i, to) ==
  /\ ~paused
  /\ invoices[i].status = "Paid"
  /\ to # invoices[i].payer
  /\ invoices' = [invoices EXCEPT ![i].payer = to]
  /\ UNCHANGED <<indexVars, settingVars, tokenVars, now>>

(***************************************************************************)
(* Refunds.                                                                *)
(***************************************************************************)
(* The refund window runs from the payment; zero means no limit.            *)
request_refund(i) ==
  /\ ~paused
  /\ invoices[i].status = "Paid"
  /\ refundWindow > 0 => now < invoices[i].paid_at + refundWindow
  /\ Len(invoices[i].history) + 2 <= MaxTransitions
  /\ invoices' = [invoices EXCEPT ![i] = Moved(@, "RefundRequested")]
  /\ UNCHANGED <<indexVars, settingVars, tokenVars, now>>

verify_payment_state(inv) ==
  /\ inv.paid_at # None
  /\ inv.payer # None
  /\ 0 < inv.price.amount /\ inv.price.amount <= inv.price.gross

(* approve_refund records the decision; no tokens move.                     *)
approve_refund(i) ==
  /\ ~paused
  /\ invoices[i].status = "RefundRequested"
  /\ verify_payment_state(invoices[i])
  /\ invoices' = [invoices EXCEPT ![i] = Moved(@, "Refunded")]
  /\ UNCHANGED <<indexVars, settingVars, tokenVars, now>>

(* Mutant: the payer is paid but the invoice stays open for refunds.        *)
ProcessRefundWithoutStatus(i, bps) ==
  LET inv == invoices[i]
      refund == calculate_net_refund(inv.price.amount, bps, networkFee)
  IN  /\ ~paused
      /\ inv.status = "RefundRequested"
      /\ verify_payment_state(inv)
      /\ inv.token # None
      /\ refund.net_amount <= escrow
      /\ escrow' = escrow - refund.net_amount
      /\ received' = [received EXCEPT ![inv.payer] = @ + refund.net_amount]
      /\ invoices' = [invoices EXCEPT ![i].breakdown = refund]
      /\ UNCHANGED <<indexVars, settingVars, funded, now>>

(* process_refund: the token contract moves the net amount from the         *)
(* contract's own balance to the invoice's payer. A transfer that fails for *)
(* want of tokens ends the call before anything is written.                 *)
process_refund(i, bps) ==
  LET inv == invoices[i]
      refund == calculate_net_refund(inv.price.amount, bps, networkFee)
  IN  /\ ~paused
      /\ inv.status = "RefundRequested"
      /\ verify_payment_state(inv)
      /\ inv.token # None
      /\ refund.net_amount <= escrow
      /\ escrow' = escrow - refund.net_amount
      /\ received' = [received EXCEPT ![inv.payer] = @ + refund.net_amount]
      /\ invoices' = [invoices EXCEPT ![i] = [Moved(@, "Refunded") EXCEPT !.breakdown = refund]]
      /\ UNCHANGED <<indexVars, settingVars, funded, now>>

(* Mutant: the rejection is not written to the history.                     *)
RejectRefundUnlogged(i) ==
  /\ ~paused
  /\ invoices[i].status = "RefundRequested"
  /\ verify_payment_state(invoices[i])
  /\ invoices' = [invoices EXCEPT ![i].status = "Paid"]
  /\ UNCHANGED <<indexVars, settingVars, tokenVars, now>>

reject_refund(i) ==
  /\ ~paused
  /\ invoices[i].status = "RefundRequested"
  /\ verify_payment_state(invoices[i])
  /\ invoices' = [invoices EXCEPT ![i] = Moved(@, "Paid")]
  /\ UNCHANGED <<indexVars, settingVars, tokenVars, now>>

(* External: somebody sends the contract tokens; mark_paid moves none.      *)
fund_escrow(amount) ==
  /\ funded + amount <= MaxFunds
  /\ escrow' = escrow + amount
  /\ funded' = funded + amount
  /\ UNCHANGED <<invoices, indexVars, settingVars, received, now>>

(***************************************************************************)
(* Administration. The caps on open invoices and the late fee are stored   *)
(* and read by nothing but their getters; they are left out.               *)
(***************************************************************************)
set_grace_window(seconds) ==
  /\ graceWindow' = seconds
  /\ UNCHANGED <<invoices, indexVars, refundWindow, networkFee, paused, admin,
                 pendingAdmin, tokenVars, now>>

set_refund_window(seconds) ==
  /\ refundWindow' = seconds
  /\ UNCHANGED <<invoices, indexVars, graceWindow, networkFee, paused, admin,
                 pendingAdmin, tokenVars, now>>

set_refund_network_fee(fee) ==
  /\ networkFee' = fee
  /\ UNCHANGED <<invoices, indexVars, graceWindow, refundWindow, paused, admin,
                 pendingAdmin, tokenVars, now>>

set_paused(flag) ==
  /\ paused' = flag
  /\ UNCHANGED <<invoices, indexVars, graceWindow, refundWindow, networkFee, admin,
                 pendingAdmin, tokenVars, now>>

transfer_admin(nominee) ==
  /\ pendingAdmin' = nominee
  /\ UNCHANGED <<invoices, indexVars, graceWindow, refundWindow, networkFee, paused,
                 admin, tokenVars, now>>

accept_admin(new_admin) ==
  /\ pendingAdmin = new_admin
  /\ admin' = new_admin
  /\ pendingAdmin' = None
  /\ UNCHANGED <<invoices, indexVars, graceWindow, refundWindow, networkFee, paused,
                 tokenVars, now>>

Tick ==
  /\ now < MaxTime
  /\ now' = now + 1
  /\ UNCHANGED <<invoices, indexVars, settingVars, tokenVars>>

(* Lists of ids as callers pass them, repeated and unknown ones too, up to  *)
(* one more than max.                                                       *)
IdLists(max) == UNION {[1 .. n -> 1 .. MaxInvoices] : n \in 0 .. max + 1}

CreateNext ==
  \E m \in Merchants, p \in Prices, d \in Lifetimes, t \in Tokens :
    \/ \E n \in Nonces \cup {0} : create_invoice(m, p, d, n, t)
    \/ \E n1, n2 \in Nonces \cup {0} :
         batch_create_invoice(<<NewInvoice(m, p, d, n1, t), NewInvoice(m, p, d, n2, None)>>)

LifecycleNext ==
  \/ \E i \in Ids, a \in Accounts : mark_paid(i, a) \/ transfer_invoice(i, a)
  \/ \E i \in Ids : release_escrow(i) \/ cancel_invoice(i)
  \/ \E m \in Merchants, ids \in IdLists(MAX_BATCH_SIZE) : batch_cancel_invoices(m, ids)
  \/ \E ids \in IdLists(MAX_BATCH_EXPIRE) : batch_expire(ids)
  \/ \E i \in Ids, p \in Prices, d \in Lifetimes : amend_invoice(i, p, d)
  \/ \E i \in Ids, d \in Lifetimes : extend_expiry(i, d)

RefundNext ==
  \/ \E i \in Ids : request_refund(i) \/ approve_refund(i) \/ reject_refund(i)
  \/ \E i \in Ids, bps \in FeeBps : process_refund(i, bps)
  \/ \E p \in Prices : fund_escrow(p.amount)

AdminNext ==
  \/ \E w \in GraceWindows : set_grace_window(w)
  \/ \E w \in RefundWindows : set_refund_window(w)
  \/ \E f \in NetworkFees : set_refund_network_fee(f)
  \/ \E b \in BOOLEAN : set_paused(b)
  \/ \E a \in Nominees : transfer_admin(a) \/ accept_admin(a)

InvoiceNext == CreateNext \/ LifecycleNext \/ RefundNext \/ AdminNext \/ Tick

InvoiceSpec == InvoiceInit /\ [][InvoiceNext]_invoiceVars

(***************************************************************************)
(* Properties.                                                             *)
(***************************************************************************)
Transition == [from : Statuses, to : Statuses]
InvoiceRecord ==
  [merchant : Merchants, price : Prices, status : Statuses, expires_at : Nat,
   paid_at : Nat \cup {None}, payer : Accounts \cup {None}, nonce : Nonces \cup {0},
   token : Tokens \cup {None}, history : Seq(Transition), breakdown : NetRefund \cup {None}]

(* Every entry has its type, and no payer's index outgrows                 *)
(* MAX_PAYER_INDEX_ENTRIES (payer_index_add).                               *)
InvoiceTypeOK ==
  /\ invoices \in Seq(InvoiceRecord)
  /\ pendingIndex \in Seq(Ids)
  /\ merchantIndex \in [Merchants -> Seq(Ids)]
  /\ payerIndex \in [Accounts -> Seq(Ids)]
  /\ \A a \in Accounts : Len(payerIndex[a]) <= MAX_PAYER_INDEX_ENTRIES
  /\ nonces \subseteq Merchants \X Nonces
  /\ {graceWindow, refundWindow, networkFee, escrow, funded, now} \subseteq Nat
  /\ paused \in BOOLEAN
  /\ admin \in Admins /\ pendingAdmin \in Admins \cup {None}
  /\ received \in [Accounts -> Nat]

(* What the listings say agrees with the records, through single and batch  *)
(* creation, payment, cancels and expiry: the pending index holds exactly   *)
(* the invoices on which something is outstanding, each once and in order   *)
(* of creation; a merchant's index exactly its invoices; and no merchant    *)
(* nonce names two invoices.                                                *)
ListingsAgree ==
  /\ ListsInOrder(pendingIndex, {i \in Ids : outstanding_usdc(invoices[i]) > 0})
  /\ \A m \in Merchants :
       ListsInOrder(merchantIndex[m], {i \in Ids : invoices[i].merchant = m})
  /\ \A i, j \in Ids :
       /\ invoices[i].merchant = invoices[j].merchant
       /\ invoices[i].nonce = invoices[j].nonce
       /\ invoices[i].nonce # 0
       => i = j

(* The audit log replays to the current status and leaves no terminal       *)
(* status, except that batch_cancel_invoices logs the cancellation of an id *)
(* once more for each time the id is repeated in its list. The log shows a  *)
(* payment exactly for the invoices that carry one: nobody is recorded as   *)
(* payer of an invoice that never passed mark_paid.                         *)
HistoryReplays ==
  \A i \in Ids :
    LET inv == invoices[i]
        states == <<"Pending">> \o [k \in DOMAIN inv.history |-> inv.history[k].to]
    IN  /\ Last(states) = inv.status
        /\ \A k \in DOMAIN inv.history :
             \/ inv.history[k].from = states[k] /\ ~is_terminal(states[k])
             \/ /\ k > 1 /\ inv.history[k] = inv.history[k - 1]
                /\ inv.history[k] = [from |-> "Pending", to |-> "Cancelled"]
        /\ Contains(states, "Paid") <=> inv.payer # None
        /\ inv.payer # None <=> inv.paid_at # None

(* Refund money reconciles across the contract boundary: what left the      *)
(* escrow is what the payers of refunded invoices were paid, each invoice   *)
(* at most once and to the account holding the claim when it closed; a      *)
(* breakdown exists only on a Refunded invoice, its processing fee is the   *)
(* exact floor of the share, and it closes against the gross or nets to 0.  *)
RefundsReconcile ==
  LET paidOut == {i \in Ids : invoices[i].breakdown # None}
      net == [i \in paidOut |-> invoices[i].breakdown.net_amount]
  IN  /\ escrow + SumOver(received, Accounts) = funded
      /\ \A a \in Accounts :
           received[a] = SumOver(net, {i \in paidOut : invoices[i].payer = a})
      /\ \A i \in paidOut :
           LET b == invoices[i].breakdown
           IN  /\ invoices[i].status = "Refunded"
               /\ b.gross_amount = invoices[i].price.amount
               /\ \E bps \in FeeBps :
                    b.processing_fee = (b.gross_amount * bps) \div BPS_DENOMINATOR
               /\ \/ b.net_amount + b.processing_fee + b.network_fee = b.gross_amount
                  \/ /\ b.net_amount = 0
                     /\ b.processing_fee + b.network_fee > b.gross_amount

(* A released, refunded, expired or cancelled invoice is never written      *)
(* again: no late payment, second refund, transfer of the claim or amended  *)
(* amount.                                                                  *)
TerminalIsFinal ==
  [][\A i \in Ids : is_terminal(invoices[i].status) => invoices'[i] = invoices[i]]_invoices
=============================================================================
