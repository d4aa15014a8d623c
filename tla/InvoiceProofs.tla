---------------------------- MODULE InvoiceProofs ----------------------------
(***************************************************************************)
(* Proofs about the invoice contract and its templates: the life of an     *)
(* invoice and its audit log, the listings, the money of the refunds, and  *)
(* the schedule of the templates.                                          *)
(***************************************************************************)
EXTENDS InvoiceTemplates, AggregateProofs

(***************************************************************************)
(* The audit log of one invoice.                                           *)
(***************************************************************************)
(* The statuses the log says the invoice went through.                      *)
States(history) == <<"Pending">> \o [k \in DOMAIN history |-> history[k].to]

(* The entry batch_cancel_invoices makes, and may make again.               *)
Cancellation == [from |-> "Pending", to |-> "Cancelled"]

(* The k-th entry of a log leaves the status reached, which is not          *)
(* terminal, or repeats a cancellation.                                     *)
GoesOn(history, k) ==
  \/ history[k].from = States(history)[k] /\ ~is_terminal(States(history)[k])
  \/ k > 1 /\ history[k] = history[k - 1] /\ history[k] = Cancellation

(* What HistoryReplays says of one invoice.                                 *)
Replays(inv) ==
  LET n == Len(inv.history)
      states == States(inv.history)
  IN  /\ states[n + 1] = inv.status
      /\ \A k \in 1 .. n : GoesOn(inv.history, k)
      /\ (\E k \in 1 .. n + 1 : states[k] = "Paid") <=> inv.payer # None
      /\ inv.payer # None <=> inv.paid_at # None

(* The statuses, one by one: Pending, then what each entry moves to.        *)
LEMMA StatesAreLogged ==
  ASSUME NEW h \in Seq(Transition)
  PROVE  /\ Len(h) \in Nat /\ DOMAIN h = 1 .. Len(h)
         /\ States(h) \in Seq(Statuses) /\ Len(States(h)) = Len(h) + 1
         /\ States(h)[1] = "Pending"
         /\ \A k \in 1 .. Len(h) : States(h)[k + 1] = h[k].to
<1> DEFINE n == Len(h)
           tos == [k \in DOMAIN h |-> h[k].to]
<1>1. n \in Nat /\ DOMAIN h = 1 .. n /\ \A k \in 1 .. n : h[k] \in Transition
  BY ElementOfSeq
<1>2. "Pending" \in Statuses /\ \A k \in 1 .. n : h[k].to \in Statuses
  BY <1>1 DEF Statuses, Transition
<1>3. tos \in [1 .. n -> Statuses]
  BY <1>1, <1>2
<1>4. tos \in Seq(Statuses) /\ Len(tos) = n
  <2> HIDE DEF tos, n
  <2> QED
    BY <1>1, <1>3
<1>5. <<"Pending">> \in Seq(Statuses) /\ Len(<<"Pending">>) = 1 /\ <<"Pending">>[1] = "Pending"
  BY <1>2
<1>6. \A k \in 1 .. n : tos[k] = h[k].to
  BY <1>1
<1> DEFINE first == <<"Pending">>
<1>7. States(h) = first \o tos
  BY DEF States
<1> HIDE DEF tos, first, n
<1>8. /\ first \o tos \in Seq(Statuses) /\ Len(first \o tos) = 1 + n
      /\ \A k \in 1 .. 1 + n : (first \o tos)[k] = IF k <= 1 THEN first[k] ELSE tos[k - 1]
  BY <1>4, <1>5, ConcatProperties DEF first
<1>9. 1 \in 1 .. 1 + n /\ \A k \in 1 .. n : k + 1 \in 1 .. 1 + n /\ ~ (k + 1 <= 1) /\ (k + 1) - 1 = k
  BY <1>1
<1>10. (first \o tos)[1] = "Pending"
  BY <1>5, <1>8, <1>9 DEF first
<1>11. \A k \in 1 .. n : (first \o tos)[k + 1] = h[k].to
  BY <1>6, <1>8, <1>9
<1>12. Len(first \o tos) = n + 1
  BY <1>1, <1>8
<1> QED
  BY <1>1, <1>7, <1>8, <1>10, <1>11, <1>12 DEF n

(* One more entry in the log is one more status at the end.                 *)
LEMMA StatesGrow ==
  ASSUME NEW h \in Seq(Transition), NEW e \in Transition
  PROVE  /\ Append(h, e) \in Seq(Transition) /\ Len(Append(h, e)) = Len(h) + 1
         /\ States(Append(h, e))[Len(h) + 2] = e.to
         /\ \A k \in 1 .. Len(h) + 1 : States(Append(h, e))[k] = States(h)[k]
<1> DEFINE n == Len(h)
           new == Append(h, e)
<1>1. /\ new \in Seq(Transition) /\ Len(new) = n + 1 /\ new[n + 1] = e
      /\ \A k \in 1 .. n : new[k] = h[k]
  BY AppendProperties
<1> HIDE DEF new
<1>2. /\ n \in Nat /\ States(h)[1] = "Pending" /\ States(new)[1] = "Pending"
      /\ \A k \in 1 .. n : States(h)[k + 1] = h[k].to
  BY <1>1, StatesAreLogged
<1>3. \A k \in 1 .. n + 1 : States(new)[k + 1] = new[k].to
  BY <1>1, StatesAreLogged
<1> HIDE DEF n
<1>4. n + 1 \in 1 .. n + 1 /\ n + 2 = (n + 1) + 1
  BY <1>2
<1>5. States(new)[n + 2] = e.to
  BY <1>1, <1>3, <1>4
<1>6. ASSUME NEW k \in 1 .. n + 1 PROVE States(new)[k] = States(h)[k]
  <2>1. CASE k = 1
    BY <1>2, <2>1
  <2>2. CASE k # 1
    <3>1. k - 1 \in 1 .. n /\ k - 1 \in 1 .. n + 1 /\ (k - 1) + 1 = k
      BY <1>2, <2>2
    <3>2. States(h)[(k - 1) + 1] = h[k - 1].to /\ States(new)[(k - 1) + 1] = new[k - 1].to
          /\ new[k - 1] = h[k - 1]
      BY <1>1, <1>2, <1>3, <3>1
    <3> QED
      BY <3>1, <3>2
  <2> QED
    BY <2>1, <2>2
<1> QED
  BY <1>1, <1>5, <1>6 DEF n, new

(* An entry goes on in a longer log as it did in the shorter one.           *)
LEMMA SameEntryGoesOn ==
  ASSUME NEW h, NEW g, NEW n \in Nat, NEW k \in 1 .. n, GoesOn(h, k),
         \A j \in 1 .. n : g[j] = h[j] /\ States(g)[j] = States(h)[j]
  PROVE  GoesOn(g, k)
<1>1. CASE h[k].from = States(h)[k] /\ ~is_terminal(States(h)[k])
  BY <1>1 DEF GoesOn
<1>2. CASE k > 1 /\ h[k] = h[k - 1] /\ h[k] = Cancellation
  <2>1. k - 1 \in 1 .. n
    BY <1>2
  <2> QED
    BY <1>2, <2>1 DEF GoesOn
<1> QED
  BY <1>1, <1>2 DEF GoesOn

(* A logged move out of a status that is not terminal replays, if the       *)
(* payer and the time of payment are there exactly once the invoice was     *)
(* paid.                                                                    *)
LEMMA MovesReplay ==
  ASSUME NEW inv \in InvoiceRecord, Replays(inv), ~is_terminal(inv.status),
         NEW new \in InvoiceRecord,
         new.history = Append(inv.history, [from |-> inv.status, to |-> new.status]),
         new.payer # None <=> (inv.payer # None \/ new.status = "Paid"),
         new.payer # None <=> new.paid_at # None
  PROVE  Replays(new)
<1> DEFINE h == inv.history
           n == Len(h)
           e == [from |-> inv.status, to |-> new.status]
           g == new.history
<1>1. h \in Seq(Transition) /\ inv.status \in Statuses /\ new.status \in Statuses
  BY DEF InvoiceRecord
<1>2. e \in Transition /\ e.from = inv.status /\ e.to = new.status
  BY <1>1 DEF Transition
<1>3. n \in Nat
  BY <1>1, StatesAreLogged
<1>4. g = Append(h, e)
  OBVIOUS
<1>g. g[n + 1] = e /\ \A k \in 1 .. n : g[k] = h[k]
  BY <1>1, <1>2, <1>4, AppendProperties
<1> HIDE DEF e
<1>5. /\ g \in Seq(Transition) /\ Len(g) = n + 1
      /\ States(g)[n + 2] = new.status
      /\ \A k \in 1 .. n + 1 : States(g)[k] = States(h)[k]
  BY <1>1, <1>2, <1>4, StatesGrow
<1>6. /\ States(h)[n + 1] = inv.status
      /\ \A k \in 1 .. n : GoesOn(h, k)
      /\ (\E k \in 1 .. n + 1 : States(h)[k] = "Paid") <=> inv.payer # None
  BY DEF Replays
<1> HIDE DEF h, n, g
<1>7. States(g)[Len(g) + 1] = new.status
  <2>1. Len(g) + 1 = n + 2
    BY <1>3, <1>5
  <2> QED
    BY <1>5, <2>1
<1>8. ASSUME NEW k \in 1 .. n + 1 PROVE GoesOn(g, k)
  <2>1. k \in 1 .. n \/ k = n + 1
    BY <1>3
  <2>2. CASE k \in 1 .. n
    <3>1. \A j \in 1 .. n : j \in 1 .. n + 1
      BY <1>3
    <3>2. \A j \in 1 .. n : g[j] = h[j] /\ States(g)[j] = States(h)[j]
      BY <1>g, <1>5, <3>1
    <3>3. GoesOn(h, k)
      BY <1>6, <2>2
    <3> QED
      BY <1>3, <2>2, <3>2, <3>3, SameEntryGoesOn
  <2>3. CASE k = n + 1
    BY <1>g, <1>2, <1>5, <1>6, <2>3 DEF GoesOn
  <2> QED
    BY <2>1, <2>2, <2>3
<1>9. (\E k \in 1 .. (n + 1) + 1 : States(g)[k] = "Paid") <=> new.payer # None
  <2>1. \A k \in 1 .. (n + 1) + 1 : k \in 1 .. n + 1 \/ k = n + 2
    BY <1>3
  <2>2. n + 2 \in 1 .. (n + 1) + 1 /\ \A k \in 1 .. n + 1 : k \in 1 .. (n + 1) + 1
    BY <1>3
  <2>3. ASSUME NEW k \in 1 .. (n + 1) + 1, States(g)[k] = "Paid" PROVE new.payer # None
    BY <1>5, <1>6, <2>1, <2>3
  <2>4. ASSUME new.payer # None PROVE \E k \in 1 .. (n + 1) + 1 : States(g)[k] = "Paid"
    <3>1. CASE new.status = "Paid"
      BY <1>5, <2>2, <3>1
    <3>2. CASE inv.payer # None
      BY <1>5, <1>6, <2>2, <3>2
    <3> QED
      BY <2>4, <3>1, <3>2
  <2> QED
    BY <2>3, <2>4
<1> QED
  BY <1>5, <1>7, <1>8, <1>9 DEF Replays, g

(* A pending invoice cancelled by a batch that lists it m times replays.    *)
LEMMA CancellationsReplay ==
  ASSUME NEW inv \in InvoiceRecord, Replays(inv), inv.status = "Pending",
         NEW new \in InvoiceRecord, new.status = "Cancelled",
         new.payer = inv.payer, new.paid_at = inv.paid_at,
         NEW m \in Nat \ {0}, Len(new.history) = Len(inv.history) + m,
         \A k \in 1 .. Len(inv.history) + m :
           new.history[k] = IF k <= Len(inv.history) THEN inv.history[k] ELSE Cancellation
  PROVE  Replays(new)
<1> DEFINE h == inv.history
           n == Len(h)
           g == new.history
<1>1. h \in Seq(Transition) /\ g \in Seq(Transition)
  BY DEF InvoiceRecord
<1>2. /\ n \in Nat /\ States(h)[1] = "Pending"
      /\ \A k \in 1 .. n : States(h)[k + 1] = h[k].to
  BY <1>1, StatesAreLogged
<1>3. States(g)[1] = "Pending" /\ \A k \in 1 .. Len(g) : States(g)[k + 1] = g[k].to
  BY <1>1, StatesAreLogged
<1>4. /\ States(h)[n + 1] = "Pending"
      /\ \A k \in 1 .. n : GoesOn(h, k)
      /\ (\E k \in 1 .. n + 1 : States(h)[k] = "Paid") <=> inv.payer # None
      /\ inv.payer # None <=> inv.paid_at # None
  BY DEF Replays
<1>5. Len(g) = n + m /\ \A k \in 1 .. n + m : g[k] = IF k <= n THEN h[k] ELSE Cancellation
  OBVIOUS
<1> HIDE DEF h, n, g
<1>6. \A k \in 1 .. n : k \in 1 .. n + m /\ k \in 1 .. n + 1 /\ k <= n
  BY <1>2
<1>7. ASSUME NEW k \in 1 .. n + 1 PROVE States(g)[k] = States(h)[k]
  <2>1. CASE k = 1
    BY <1>2, <1>3, <2>1
  <2>2. CASE k # 1
    <3>1. k - 1 \in 1 .. n /\ (k - 1) + 1 = k
      BY <1>2, <2>2
    <3>2. States(g)[(k - 1) + 1] = g[k - 1].to /\ States(h)[(k - 1) + 1] = h[k - 1].to
          /\ g[k - 1] = h[k - 1]
      BY <1>2, <1>3, <1>5, <1>6, <3>1
    <3> QED
      BY <3>1, <3>2
  <2> QED
    BY <2>1, <2>2
<1>8. ASSUME NEW k \in (n + 1) .. (n + m)
      PROVE  /\ k \in 1 .. n + m /\ g[k] = Cancellation /\ States(g)[k + 1] = "Cancelled"
  <2>1. k \in 1 .. n + m /\ ~ (k <= n)
    BY <1>2
  <2>2. g[k] = Cancellation
    BY <1>5, <2>1
  <2> QED
    BY <1>3, <1>5, <2>1, <2>2 DEF Cancellation
<1>9. States(g)[Len(g) + 1] = new.status
  <2>1. n + m \in (n + 1) .. (n + m)
    BY <1>2
  <2> QED
    BY <1>5, <1>8, <2>1
<1>10. ASSUME NEW k \in 1 .. n + m PROVE GoesOn(g, k)
  <2>1. CASE k \in 1 .. n
    <3>1. \A j \in 1 .. n : g[j] = h[j] /\ States(g)[j] = States(h)[j]
      BY <1>5, <1>6, <1>7
    <3>2. GoesOn(h, k)
      BY <1>4, <2>1
    <3>3. n \in Nat
      BY <1>2
    <3> QED
      BY <2>1, <3>1, <3>2, <3>3, SameEntryGoesOn
  <2>2. CASE k = n + 1
    <3>1. n + 1 \in (n + 1) .. (n + m) /\ n + 1 \in 1 .. n + 1
      BY <1>2
    <3>2. g[k] = Cancellation /\ States(g)[k] = "Pending"
      BY <1>4, <1>7, <1>8, <2>2, <3>1
    <3> QED
      BY <3>2 DEF GoesOn, Cancellation, is_terminal
  <2>3. CASE k > n + 1
    <3>1. k \in (n + 1) .. (n + m) /\ k - 1 \in (n + 1) .. (n + m) /\ k > 1
      BY <1>2, <2>3
    <3>2. g[k] = Cancellation /\ g[k - 1] = Cancellation
      BY <1>8, <3>1
    <3> QED
      BY <3>1, <3>2 DEF GoesOn
  <2>4. k \in 1 .. n \/ k = n + 1 \/ k > n + 1
    BY <1>2
  <2> QED
    BY <2>1, <2>2, <2>3, <2>4
<1>11. (\E k \in 1 .. (n + m) + 1 : States(g)[k] = "Paid") <=> new.payer # None
  <2>1. ASSUME NEW k \in 1 .. (n + m) + 1
        PROVE  k \in 1 .. n + 1 \/ (k - 1 \in (n + 1) .. (n + m) /\ (k - 1) + 1 = k)
    BY <1>2
  <2>2. \A k \in 1 .. n + 1 : k \in 1 .. (n + m) + 1
    BY <1>2
  <2>3. ASSUME NEW k \in 1 .. (n + m) + 1, States(g)[k] = "Paid" PROVE inv.payer # None
    <3>1. CASE k \in 1 .. n + 1
      BY <1>4, <1>7, <2>3, <3>1
    <3>2. CASE k - 1 \in (n + 1) .. (n + m) /\ (k - 1) + 1 = k
      <4>1. States(g)[(k - 1) + 1] = "Cancelled"
        BY <1>8, <3>2
      <4> QED
        BY <2>3, <3>2, <4>1
    <3> QED
      BY <2>1, <3>1, <3>2
  <2>4. ASSUME inv.payer # None PROVE \E k \in 1 .. (n + m) + 1 : States(g)[k] = "Paid"
    BY <1>4, <1>7, <2>2, <2>4
  <2> QED
    BY <2>3, <2>4
<1> QED
  BY <1>4, <1>5, <1>9, <1>10, <1>11 DEF Replays, g

(* HistoryReplays, invoice by invoice.                                      *)
LEMMA HistoryReplaysEach ==
  ASSUME invoices \in Seq(InvoiceRecord)
  PROVE  HistoryReplays <=> \A i \in Ids : Replays(invoices[i])
<1>1. ASSUME NEW i \in Ids
      PROVE  LET inv == invoices[i]
                 states == <<"Pending">> \o [k \in DOMAIN inv.history |-> inv.history[k].to]
             IN  (/\ Last(states) = inv.status
                  /\ \A k \in DOMAIN inv.history :
                       \/ inv.history[k].from = states[k] /\ ~is_terminal(states[k])
                       \/ /\ k > 1 /\ inv.history[k] = inv.history[k - 1]
                          /\ inv.history[k] = [from |-> "Pending", to |-> "Cancelled"]
                  /\ Contains(states, "Paid") <=> inv.payer # None
                  /\ inv.payer # None <=> inv.paid_at # None) <=> Replays(inv)
  <2> DEFINE h == invoices[i].history
             n == Len(h)
             states == States(h)
  <2>1. h \in Seq(Transition)
    <3>1. invoices[i] \in InvoiceRecord
      BY ElementOfSeq DEF Ids
    <3> QED
      BY <3>1 DEF InvoiceRecord
  <2>2. /\ n \in Nat /\ DOMAIN h = 1 .. n
        /\ states \in Seq(Statuses) /\ Len(states) = n + 1
    BY <2>1, StatesAreLogged
  <2>3. Last(states) = states[n + 1]
    BY <2>2 DEF Last
  <2>4. Contains(states, "Paid") <=> \E k \in 1 .. n + 1 : states[k] = "Paid"
    BY <2>2 DEF Contains
  <2>5. states = <<"Pending">> \o [k \in DOMAIN h |-> h[k].to]
    BY DEF States
  <2>6. \A k \in 1 .. n : GoesOn(h, k) <=>
          \/ h[k].from = states[k] /\ ~is_terminal(states[k])
          \/ /\ k > 1 /\ h[k] = h[k - 1]
             /\ h[k] = [from |-> "Pending", to |-> "Cancelled"]
    BY DEF GoesOn, Cancellation
  <2> HIDE DEF states, n
  <2> QED
    BY <2>2, <2>3, <2>4, <2>5, <2>6 DEF Replays, states, n
<1> QED
  BY <1>1 DEF HistoryReplays

(***************************************************************************)
(* What the operations on existing invoices have in common.                *)
(***************************************************************************)
(* A record before and after an operation.                                  *)
Advance(old, new) ==
  \/ new = old
  \/ /\ ~is_terminal(old.status)
     /\ new.merchant = old.merchant /\ new.nonce = old.nonce
     /\ Replays(new)

Revised ==
  /\ invoices' \in Seq(InvoiceRecord)
  /\ DOMAIN invoices' = Ids
  /\ \A i \in Ids : Advance(invoices[i], invoices'[i])

(* The invoices in ids stop being pending, and only these leave the index.  *)
Delisted(ids) ==
  /\ \A i \in Ids : invoices'[i].status = "Pending" <=> invoices[i].status = "Pending" /\ i \notin ids
  /\ \/ pendingIndex' = Only(pendingIndex, Ids \ ids)
     \/ ids = {} /\ pendingIndex' = pendingIndex

(* No money moves and no refund is recorded.                                *)
Quiet ==
  /\ UNCHANGED tokenVars
  /\ \A i \in Ids : invoices'[i].breakdown = invoices[i].breakdown

(* An operation on existing invoices.                                       *)
Operation ==
  /\ Revised
  /\ \E ids \in SUBSET Ids : Delisted(ids)
  /\ UNCHANGED <<merchantIndex, nonces, settingVars, now>>

(* What the proofs need to know of the records before an operation.         *)
RecordsOK ==
  /\ invoices \in Seq(InvoiceRecord)
  /\ \A i \in Ids : Replays(invoices[i])
  /\ now \in Nat

(* Prices, lifetimes and the None of an Option, from InvoiceAssumption.     *)
LEMMA InvoiceConstants ==
  /\ None \notin Accounts /\ None \notin Nat /\ None \notin NetRefund /\ None \notin Admins
  /\ \A p \in Prices : p.amount \in Nat /\ p.gross \in Nat /\ 0 < p.amount /\ p.amount <= p.gross
  /\ Lifetimes \subseteq Nat
  /\ IsFiniteSet(Accounts)
<1>1. None \notin Accounts /\ None \notin Nat /\ None \notin NetRefund /\ None \notin Admins
      /\ IsFiniteSet(Accounts)
  BY InvoiceAssumption
<1>2. Prices \subseteq [amount : Nat \ {0}, gross : Nat \ {0}] /\ \A p \in Prices : p.amount <= p.gross
  BY InvoiceAssumption
<1>3. \A p \in Prices : p.amount \in Nat /\ p.gross \in Nat /\ 0 < p.amount
  BY <1>2
<1>4. Lifetimes \subseteq Nat
  BY InvoiceAssumption
<1> QED
  BY <1>1, <1>2, <1>3, <1>4

(* One record replaced.                                                     *)
LEMMA ReviseOne ==
  ASSUME RecordsOK, NEW i \in Ids, NEW r \in InvoiceRecord,
         invoices' = [invoices EXCEPT ![i] = r],
         ~is_terminal(invoices[i].status),
         r.merchant = invoices[i].merchant, r.nonce = invoices[i].nonce, Replays(r)
  PROVE  /\ Revised
         /\ invoices'[i] = r /\ \A j \in Ids \ {i} : invoices'[j] = invoices[j]
<1>1. invoices' \in Seq(InvoiceRecord) /\ DOMAIN invoices' = Ids
  BY ExceptSeq DEF RecordsOK, Ids
<1>2. invoices'[i] = r /\ \A j \in Ids \ {i} : invoices'[j] = invoices[j]
  BY DEF Ids
<1> QED
  BY <1>1, <1>2 DEF Revised, Advance

(* A record moved to another status.                                        *)
LEMMA MovedRecord ==
  ASSUME NEW inv \in InvoiceRecord, NEW to \in Statuses
  PROVE  /\ Moved(inv, to) \in InvoiceRecord
         /\ Moved(inv, to).status = to
         /\ Moved(inv, to).history = Append(inv.history, [from |-> inv.status, to |-> to])
         /\ Moved(inv, to).merchant = inv.merchant /\ Moved(inv, to).nonce = inv.nonce
         /\ Moved(inv, to).payer = inv.payer /\ Moved(inv, to).paid_at = inv.paid_at
         /\ Moved(inv, to).breakdown = inv.breakdown /\ Moved(inv, to).price = inv.price
<1>1. inv.history \in Seq(Transition) /\ inv.status \in Statuses
  BY DEF InvoiceRecord
<1>2. [from |-> inv.status, to |-> to] \in Transition
  BY <1>1 DEF Transition
<1> DEFINE h == Append(inv.history, [from |-> inv.status, to |-> to])
<1>3. h \in Seq(Transition)
  BY <1>1, <1>2, AppendProperties
<1>4. Moved(inv, to) = [inv EXCEPT !.status = to, !.history = h]
  BY DEF Moved
<1> HIDE DEF h
<1>5. /\ Moved(inv, to) \in InvoiceRecord
      /\ Moved(inv, to).status = to /\ Moved(inv, to).history = h
      /\ Moved(inv, to).merchant = inv.merchant /\ Moved(inv, to).nonce = inv.nonce
      /\ Moved(inv, to).payer = inv.payer /\ Moved(inv, to).paid_at = inv.paid_at
      /\ Moved(inv, to).breakdown = inv.breakdown /\ Moved(inv, to).price = inv.price
  BY <1>3, <1>4 DEF InvoiceRecord
<1> QED
  BY <1>5 DEF h

(* Moving a paid invoice, or one whose refund is pending, along.            *)
LEMMA MoveOn ==
  ASSUME RecordsOK, NEW i \in Ids, NEW to \in Statuses \ {"Pending"},
         invoices[i].status \in {"Paid", "RefundRequested"},
         to = "Paid" => invoices[i].payer # None,
         invoices' = [invoices EXCEPT ![i] = Moved(@, to)],
         UNCHANGED <<indexVars, settingVars, tokenVars, now>>
  PROVE  Operation /\ Quiet
<1> DEFINE inv == invoices[i]
           r == Moved(inv, to)
<1>1. inv \in InvoiceRecord /\ Replays(inv) /\ ~is_terminal(inv.status)
  BY ElementOfSeq DEF RecordsOK, Ids, is_terminal
<1>2. /\ r \in InvoiceRecord /\ r.status = to
      /\ r.history = Append(inv.history, [from |-> inv.status, to |-> to])
      /\ r.merchant = inv.merchant /\ r.nonce = inv.nonce
      /\ r.payer = inv.payer /\ r.paid_at = inv.paid_at /\ r.breakdown = inv.breakdown
  BY <1>1, MovedRecord
<1>3. invoices' = [invoices EXCEPT ![i] = r]
  OBVIOUS
<1> HIDE DEF r
<1>4. inv.payer # None <=> inv.paid_at # None
  BY <1>1 DEF Replays
<1>5. Replays(r)
  BY <1>1, <1>2, <1>4, MovesReplay
<1>6. Revised /\ invoices'[i] = r /\ \A j \in Ids \ {i} : invoices'[j] = invoices[j]
  BY <1>1, <1>2, <1>3, <1>5, ReviseOne
<1>7. Delisted({})
  <2>1. invoices[i].status # "Pending" /\ r.status # "Pending"
    BY <1>2
  <2> QED
    BY <1>6, <2>1 DEF Delisted, indexVars
<1> QED
  BY <1>2, <1>6, <1>7 DEF Operation, Quiet, indexVars

(* A record changed while its status, its log and its payment stay.         *)
LEMMA ReviseInPlace ==
  ASSUME RecordsOK, NEW i \in Ids, NEW r \in InvoiceRecord,
         invoices[i].status \in {"Pending", "Paid"},
         r.merchant = invoices[i].merchant, r.nonce = invoices[i].nonce,
         r.status = invoices[i].status, r.history = invoices[i].history,
         r.breakdown = invoices[i].breakdown, r.paid_at = invoices[i].paid_at,
         r.payer # None <=> invoices[i].payer # None,
         invoices' = [invoices EXCEPT ![i] = r],
         UNCHANGED <<indexVars, settingVars, tokenVars, now>>
  PROVE  Operation /\ Quiet
<1>1. ~is_terminal(invoices[i].status) /\ Replays(invoices[i])
  BY DEF is_terminal, RecordsOK
<1>2. Replays(r)
  BY <1>1 DEF Replays
<1>3. Revised /\ invoices'[i] = r /\ \A j \in Ids \ {i} : invoices'[j] = invoices[j]
  BY <1>1, <1>2, ReviseOne
<1>4. Delisted({})
  BY <1>3 DEF Delisted, indexVars
<1> QED
  BY <1>3, <1>4 DEF Operation, Quiet, indexVars

(* mark_paid delists what it pays.                                          *)
LEMMA MarkPaidStep ==
  ASSUME RecordsOK, NEW i \in Ids, NEW payer \in Accounts, mark_paid(i, payer)
  PROVE  Operation /\ Quiet
<1> DEFINE inv == invoices[i]
           m == Moved(inv, "Paid")
           r == [m EXCEPT !.paid_at = now, !.payer = payer]
<1>1. /\ inv \in InvoiceRecord /\ Replays(inv) /\ inv.status = "Pending" /\ now \in Nat
      /\ ~is_terminal(inv.status)
  BY ElementOfSeq DEF RecordsOK, Ids, is_terminal, mark_paid
<1>2. /\ m \in InvoiceRecord /\ m.status = "Paid"
      /\ m.history = Append(inv.history, [from |-> inv.status, to |-> "Paid"])
      /\ m.merchant = inv.merchant /\ m.nonce = inv.nonce /\ m.breakdown = inv.breakdown
  BY <1>1, MovedRecord DEF Statuses
<1>3. invoices' = [invoices EXCEPT ![i] = r]
  BY DEF mark_paid
<1> HIDE DEF m
<1>4. /\ r \in InvoiceRecord /\ r.status = "Paid" /\ r.history = m.history
      /\ r.merchant = inv.merchant /\ r.nonce = inv.nonce /\ r.breakdown = inv.breakdown
      /\ r.payer = payer /\ r.paid_at = now
  BY <1>1, <1>2 DEF InvoiceRecord
<1> HIDE DEF r
<1>5. r.payer # None /\ r.paid_at # None
  BY <1>1, <1>4, InvoiceConstants
<1>6. Replays(r)
  BY <1>1, <1>2, <1>4, <1>5, MovesReplay
<1>7. Revised /\ invoices'[i] = r /\ \A j \in Ids \ {i} : invoices'[j] = invoices[j]
  BY <1>1, <1>3, <1>4, <1>6, ReviseOne
<1>8. Delisted({i})
  <2>1. pendingIndex' = Only(pendingIndex, Ids \ {i})
    BY DEF mark_paid, pending_index_remove
  <2> QED
    BY <1>1, <1>4, <1>7, <2>1 DEF Delisted
<1>9. UNCHANGED <<merchantIndex, nonces, settingVars, tokenVars, now>>
  BY DEF mark_paid
<1> QED
  BY <1>4, <1>7, <1>8, <1>9 DEF Operation, Quiet

(* Closing any set of pending invoices.                                     *)
LEMMA CloseStep ==
  ASSUME RecordsOK, NEW ids \in SUBSET Ids, NEW to \in {"Cancelled", "Expired"},
         \A i \in ids : invoices[i].status = "Pending", Close(ids, to)
  PROVE  Operation /\ Quiet
<1>1. \A i \in Ids : invoices[i] \in InvoiceRecord /\ Replays(invoices[i])
  BY ElementOfSeq DEF RecordsOK, Ids
<1>2. Ids = 1 .. Len(invoices) /\ Len(invoices) \in Nat
  BY DEF RecordsOK, Ids
<1>3. /\ DOMAIN invoices' = Ids
      /\ \A i \in Ids : invoices'[i] = IF i \in ids THEN Moved(invoices[i], to) ELSE invoices[i]
  BY DEF Close
<1>4. ASSUME NEW i \in ids
      PROVE  /\ invoices'[i] \in InvoiceRecord /\ invoices'[i].status = to
             /\ Advance(invoices[i], invoices'[i])
             /\ invoices'[i].breakdown = invoices[i].breakdown
  <2> DEFINE inv == invoices[i]
             r == Moved(inv, to)
  <2>1. /\ inv \in InvoiceRecord /\ Replays(inv) /\ inv.status = "Pending"
        /\ ~is_terminal(inv.status)
    BY <1>1 DEF is_terminal
  <2>2. /\ r \in InvoiceRecord /\ r.status = to
        /\ r.history = Append(inv.history, [from |-> inv.status, to |-> to])
        /\ r.merchant = inv.merchant /\ r.nonce = inv.nonce /\ r.breakdown = inv.breakdown
        /\ r.payer = inv.payer /\ r.paid_at = inv.paid_at
    <3>1. to \in Statuses
      BY DEF Statuses
    <3> QED
      BY <2>1, <3>1, MovedRecord
  <2>3. invoices'[i] = r
    BY <1>3
  <2> HIDE DEF r
  <2>4. r.payer # None <=> r.paid_at # None
    BY <2>1, <2>2 DEF Replays
  <2>5. Replays(r)
    BY <2>1, <2>2, <2>4, MovesReplay
  <2> QED
    BY <2>1, <2>2, <2>3, <2>5 DEF Advance
<1>5. \A i \in Ids : invoices'[i] \in InvoiceRecord /\ Advance(invoices[i], invoices'[i])
  BY <1>1, <1>3, <1>4 DEF Advance
<1>6. invoices' \in Seq(InvoiceRecord)
  <2> DEFINE g == [i \in Ids |-> IF i \in ids THEN Moved(invoices[i], to) ELSE invoices[i]]
  <2>1. invoices' = g
    BY DEF Close
  <2>2. \A i \in Ids : g[i] \in InvoiceRecord
    <3> HIDE DEF g
    <3> QED
      BY <1>5, <2>1
  <2>3. g \in [Ids -> InvoiceRecord]
    BY <2>2
  <2> HIDE DEF g
  <2>4. g \in [1 .. Len(invoices) -> InvoiceRecord]
    BY <1>2, <2>3
  <2> QED
    BY <1>2, <2>1, <2>4
<1>7. Delisted(ids)
  <2>1. pendingIndex' = Only(pendingIndex, Ids \ ids)
    BY DEF Close, pending_index_remove
  <2> QED
    BY <1>3, <1>4, <2>1 DEF Delisted
<1>8. Quiet
  BY <1>3, <1>4 DEF Quiet, Close
<1> QED
  BY <1>3, <1>5, <1>6, <1>7, <1>8 DEF Operation, Revised, Close

(* What batch_cancel_invoices makes of a record it lists m times.           *)
CancelledRecord(inv, m) ==
  [inv EXCEPT !.status = "Cancelled", !.history = @ \o [k \in 1 .. m |-> Cancellation]]

LEMMA CancelledRecords ==
  ASSUME NEW inv \in InvoiceRecord, Replays(inv), inv.status = "Pending",
         NEW m \in Nat \ {0}
  PROVE  /\ CancelledRecord(inv, m) \in InvoiceRecord
         /\ CancelledRecord(inv, m).status = "Cancelled"
         /\ CancelledRecord(inv, m).breakdown = inv.breakdown
         /\ Advance(inv, CancelledRecord(inv, m))
<1> DEFINE h == inv.history
           more == [k \in 1 .. m |-> Cancellation]
           g == h \o more
           r == [inv EXCEPT !.status = "Cancelled", !.history = g]
<1>1. h \in Seq(Transition) /\ "Cancelled" \in Statuses /\ ~is_terminal(inv.status)
  BY DEF InvoiceRecord, Statuses, is_terminal
<1>2. Cancellation \in Transition
  BY DEF Cancellation, Transition, Statuses
<1>3. more \in Seq(Transition) /\ Len(more) = m /\ \A k \in 1 .. m : more[k] = Cancellation
  BY <1>2
<1>4. Len(h) \in Nat
  BY <1>1
<1>5. CancelledRecord(inv, m) = r
  BY DEF CancelledRecord
<1> HIDE DEF more
<1>6. /\ g \in Seq(Transition) /\ Len(g) = Len(h) + m
      /\ \A k \in 1 .. Len(h) + m : g[k] = IF k <= Len(h) THEN h[k] ELSE more[k - Len(h)]
  <2>1. h \in Seq(Transition) /\ more \in Seq(Transition) /\ Len(more) = m
    BY <1>1, <1>3
  <2> HIDE DEF h
  <2> QED
    BY <2>1, ConcatProperties
<1>7. \A k \in 1 .. Len(h) + m : g[k] = IF k <= Len(h) THEN h[k] ELSE Cancellation
  <2>1. ASSUME NEW k \in 1 .. Len(h) + m, ~ (k <= Len(h)) PROVE k - Len(h) \in 1 .. m
    BY <1>4, <2>1
  <2> QED
    BY <1>3, <1>6, <2>1
<1> HIDE DEF g
<1>8. /\ r \in InvoiceRecord /\ r.status = "Cancelled" /\ r.history = g
      /\ r.merchant = inv.merchant /\ r.nonce = inv.nonce /\ r.breakdown = inv.breakdown
      /\ r.payer = inv.payer /\ r.paid_at = inv.paid_at
  BY <1>1, <1>6 DEF InvoiceRecord
<1> HIDE DEF r
<1>9. Len(r.history) = Len(inv.history) + m
  BY <1>6, <1>8
<1>10. \A k \in 1 .. Len(inv.history) + m :
         r.history[k] = IF k <= Len(inv.history) THEN inv.history[k] ELSE Cancellation
  BY <1>7, <1>8
<1>11. Replays(r)
  BY <1>8, <1>9, <1>10, CancellationsReplay
<1> QED
  BY <1>1, <1>5, <1>8, <1>11 DEF Advance

(* batch_cancel_invoices, whatever list it is given.                        *)
LEMMA BatchCancelStep ==
  ASSUME RecordsOK, NEW m, NEW list, list \in Seq(Nat), batch_cancel_invoices(m, list)
  PROVE  Operation /\ Quiet
<1> DEFINE ids == ToSet(list)
           Times(i) == Cardinality({k \in DOMAIN list : list[k] = i})
           g == [i \in Ids |-> IF i \in ids THEN CancelledRecord(invoices[i], Times(i))
                               ELSE invoices[i]]
<1>1. \A i \in Ids : invoices[i] \in InvoiceRecord /\ Replays(invoices[i])
  BY ElementOfSeq DEF RecordsOK, Ids
<1>2. Ids = 1 .. Len(invoices) /\ Len(invoices) \in Nat
  BY DEF RecordsOK, Ids
<1>3. \A i \in ids : i \in Ids /\ invoices[i].status = "Pending"
  BY DEF batch_cancel_invoices
<1>4. invoices' = g /\ pendingIndex' = Only(pendingIndex, Ids \ ids)
  BY DEF batch_cancel_invoices, pending_index_remove, CancelledRecord, Cancellation
<1>5. ASSUME NEW i \in ids PROVE Times(i) \in Nat \ {0}
  <2> DEFINE at == {k \in DOMAIN list : list[k] = i}
  <2>1. DOMAIN list = 1 .. Len(list) /\ Len(list) \in Nat
    OBVIOUS
  <2>2. IsFiniteSet(1 .. Len(list)) /\ at \subseteq 1 .. Len(list)
    BY <2>1, FS_Interval
  <2>3. IsFiniteSet(at)
    BY <2>2, FS_Subset
  <2>4. PICK k \in DOMAIN list : list[k] = i
    BY DEF ToSet
  <2>5. at # {}
    BY <2>4
  <2> HIDE DEF at
  <2>6. Cardinality(at) \in Nat /\ Cardinality(at) # 0
    BY <2>3, <2>5, FS_CardinalityType, FS_EmptySet
  <2> QED
    BY <2>6 DEF at
<1> HIDE DEF ids, Times
<1>6. ASSUME NEW i \in Ids
      PROVE  /\ g[i] \in InvoiceRecord /\ Advance(invoices[i], g[i])
             /\ g[i].breakdown = invoices[i].breakdown
             /\ g[i].status = "Pending" <=> invoices[i].status = "Pending" /\ i \notin ids
  <2>1. CASE i \in ids
    <3>1. g[i] = CancelledRecord(invoices[i], Times(i))
      BY <2>1
    <3>2. invoices[i] \in InvoiceRecord /\ Replays(invoices[i])
          /\ invoices[i].status = "Pending" /\ Times(i) \in Nat \ {0}
      BY <1>1, <1>3, <1>5, <2>1
    <3> HIDE DEF g
    <3> QED
      BY <2>1, <3>1, <3>2, CancelledRecords
  <2>2. CASE i \notin ids
    <3>1. g[i] = invoices[i]
      BY <2>2
    <3> HIDE DEF g
    <3> QED
      BY <1>1, <2>2, <3>1 DEF Advance
  <2> QED
    BY <2>1, <2>2
<1>7. DOMAIN g = Ids /\ g \in [Ids -> InvoiceRecord]
  BY <1>6
<1> HIDE DEF g
<1>8. g \in Seq(InvoiceRecord)
  <2>1. g \in [1 .. Len(invoices) -> InvoiceRecord]
    BY <1>2, <1>7
  <2> QED
    BY <1>2, <2>1
<1>9. Revised
  BY <1>4, <1>6, <1>7, <1>8 DEF Revised
<1>10. Delisted(ids)
  BY <1>4, <1>6 DEF Delisted
<1>11. UNCHANGED <<merchantIndex, nonces, settingVars, tokenVars, now>>
  BY DEF batch_cancel_invoices
<1>12. ids \in SUBSET Ids
  BY <1>3
<1> QED
  BY <1>4, <1>6, <1>9, <1>10, <1>11, <1>12 DEF Operation, Quiet

(* amend_invoice keeps the status and the log.                              *)
LEMMA AmendStep ==
  ASSUME RecordsOK, NEW i \in Ids, NEW price \in Prices, NEW lifetime \in Lifetimes,
         amend_invoice(i, price, lifetime)
  PROVE  Operation /\ Quiet
<1> DEFINE r == [invoices[i] EXCEPT !.price = price, !.expires_at = now + lifetime]
<1>1. invoices[i] \in InvoiceRecord /\ invoices[i].status = "Pending" /\ now + lifetime \in Nat
  BY ElementOfSeq, InvoiceConstants DEF RecordsOK, Ids, amend_invoice
<1>2. invoices' = [invoices EXCEPT ![i] = r]
  BY DEF amend_invoice, Ids
<1>3. /\ r \in InvoiceRecord /\ r.merchant = invoices[i].merchant /\ r.nonce = invoices[i].nonce
      /\ r.status = invoices[i].status /\ r.history = invoices[i].history
      /\ r.breakdown = invoices[i].breakdown /\ r.paid_at = invoices[i].paid_at
      /\ r.payer = invoices[i].payer
  BY <1>1 DEF InvoiceRecord
<1> HIDE DEF r
<1> QED
  BY <1>1, <1>2, <1>3, ReviseInPlace DEF amend_invoice

(* extend_expiry keeps the status and the log.                              *)
LEMMA ExtendStep ==
  ASSUME RecordsOK, NEW i \in Ids, NEW seconds \in Lifetimes, extend_expiry(i, seconds)
  PROVE  Operation /\ Quiet
<1> DEFINE r == [invoices[i] EXCEPT !.expires_at = @ + seconds]
<1>1. invoices[i] \in InvoiceRecord /\ invoices[i].status = "Pending" /\ seconds \in Nat
  BY ElementOfSeq, InvoiceConstants DEF RecordsOK, Ids, extend_expiry
<1>2. invoices' = [invoices EXCEPT ![i] = r]
  BY DEF extend_expiry, Ids
<1>3. /\ r \in InvoiceRecord /\ r.merchant = invoices[i].merchant /\ r.nonce = invoices[i].nonce
      /\ r.status = invoices[i].status /\ r.history = invoices[i].history
      /\ r.breakdown = invoices[i].breakdown /\ r.paid_at = invoices[i].paid_at
      /\ r.payer = invoices[i].payer
  BY <1>1 DEF InvoiceRecord
<1> HIDE DEF r
<1> QED
  BY <1>1, <1>2, <1>3, ReviseInPlace DEF extend_expiry

(* transfer_invoice keeps the status and the log, and leaves a payer.       *)
LEMMA TransferStep ==
  ASSUME RecordsOK, NEW i \in Ids, NEW to \in Accounts, transfer_invoice(i, to)
  PROVE  Operation /\ Quiet
<1> DEFINE r == [invoices[i] EXCEPT !.payer = to]
<1>1. invoices[i] \in InvoiceRecord /\ invoices[i].status = "Paid" /\ Replays(invoices[i])
  BY ElementOfSeq DEF RecordsOK, Ids, transfer_invoice
<1>2. invoices' = [invoices EXCEPT ![i] = r]
  BY DEF transfer_invoice, Ids
<1>3. /\ r \in InvoiceRecord /\ r.merchant = invoices[i].merchant /\ r.nonce = invoices[i].nonce
      /\ r.status = invoices[i].status /\ r.history = invoices[i].history
      /\ r.breakdown = invoices[i].breakdown /\ r.paid_at = invoices[i].paid_at
      /\ r.payer = to
  BY <1>1 DEF InvoiceRecord
<1>4. to # None
  BY InvoiceConstants
<1>5. invoices[i].payer # None
  <2>1. Len(invoices[i].history) + 1 \in 1 .. Len(invoices[i].history) + 1
    <3>1. Len(invoices[i].history) \in Nat
      BY <1>1, StatesAreLogged DEF InvoiceRecord
    <3> QED
      BY <3>1
  <2> QED
    BY <1>1, <2>1 DEF Replays
<1> HIDE DEF r
<1> QED
  BY <1>1, <1>2, <1>3, <1>4, <1>5, ReviseInPlace DEF transfer_invoice

(***************************************************************************)
(* The money of the refunds.                                               *)
(***************************************************************************)
(* A multiple of the divisor adds its factor to the quotient.               *)
LEMMA DivShift ==
  ASSUME NEW p \in Nat, p > 0, NEW q \in Int, NEW x \in Int
  PROVE  (p * q + x) \div p = q + (x \div p)
OBVIOUS

(* The parts of a division.                                                 *)
LEMMA DivParts ==
  ASSUME NEW a \in Nat, NEW p \in Nat, p > 0
  PROVE  /\ a \div p \in Nat /\ a % p \in Nat
         /\ a = p * (a \div p) + (a % p)
OBVIOUS

(* What RefundsReconcile says of a refund's breakdown.                      *)
Exact(b) ==
  /\ \E bps \in FeeBps : b.processing_fee = (b.gross_amount * bps) \div BPS_DENOMINATOR
  /\ \/ b.net_amount + b.processing_fee + b.network_fee = b.gross_amount
     \/ b.net_amount = 0 /\ b.processing_fee + b.network_fee > b.gross_amount

(* calculate_net_refund computes the exact floor of the share although it   *)
(* never forms the product, and what it subtracts and pays adds up.         *)
LEMMA NetRefundIsExact ==
  ASSUME NEW gross \in Nat, NEW bps \in FeeBps, NEW fee \in Nat
  PROVE  /\ calculate_net_refund(gross, bps, fee) \in NetRefund
         /\ calculate_net_refund(gross, bps, fee).gross_amount = gross
         /\ Exact(calculate_net_refund(gross, bps, fee))
<1> DEFINE D == BPS_DENOMINATOR
           q == gross \div D
           m == gross % D
           share == q * bps + (m * bps) \div D
           network == IF fee > gross THEN gross ELSE fee
           left == gross - share - network
           b == calculate_net_refund(gross, bps, fee)
<1>1. D \in Nat /\ D > 0 /\ bps \in Nat
  <2>1. BPS_DENOMINATOR \in Nat \ {0} /\ FeeBps \subseteq 0 .. BPS_DENOMINATOR
    BY InvoiceAssumption
  <2> QED
    BY <2>1
<1>2. b = [gross_amount |-> gross, processing_fee |-> share, network_fee |-> network,
           net_amount |-> IF left < 0 THEN 0 ELSE left]
  BY DEF calculate_net_refund
<1> HIDE DEF D, b
<1>3. q \in Nat /\ m \in Nat /\ gross = D * q + m
  BY <1>1, DivParts
<1> HIDE DEF q, m
<1>4. q * bps \in Nat /\ m * bps \in Nat
  BY <1>1, <1>3
<1>5. (m * bps) \div D \in Nat
  BY <1>1, <1>4, DivParts
<1>6. gross * bps = D * (q * bps) + m * bps
  BY <1>1, <1>3
<1>7. (D * (q * bps) + m * bps) \div D = q * bps + (m * bps) \div D
  <2> DEFINE x == q * bps
             y == m * bps
  <2>1. x \in Int /\ y \in Int
    BY <1>4
  <2> HIDE DEF x, y
  <2>2. (D * x + y) \div D = x + (y \div D)
    BY <1>1, <2>1, DivShift
  <2> QED
    BY <2>2 DEF x, y
<1>8. (gross * bps) \div D = share
  BY <1>6, <1>7
<1>9. share \in Nat
  <2> DEFINE x == q * bps
             y == (m * bps) \div D
  <2>1. x \in Nat /\ y \in Nat
    BY <1>4, <1>5
  <2> HIDE DEF x, y
  <2>2. x + y \in Nat
    BY <2>1
  <2> QED
    BY <2>2 DEF x, y
<1> HIDE DEF share
<1>10. network \in Nat
  OBVIOUS
<1> HIDE DEF network
<1>11. b \in NetRefund /\ b.gross_amount = gross /\ b.processing_fee = share
       /\ b.network_fee = network /\ b.net_amount = IF left < 0 THEN 0 ELSE left
  BY <1>2, <1>9, <1>10 DEF NetRefund
<1>12. \/ b.net_amount + b.processing_fee + b.network_fee = b.gross_amount
       \/ b.net_amount = 0 /\ b.processing_fee + b.network_fee > b.gross_amount
  BY <1>9, <1>10, <1>11
<1>13. \E e \in FeeBps : b.processing_fee = (b.gross_amount * e) \div BPS_DENOMINATOR
  BY <1>8, <1>11 DEF D
<1> QED
  BY <1>11, <1>12, <1>13 DEF Exact, b

(* process_refund closes the invoice and records its breakdown.             *)
LEMMA ProcessStep ==
  ASSUME RecordsOK, networkFee \in Nat, NEW i \in Ids, NEW bps \in FeeBps, process_refund(i, bps)
  PROVE  /\ Operation
         /\ \A j \in Ids \ {i} : invoices'[j] = invoices[j]
         /\ invoices[i].status = "RefundRequested"
         /\ invoices'[i].status = "Refunded" /\ invoices'[i].payer = invoices[i].payer
         /\ invoices[i].payer \in Accounts
         /\ invoices'[i].breakdown \in NetRefund
         /\ invoices'[i].breakdown.gross_amount = invoices'[i].price.amount
         /\ Exact(invoices'[i].breakdown)
         /\ invoices'[i].breakdown.net_amount <= escrow
         /\ escrow' = escrow - invoices'[i].breakdown.net_amount
         /\ received' = [received EXCEPT ![invoices[i].payer] =
                           @ + invoices'[i].breakdown.net_amount]
         /\ funded' = funded /\ payerIndex' = payerIndex
<1> DEFINE inv == invoices[i]
           refund == calculate_net_refund(inv.price.amount, bps, networkFee)
           m == Moved(inv, "Refunded")
           r == [m EXCEPT !.breakdown = refund]
<1>1. /\ inv \in InvoiceRecord /\ Replays(inv) /\ inv.status = "RefundRequested"
      /\ ~is_terminal(inv.status)
  BY ElementOfSeq DEF RecordsOK, Ids, is_terminal, process_refund
<1>2. inv.payer \in Accounts /\ inv.price \in Prices
  BY <1>1 DEF process_refund, verify_payment_state, InvoiceRecord
<1>3. refund \in NetRefund /\ refund.gross_amount = inv.price.amount /\ Exact(refund)
  <2>1. inv.price.amount \in Nat
    BY <1>2, InvoiceConstants
  <2> QED
    BY <2>1, NetRefundIsExact
<1>4. invoices' = [invoices EXCEPT ![i] = r]
  BY DEF process_refund
<1>5. /\ refund.net_amount <= escrow /\ escrow' = escrow - refund.net_amount
      /\ received' = [received EXCEPT ![inv.payer] = @ + refund.net_amount]
      /\ UNCHANGED <<indexVars, settingVars, funded, now>>
  BY DEF process_refund
<1>6. /\ m \in InvoiceRecord /\ m.status = "Refunded"
      /\ m.history = Append(inv.history, [from |-> inv.status, to |-> "Refunded"])
      /\ m.merchant = inv.merchant /\ m.nonce = inv.nonce /\ m.price = inv.price
      /\ m.payer = inv.payer /\ m.paid_at = inv.paid_at
  BY <1>1, MovedRecord DEF Statuses
<1> HIDE DEF m, refund
<1>7. /\ r \in InvoiceRecord /\ r.status = "Refunded" /\ r.history = m.history
      /\ r.merchant = inv.merchant /\ r.nonce = inv.nonce /\ r.price = inv.price
      /\ r.payer = inv.payer /\ r.paid_at = inv.paid_at /\ r.breakdown = refund
  BY <1>3, <1>6 DEF InvoiceRecord
<1> HIDE DEF r
<1>8. r.payer # None <=> r.paid_at # None
  BY <1>1, <1>7 DEF Replays
<1>9. Replays(r)
  BY <1>1, <1>6, <1>7, <1>8, MovesReplay
<1>10. Revised /\ invoices'[i] = r /\ \A j \in Ids \ {i} : invoices'[j] = invoices[j]
  BY <1>1, <1>4, <1>7, <1>9, ReviseOne
<1>11. Delisted({})
  BY <1>1, <1>5, <1>7, <1>10 DEF Delisted, indexVars
<1>12. Operation
  BY <1>5, <1>10, <1>11 DEF Operation, indexVars
<1> QED
  BY <1>1, <1>2, <1>3, <1>5, <1>7, <1>10, <1>12 DEF indexVars

(***************************************************************************)
(* Every step is one of a few kinds.                                       *)
(***************************************************************************)
(* An invoice as its creation leaves it.                                    *)
Fresh(inv) ==
  /\ inv \in InvoiceRecord
  /\ inv.status = "Pending" /\ inv.history = <<>>
  /\ inv.payer = None /\ inv.paid_at = None /\ inv.breakdown = None

(* A creation.                                                              *)
Creation ==
  /\ UNCHANGED <<settingVars, tokenVars, now>>
  /\ \E new \in Seq(InvoiceRecord) :
       /\ create_invoice_record(new)
       /\ \A k \in DOMAIN new :
            /\ Fresh(new[k])
            /\ new[k].nonce # 0 =>
                 /\ <<new[k].merchant, new[k].nonce>> \notin nonces
                 /\ \A j \in DOMAIN new : new[j].nonce = new[k].nonce => j = k

(* The admin's settings or the ledger's clock change.                       *)
Setting ==
  /\ UNCHANGED <<invoices, indexVars, tokenVars>>
  /\ {graceWindow', refundWindow', networkFee', now'} \subseteq Nat
  /\ paused' \in BOOLEAN /\ admin' \in Admins /\ pendingAdmin' \in Admins \cup {None}
  /\ now' >= now

(* Tokens arrive at the contract.                                           *)
Funding ==
  /\ UNCHANGED <<invoices, indexVars, settingVars, received, now>>
  /\ \E amount \in Nat : escrow' = escrow + amount /\ funded' = funded + amount

(* mark_paid is the one operation that writes a payer's index.              *)
PayerIndexed ==
  \/ payerIndex' = payerIndex
  \/ \E a \in Accounts, i \in Ids : payerIndex' = payer_index_add(a, i)

(* The settings have their types.                                           *)
SettingsOK ==
  /\ {graceWindow, refundWindow, networkFee, now} \subseteq Nat
  /\ paused \in BOOLEAN /\ admin \in Admins /\ pendingAdmin \in Admins \cup {None}

(* A new invoice is fresh.                                                  *)
LEMMA NewInvoiceIsFresh ==
  ASSUME now \in Nat, NEW m \in Merchants, NEW p \in Prices, NEW d \in Lifetimes,
         NEW n \in Nonces \cup {0}, NEW t \in Tokens \cup {None}
  PROVE  /\ Fresh(NewInvoice(m, p, d, n, t))
         /\ NewInvoice(m, p, d, n, t).merchant = m /\ NewInvoice(m, p, d, n, t).nonce = n
<1> DEFINE h == <<>>
           inv == NewInvoice(m, p, d, n, t)
<1>1. now + d \in Nat /\ h \in Seq(Transition) /\ "Pending" \in Statuses
  BY InvoiceConstants DEF Statuses
<1>2. inv = [merchant |-> m, price |-> p, status |-> "Pending",
   expires_at |-> now + d, paid_at |-> None, payer |-> None,
   nonce |-> n, token |-> t, history |-> h, breakdown |-> None]
  BY DEF NewInvoice
<1> HIDE DEF h, inv
<1>3. /\ inv \in InvoiceRecord /\ inv.status = "Pending" /\ inv.history = h
      /\ inv.payer = None /\ inv.paid_at = None /\ inv.breakdown = None
      /\ inv.merchant = m /\ inv.nonce = n
  BY <1>1, <1>2 DEF InvoiceRecord
<1> QED
  BY <1>3 DEF Fresh, h, inv

(* create_invoice and batch_create_invoice are creations.                   *)
LEMMA CreateStep ==
  ASSUME RecordsOK, CreateNext
  PROVE  Creation
<1>1. PICK m \in Merchants, p \in Prices, d \in Lifetimes, t \in Tokens :
        \/ \E n \in Nonces \cup {0} : create_invoice(m, p, d, n, t)
        \/ \E n1, n2 \in Nonces \cup {0} :
             batch_create_invoice(<<NewInvoice(m, p, d, n1, t), NewInvoice(m, p, d, n2, None)>>)
  BY DEF CreateNext
<1>2. ASSUME NEW n \in Nonces \cup {0}, create_invoice(m, p, d, n, t) PROVE Creation
  <2> DEFINE inv == NewInvoice(m, p, d, n, t)
             new == <<inv>>
  <2>1. Fresh(inv) /\ inv.merchant = m /\ inv.nonce = n
    BY NewInvoiceIsFresh DEF RecordsOK
  <2>2. inv \in InvoiceRecord
    BY <2>1 DEF Fresh
  <2>3. <<m, n>> \notin nonces /\ create_invoice_record(new)
        /\ UNCHANGED <<settingVars, tokenVars, now>>
    BY <1>2 DEF create_invoice
  <2> HIDE DEF inv
  <2>4. new \in Seq(InvoiceRecord) /\ DOMAIN new = {1} /\ new[1] = inv
    BY <2>2
  <2> HIDE DEF new
  <2> QED
    BY <2>1, <2>3, <2>4 DEF Creation
<1>3. ASSUME NEW n1 \in Nonces \cup {0}, NEW n2 \in Nonces \cup {0},
             batch_create_invoice(<<NewInvoice(m, p, d, n1, t), NewInvoice(m, p, d, n2, None)>>)
      PROVE  Creation
  <2> DEFINE one == NewInvoice(m, p, d, n1, t)
             two == NewInvoice(m, p, d, n2, None)
             new == <<one, two>>
  <2>1. /\ Fresh(one) /\ one.merchant = m /\ one.nonce = n1
        /\ Fresh(two) /\ two.merchant = m /\ two.nonce = n2
    BY NewInvoiceIsFresh DEF RecordsOK
  <2>2. one \in InvoiceRecord /\ two \in InvoiceRecord
    BY <2>1 DEF Fresh
  <2>3. /\ \A k \in DOMAIN new :
             /\ <<new[k].merchant, new[k].nonce>> \notin nonces
             /\ new[k].nonce # 0 => \A j \in DOMAIN new : j < k => new[j].nonce # new[k].nonce
        /\ create_invoice_record(new)
        /\ UNCHANGED <<settingVars, tokenVars, now>>
    BY <1>3 DEF batch_create_invoice
  <2> HIDE DEF one, two
  <2>4. new \in Seq(InvoiceRecord) /\ DOMAIN new = {1, 2} /\ new[1] = one /\ new[2] = two
    BY <2>2
  <2> HIDE DEF new
  <2>5. ASSUME NEW k \in {1, 2}
        PROVE  /\ Fresh(new[k])
               /\ new[k].nonce # 0 =>
                    /\ <<new[k].merchant, new[k].nonce>> \notin nonces
                    /\ \A j \in {1, 2} : new[j].nonce = new[k].nonce => j = k
    <3>1. Fresh(new[k])
      BY <2>1, <2>4
    <3>2. new[k].nonce # 0 => <<new[k].merchant, new[k].nonce>> \notin nonces
      BY <2>3, <2>4
    <3>3. new[2].nonce # 0 => new[1].nonce # new[2].nonce
      BY <2>3, <2>4
    <3> QED
      BY <3>1, <3>2, <3>3
  <2> QED
    BY <2>3, <2>4, <2>5 DEF Creation
<1> QED
  BY <1>1, <1>2, <1>3

(* The steps of the contract.                                               *)
Kinds ==
  \/ Creation
  \/ Operation /\ Quiet /\ PayerIndexed
  \/ \E i \in Ids, bps \in FeeBps : process_refund(i, bps)
  \/ Setting
  \/ Funding

(* Closing invoices is an operation.                                        *)
LEMMA CloseKind ==
  ASSUME RecordsOK, NEW ids \in SUBSET Ids, NEW to \in {"Cancelled", "Expired"},
         \A i \in ids : invoices[i].status = "Pending", Close(ids, to)
  PROVE  Operation /\ Quiet /\ PayerIndexed
<1>1. PayerIndexed
  BY DEF Close, PayerIndexed
<1>2. Operation /\ Quiet
  BY CloseStep
<1> QED
  BY <1>1, <1>2

(* batch_expire is an operation whatever ids it is given.                   *)
LEMMA ExpireKind ==
  ASSUME RecordsOK, NEW ids, batch_expire(ids)
  PROVE  Operation /\ Quiet /\ PayerIndexed
<1> DEFINE due == {i \in ToSet(ids) \cap Ids : invoices[i].status = "Pending"
                                               /\ now >= invoices[i].expires_at}
<1>1. Close(due, "Expired")
  BY DEF batch_expire
<1>2. due \in SUBSET Ids /\ \A j \in due : invoices[j].status = "Pending"
  OBVIOUS
<1> HIDE DEF due
<1> QED
  BY <1>1, <1>2, CloseKind

(* What callers list are numbers.                                           *)
LEMMA IdListsAreLists ==
  ASSUME NEW list \in IdLists(MAX_BATCH_SIZE)
  PROVE  list \in Seq(Nat)
<1>1. MAX_BATCH_SIZE \in Nat /\ MaxInvoices \in Nat
  BY InvoiceAssumption
<1>2. PICK n \in 0 .. MAX_BATCH_SIZE + 1 : list \in [1 .. n -> 1 .. MaxInvoices]
  BY DEF IdLists
<1>3. n \in Nat /\ 1 .. MaxInvoices \subseteq Nat
  BY <1>1
<1>4. list \in [1 .. n -> Nat]
  BY <1>2, <1>3
<1> QED
  BY <1>3, <1>4

(* The lifecycle operations.                                                *)
LEMMA LifecycleKinds ==
  ASSUME RecordsOK, LifecycleNext
  PROVE  Operation /\ Quiet /\ PayerIndexed
<1>1. ASSUME NEW i \in Ids, NEW a \in Accounts, mark_paid(i, a)
      PROVE  Operation /\ Quiet /\ PayerIndexed
  <2>1. PayerIndexed
    BY <1>1 DEF mark_paid, PayerIndexed
  <2> QED
    BY <1>1, <2>1, MarkPaidStep
<1>2. ASSUME NEW i \in Ids, NEW a \in Accounts, transfer_invoice(i, a)
      PROVE  Operation /\ Quiet /\ PayerIndexed
  <2>1. PayerIndexed
    BY <1>2 DEF transfer_invoice, PayerIndexed, indexVars
  <2> QED
    BY <1>2, <2>1, TransferStep
<1>3. ASSUME NEW i \in Ids, release_escrow(i)
      PROVE  Operation /\ Quiet /\ PayerIndexed
  <2>1. PayerIndexed
    BY <1>3 DEF release_escrow, PayerIndexed, indexVars
  <2>2. "Released" \in Statuses \ {"Pending"}
    BY DEF Statuses
  <2>3. Operation /\ Quiet
    BY <1>3, <2>2, MoveOn DEF release_escrow
  <2> QED
    BY <2>1, <2>3
<1>5. ASSUME NEW i \in Ids, cancel_invoice(i)
      PROVE  Operation /\ Quiet /\ PayerIndexed
  <2>1. {i} \in SUBSET Ids /\ (\A j \in {i} : invoices[j].status = "Pending")
        /\ Close({i}, "Cancelled")
    BY <1>5 DEF cancel_invoice
  <2> QED
    BY <2>1, CloseKind
<1>6. ASSUME NEW m \in Merchants, NEW ids \in IdLists(MAX_BATCH_SIZE), batch_cancel_invoices(m, ids)
      PROVE  Operation /\ Quiet /\ PayerIndexed
  <2>1. PayerIndexed
    BY <1>6 DEF batch_cancel_invoices, PayerIndexed
  <2>2. ids \in Seq(Nat)
    BY <1>6, IdListsAreLists
  <2> QED
    BY <1>6, <2>1, <2>2, BatchCancelStep
<1>7. ASSUME NEW ids \in IdLists(MAX_BATCH_EXPIRE), batch_expire(ids)
      PROVE  Operation /\ Quiet /\ PayerIndexed
  BY <1>7, ExpireKind
<1>8. ASSUME NEW i \in Ids, NEW p \in Prices, NEW d \in Lifetimes, amend_invoice(i, p, d)
      PROVE  Operation /\ Quiet /\ PayerIndexed
  <2>1. PayerIndexed
    BY <1>8 DEF amend_invoice, PayerIndexed, indexVars
  <2> QED
    BY <1>8, <2>1, AmendStep
<1>9. ASSUME NEW i \in Ids, NEW d \in Lifetimes, extend_expiry(i, d)
      PROVE  Operation /\ Quiet /\ PayerIndexed
  <2>1. PayerIndexed
    BY <1>9 DEF extend_expiry, PayerIndexed, indexVars
  <2> QED
    BY <1>9, <2>1, ExtendStep
<1> QED
  BY <1>1, <1>2, <1>3, <1>5, <1>6, <1>7, <1>8, <1>9 DEF LifecycleNext

(* The refund operations.                                                   *)
LEMMA RefundKinds ==
  ASSUME RecordsOK, RefundNext
  PROVE  Kinds
<1>1. ASSUME NEW i \in Ids, request_refund(i)
      PROVE  Operation /\ Quiet /\ PayerIndexed
  <2>1. PayerIndexed
    BY <1>1 DEF request_refund, PayerIndexed, indexVars
  <2>2. "RefundRequested" \in Statuses \ {"Pending"}
    BY DEF Statuses
  <2>3. Operation /\ Quiet
    BY <1>1, <2>2, MoveOn DEF request_refund
  <2> QED
    BY <2>1, <2>3
<1>2. ASSUME NEW i \in Ids, approve_refund(i)
      PROVE  Operation /\ Quiet /\ PayerIndexed
  <2>1. PayerIndexed
    BY <1>2 DEF approve_refund, PayerIndexed, indexVars
  <2>2. "Refunded" \in Statuses \ {"Pending"}
    BY DEF Statuses
  <2>3. Operation /\ Quiet
    BY <1>2, <2>2, MoveOn DEF approve_refund
  <2> QED
    BY <2>1, <2>3
<1>3. ASSUME NEW i \in Ids, reject_refund(i)
      PROVE  Operation /\ Quiet /\ PayerIndexed
  <2>1. PayerIndexed
    BY <1>3 DEF reject_refund, PayerIndexed, indexVars
  <2>2. "Paid" \in Statuses \ {"Pending"}
    BY DEF Statuses
  <2>3. Operation /\ Quiet
    BY <1>3, <2>2, MoveOn DEF reject_refund, verify_payment_state
  <2> QED
    BY <2>1, <2>3
<1>4. ASSUME NEW p \in Prices, fund_escrow(p.amount)
      PROVE  Funding
  BY <1>4, InvoiceConstants DEF fund_escrow, Funding
<1> QED
  BY <1>1, <1>2, <1>3, <1>4 DEF RefundNext, Kinds

(* The admin's operations and the clock.                                    *)
LEMMA SettingKinds ==
  ASSUME SettingsOK, AdminNext \/ Tick
  PROVE  Setting
<1>1. /\ graceWindow \in Nat /\ refundWindow \in Nat /\ networkFee \in Nat /\ now \in Nat
      /\ paused \in BOOLEAN /\ admin \in Admins /\ pendingAdmin \in Admins \cup {None}
  BY DEF SettingsOK
<1>2. GraceWindows \subseteq Nat /\ RefundWindows \subseteq Nat /\ NetworkFees \subseteq Nat
  BY InvoiceAssumption
<1>3. ASSUME NEW w \in GraceWindows, set_grace_window(w) PROVE Setting
  BY <1>1, <1>2, <1>3 DEF set_grace_window, Setting
<1>4. ASSUME NEW w \in RefundWindows, set_refund_window(w) PROVE Setting
  BY <1>1, <1>2, <1>4 DEF set_refund_window, Setting
<1>5. ASSUME NEW f \in NetworkFees, set_refund_network_fee(f) PROVE Setting
  BY <1>1, <1>2, <1>5 DEF set_refund_network_fee, Setting
<1>6. ASSUME NEW b \in BOOLEAN, set_paused(b) PROVE Setting
  BY <1>1, <1>6 DEF set_paused, Setting
<1>7. ASSUME NEW a \in Nominees, transfer_admin(a) PROVE Setting
  BY <1>1, <1>7 DEF transfer_admin, Setting, Admins
<1>8. ASSUME NEW a \in Nominees, accept_admin(a) PROVE Setting
  BY <1>1, <1>8 DEF accept_admin, Setting, Admins
<1>9. ASSUME Tick PROVE Setting
  BY <1>1, <1>9 DEF Tick, Setting, settingVars
<1> QED
  BY <1>3, <1>4, <1>5, <1>6, <1>7, <1>8, <1>9 DEF AdminNext

(* Every step is of one of the kinds.                                       *)
LEMMA StepKinds ==
  ASSUME RecordsOK, SettingsOK, InvoiceNext
  PROVE  Kinds
BY CreateStep, LifecycleKinds, RefundKinds, SettingKinds DEF InvoiceNext, Kinds

(***************************************************************************)
(* Type correctness and the audit log.                                     *)
(***************************************************************************)
TypeLog == InvoiceTypeOK /\ \A i \in Ids : Replays(invoices[i])

(* The records after a creation: the old ones, then the new ones.           *)
LEMMA CreatedRecords ==
  ASSUME invoices \in Seq(InvoiceRecord), NEW new \in Seq(InvoiceRecord),
         create_invoice_record(new)
  PROVE  LET n == Len(invoices)
             k == Len(new)
         IN  /\ n \in Nat /\ k \in Nat /\ Ids = 1 .. n /\ DOMAIN new = 1 .. k
             /\ invoices' \in Seq(InvoiceRecord) /\ DOMAIN invoices' = 1 .. n + k
             /\ \A i \in 1 .. n : i \in 1 .. n + k /\ invoices'[i] = invoices[i]
             /\ \A j \in 1 .. k : n + j \in 1 .. n + k /\ invoices'[n + j] = new[j]
             /\ \A i \in 1 .. n + k : i \in 1 .. n \/ \E j \in 1 .. k : i = n + j
<1> DEFINE n == Len(invoices)
           k == Len(new)
<1>1. n \in Nat /\ k \in Nat /\ Ids = 1 .. n /\ DOMAIN new = 1 .. k
  BY DEF Ids
<1>2. invoices' = invoices \o new
  BY DEF create_invoice_record
<1>3. /\ invoices \o new \in Seq(InvoiceRecord) /\ Len(invoices \o new) = n + k
      /\ \A i \in 1 .. n + k : (invoices \o new)[i] = IF i <= n THEN invoices[i] ELSE new[i - n]
  BY ConcatProperties
<1>4. DOMAIN invoices' = 1 .. n + k
  BY <1>2, <1>3
<1> HIDE DEF n, k
<1>5. /\ \A i \in 1 .. n : i \in 1 .. n + k /\ i <= n
      /\ \A j \in 1 .. k : n + j \in 1 .. n + k /\ ~ (n + j <= n) /\ (n + j) - n = j
  BY <1>1
<1>6. ASSUME NEW i \in 1 .. n + k, i \notin 1 .. n PROVE \E j \in 1 .. k : i = n + j
  <2>1. i - n \in 1 .. k /\ i = n + (i - n)
    BY <1>1, <1>6
  <2> QED
    BY <2>1
<1>7. /\ \A i \in 1 .. n : invoices'[i] = invoices[i]
      /\ \A j \in 1 .. k : invoices'[n + j] = new[j]
  BY <1>2, <1>3, <1>5
<1> QED
  BY <1>1, <1>2, <1>3, <1>4, <1>5, <1>6, <1>7 DEF n, k

(* The ids of the new invoices.                                             *)
NewIds(new) == [k \in DOMAIN new |-> Len(invoices) + k]

(* The new ids, listed.                                                     *)
LEMMA NewIdsListed ==
  ASSUME invoices \in Seq(InvoiceRecord), NEW new \in Seq(InvoiceRecord)
  PROVE  /\ NewIds(new) \in Seq(Nat)
         /\ ListsInOrder(NewIds(new), {Len(invoices) + k : k \in 1 .. Len(new)})
<1> DEFINE n == Len(invoices)
           k == Len(new)
           ids == NewIds(new)
<1>1. n \in Nat /\ k \in Nat /\ DOMAIN new = 1 .. k
  OBVIOUS
<1>2. ids = [j \in 1 .. k |-> n + j]
  BY <1>1 DEF NewIds
<1> HIDE DEF n, k, ids
<1>3. ids \in [1 .. k -> Nat]
  BY <1>1, <1>2
<1>4. ids \in Seq(Nat) /\ DOMAIN ids = 1 .. k
  BY <1>1, <1>3
<1>5. \A j \in 1 .. k : ids[j] = n + j
  BY <1>2
<1>6. ToSet(ids) = {n + j : j \in 1 .. k}
  BY <1>4, <1>5 DEF ToSet
<1>7. \A i, j \in 1 .. k : i < j => ids[i] < ids[j]
  BY <1>1, <1>5
<1> QED
  BY <1>4, <1>6, <1>7 DEF ListsInOrder, n, k, ids

(* A fresh invoice's log replays.                                           *)
LEMMA FreshReplays ==
  ASSUME NEW inv, Fresh(inv)
  PROVE  Replays(inv)
<1> DEFINE h == <<>>
<1>1. h \in Seq(Transition) /\ Len(h) = 0
  OBVIOUS
<1>2. inv.history = h
  BY DEF Fresh
<1> HIDE DEF h
<1>3. States(h)[1] = "Pending"
  BY <1>1, StatesAreLogged
<1>4. 1 .. 0 = {} /\ 1 .. 0 + 1 = {1} /\ 0 + 1 = 1
  OBVIOUS
<1> QED
  BY <1>1, <1>2, <1>3, <1>4 DEF Replays, Fresh

(* What the type invariant says, in the pieces the proofs use.              *)
LEMMA TypePieces ==
  ASSUME TypeLog
  PROVE  RecordsOK /\ SettingsOK
BY DEF TypeLog, InvoiceTypeOK, RecordsOK, SettingsOK

(* A creation keeps the types and the logs.                                 *)
LEMMA CreationTypes ==
  ASSUME TypeLog, Creation
  PROVE  TypeLog'
<1>1. PICK new \in Seq(InvoiceRecord) :
         /\ create_invoice_record(new)
         /\ \A k \in DOMAIN new :
              /\ Fresh(new[k])
              /\ new[k].nonce # 0 =>
                   /\ <<new[k].merchant, new[k].nonce>> \notin nonces
                   /\ \A j \in DOMAIN new : new[j].nonce = new[k].nonce => j = k
  BY DEF Creation
<1> DEFINE n == Len(invoices)
           k == Len(new)
           ids == NewIds(new)
           Now == 1 .. n + k
           OfMerchant(m) == Only(ids, {ids[j] : j \in {l \in DOMAIN new : new[l].merchant = m}})
<1>2. /\ invoices \in Seq(InvoiceRecord) /\ pendingIndex \in Seq(Ids)
      /\ merchantIndex \in [Merchants -> Seq(Ids)] /\ payerIndex \in [Accounts -> Seq(Ids)]
      /\ nonces \subseteq Merchants \X Nonces
      /\ \A i \in Ids : Replays(invoices[i])
  BY DEF TypeLog, InvoiceTypeOK
<1>3. /\ n \in Nat /\ k \in Nat /\ Ids = 1 .. n /\ DOMAIN new = 1 .. k
      /\ invoices' \in Seq(InvoiceRecord) /\ DOMAIN invoices' = Now
      /\ \A i \in 1 .. n : i \in Now /\ invoices'[i] = invoices[i]
      /\ \A j \in 1 .. k : n + j \in Now /\ invoices'[n + j] = new[j]
      /\ \A i \in Now : i \in 1 .. n \/ \E j \in 1 .. k : i = n + j
  BY <1>1, <1>2, CreatedRecords
<1>4. Ids' = Now /\ Ids \subseteq Now
  BY <1>3 DEF Ids
<1>5. ids \in Seq(Now)
  <2>1. ids = [j \in 1 .. k |-> n + j]
    BY <1>3 DEF NewIds
  <2> HIDE DEF ids, n, k
  <2>2. ids \in [1 .. k -> Now]
    BY <1>3, <2>1
  <2> HIDE DEF Now
  <2> QED
    BY <1>3, <2>2
<1>6. /\ pendingIndex' = pendingIndex \o ids
      /\ merchantIndex' = [m \in Merchants |-> merchantIndex[m] \o OfMerchant(m)]
      /\ payerIndex' = payerIndex
      /\ nonces' = nonces \cup
           {<<new[j].merchant, new[j].nonce>> : j \in {l \in DOMAIN new : new[l].nonce # 0}}
  BY <1>1 DEF create_invoice_record, NewIds
<1> HIDE DEF ids, n, k, Now
<1>7. pendingIndex' \in Seq(Now)
  <2>1. pendingIndex \in Seq(Now)
    BY <1>2, <1>4, ListOverMore
  <2> QED
    BY <1>5, <1>6, <2>1, ConcatProperties
<1>8. merchantIndex' \in [Merchants -> Seq(Now)]
  <2>1. ASSUME NEW m \in Merchants PROVE merchantIndex[m] \o OfMerchant(m) \in Seq(Now)
    <3>1. merchantIndex[m] \in Seq(Now)
      BY <1>2, <1>4, ListOverMore
    <3>2. OfMerchant(m) \in Seq(Now)
      BY <1>5, OnlyType
    <3> HIDE DEF OfMerchant
    <3> QED
      BY <3>1, <3>2, ConcatProperties
  <2> HIDE DEF OfMerchant
  <2> QED
    BY <1>6, <2>1
<1>9. payerIndex' \in [Accounts -> Seq(Now)]
  <2>1. ASSUME NEW a \in Accounts PROVE payerIndex[a] \in Seq(Now)
    BY <1>2, <1>4, ListOverMore
  <2> QED
    BY <1>2, <1>6, <2>1
<1>10. nonces' \subseteq Merchants \X Nonces
  <2>1. \A j \in DOMAIN new : new[j].merchant \in Merchants /\ new[j].nonce \in Nonces \cup {0}
    <3>1. \A j \in DOMAIN new : new[j] \in InvoiceRecord
      BY <1>3, ElementOfSeq
    <3> QED
      BY <3>1 DEF InvoiceRecord
  <2> QED
    BY <1>2, <1>6, <2>1
<1>11. \A i \in Now : Replays(invoices'[i])
  <2>1. \A j \in 1 .. k : Replays(new[j])
    BY <1>1, <1>3, FreshReplays
  <2> QED
    BY <1>2, <1>3, <2>1
<1>12. /\ \A a \in Accounts : Len(payerIndex'[a]) <= MAX_PAYER_INDEX_ENTRIES
       /\ {graceWindow', refundWindow', networkFee', escrow', funded', now'} \subseteq Nat
       /\ paused' \in BOOLEAN /\ admin' \in Admins /\ pendingAdmin' \in Admins \cup {None}
       /\ received' \in [Accounts -> Nat]
  BY <1>6 DEF TypeLog, InvoiceTypeOK, Creation, settingVars, tokenVars
<1> QED
  BY <1>3, <1>4, <1>7, <1>8, <1>9, <1>10, <1>11, <1>12 DEF TypeLog, InvoiceTypeOK

(* An operation on existing invoices keeps their types and logs, and the    *)
(* indexes over them.                                                       *)
LEMMA OperationTypes ==
  ASSUME TypeLog, Operation
  PROVE  /\ Ids' = Ids /\ invoices' \in Seq(InvoiceRecord)
         /\ \A i \in Ids : Replays(invoices'[i])
         /\ pendingIndex' \in Seq(Ids) /\ merchantIndex' \in [Merchants -> Seq(Ids)]
         /\ nonces' \subseteq Merchants \X Nonces
         /\ {graceWindow', refundWindow', networkFee', now'} \subseteq Nat
         /\ paused' \in BOOLEAN /\ admin' \in Admins /\ pendingAdmin' \in Admins \cup {None}
<1>1. Ids' = Ids /\ invoices' \in Seq(InvoiceRecord) /\ \A i \in Ids : Replays(invoices'[i])
  BY DEF Operation, Revised, Advance, TypeLog, Ids
<1>2. pendingIndex' \in Seq(Ids)
  <2>1. pendingIndex \in Seq(Ids)
    BY DEF TypeLog, InvoiceTypeOK
  <2>2. \A ids : Only(pendingIndex, Ids \ ids) \in Seq(Ids)
    BY <2>1, OnlyType
  <2> QED
    BY <2>1, <2>2 DEF Operation, Delisted
<1> QED
  BY <1>1, <1>2 DEF Operation, TypeLog, InvoiceTypeOK, settingVars

(* payer_index_add keeps the index within its bound.                        *)
LEMMA PayerIndexTypes ==
  ASSUME payerIndex \in [Accounts -> Seq(Ids)],
         \A a \in Accounts : Len(payerIndex[a]) <= MAX_PAYER_INDEX_ENTRIES,
         NEW payer \in Accounts, NEW i \in Ids
  PROVE  /\ payer_index_add(payer, i) \in [Accounts -> Seq(Ids)]
         /\ \A a \in Accounts : Len(payer_index_add(payer, i)[a]) <= MAX_PAYER_INDEX_ENTRIES
<1> DEFINE old == payerIndex[payer]
           new == Append(old, i)
<1>1. old \in Seq(Ids) /\ new \in Seq(Ids) /\ Len(new) = Len(old) + 1 /\ Len(old) \in Nat
  BY AppendProperties
<1>2. CASE Len(old) >= MAX_PAYER_INDEX_ENTRIES
  BY <1>2 DEF payer_index_add
<1>3. CASE ~ (Len(old) >= MAX_PAYER_INDEX_ENTRIES)
  <2>1. payer_index_add(payer, i) = [payerIndex EXCEPT ![payer] = new]
    BY <1>3 DEF payer_index_add
  <2>2. MAX_PAYER_INDEX_ENTRIES \in Nat
    BY InvoiceAssumption
  <2>3. Len(new) <= MAX_PAYER_INDEX_ENTRIES
    BY <1>1, <1>3, <2>2
  <2> HIDE DEF new
  <2> QED
    BY <1>1, <2>1, <2>3
<1> QED
  BY <1>2, <1>3

(* Every kind of step keeps the types and the logs.                         *)
LEMMA KindsKeepTypes ==
  ASSUME TypeLog, Kinds
  PROVE  TypeLog'
<1>1. RecordsOK /\ SettingsOK
  BY TypePieces
<1>2. CASE Creation
  BY <1>2, CreationTypes
<1>3. ASSUME Operation, Quiet, PayerIndexed PROVE TypeLog'
  <2>1. payerIndex' \in [Accounts -> Seq(Ids)]
        /\ \A a \in Accounts : Len(payerIndex'[a]) <= MAX_PAYER_INDEX_ENTRIES
    <3>1. payerIndex \in [Accounts -> Seq(Ids)]
          /\ \A a \in Accounts : Len(payerIndex[a]) <= MAX_PAYER_INDEX_ENTRIES
      BY DEF TypeLog, InvoiceTypeOK
    <3>2. CASE payerIndex' = payerIndex
      BY <3>1, <3>2
    <3>3. ASSUME NEW a \in Accounts, NEW i \in Ids, payerIndex' = payer_index_add(a, i)
          PROVE  payerIndex' \in [Accounts -> Seq(Ids)]
                 /\ \A b \in Accounts : Len(payerIndex'[b]) <= MAX_PAYER_INDEX_ENTRIES
      BY <3>1, <3>3, PayerIndexTypes
    <3> QED
      BY <1>3, <3>2, <3>3 DEF PayerIndexed
  <2>2. escrow' \in Nat /\ funded' \in Nat /\ received' \in [Accounts -> Nat]
    BY <1>3 DEF Quiet, tokenVars, TypeLog, InvoiceTypeOK
  <2> QED
    BY <1>3, <2>1, <2>2, OperationTypes DEF TypeLog, InvoiceTypeOK
<1>4. ASSUME NEW i \in Ids, NEW bps \in FeeBps, process_refund(i, bps) PROVE TypeLog'
  <2> DEFINE net == invoices'[i].breakdown.net_amount
  <2>1. /\ escrow \in Nat /\ funded \in Nat /\ received \in [Accounts -> Nat] /\ networkFee \in Nat
        /\ payerIndex \in [Accounts -> Seq(Ids)]
        /\ \A a \in Accounts : Len(payerIndex[a]) <= MAX_PAYER_INDEX_ENTRIES
    BY DEF TypeLog, InvoiceTypeOK
  <2>2. /\ Operation /\ invoices[i].payer \in Accounts /\ invoices'[i].breakdown \in NetRefund
        /\ net <= escrow /\ escrow' = escrow - net
        /\ received' = [received EXCEPT ![invoices[i].payer] = @ + net]
        /\ funded' = funded /\ payerIndex' = payerIndex
    BY <1>1, <1>4, <2>1, ProcessStep
  <2>3. net \in Nat
    BY <2>2 DEF NetRefund
  <2> HIDE DEF net
  <2>4. escrow' \in Nat /\ received' \in [Accounts -> Nat]
    BY <2>1, <2>2, <2>3
  <2> QED
    BY <2>1, <2>2, <2>4, OperationTypes DEF TypeLog, InvoiceTypeOK
<1>5. CASE Setting
  BY <1>5 DEF Setting, TypeLog, InvoiceTypeOK, Ids, indexVars, tokenVars
<1>6. CASE Funding
  <2>1. escrow' \in Nat /\ funded' \in Nat
    BY <1>6 DEF Funding, TypeLog, InvoiceTypeOK
  <2> QED
    BY <1>6, <2>1 DEF Funding, TypeLog, InvoiceTypeOK, Ids, indexVars, settingVars
<1> QED
  BY <1>2, <1>3, <1>4, <1>5, <1>6 DEF Kinds

(* The initial state has the types.                                         *)
LEMMA InitTypes ==
  ASSUME InvoiceInit
  PROVE  TypeLog
<1>1. Ids = {} /\ invoices \in Seq(InvoiceRecord)
  BY DEF InvoiceInit, Ids
<1>2. /\ pendingIndex \in Seq(Ids) /\ merchantIndex \in [Merchants -> Seq(Ids)]
      /\ payerIndex \in [Accounts -> Seq(Ids)]
  BY DEF InvoiceInit
<1>3. \A a \in Accounts : Len(payerIndex[a]) <= MAX_PAYER_INDEX_ENTRIES
  <2>1. MAX_PAYER_INDEX_ENTRIES \in Nat
    BY InvoiceAssumption
  <2>2. \A a \in Accounts : payerIndex[a] = <<>>
    BY DEF InvoiceInit
  <2>3. Len(<<>>) = 0
    OBVIOUS
  <2> QED
    BY <2>1, <2>2, <2>3
<1>4. REFUND_NETWORK_FEE \in Nat
  BY InvoiceAssumption
<1>5. /\ {graceWindow, refundWindow, networkFee, escrow, funded, now} \subseteq Nat
      /\ paused \in BOOLEAN /\ admin \in Admins /\ pendingAdmin \in Admins \cup {None}
      /\ received \in [Accounts -> Nat] /\ nonces = {}
  <2>1. graceWindow = 0 /\ refundWindow = 0 /\ networkFee = REFUND_NETWORK_FEE
        /\ escrow = 0 /\ funded = 0 /\ now = 1
    BY DEF InvoiceInit
  <2>2. {graceWindow, refundWindow, networkFee, escrow, funded, now} \subseteq Nat
    BY <1>4, <2>1
  <2>3. paused \in BOOLEAN /\ admin \in Admins /\ pendingAdmin \in Admins \cup {None} /\ nonces = {}
    BY DEF InvoiceInit, Admins
  <2>4. received \in [Accounts -> Nat]
    BY DEF InvoiceInit
  <2> QED
    BY <2>2, <2>3, <2>4
<1> QED
  BY <1>1, <1>2, <1>3, <1>5 DEF TypeLog, InvoiceTypeOK

(* Nothing happens.                                                         *)
LEMMA StutterTypes ==
  ASSUME TypeLog, UNCHANGED invoiceVars
  PROVE  TypeLog'
BY DEF TypeLog, InvoiceTypeOK, Ids, invoiceVars, indexVars, settingVars, tokenVars

(* The types and the logs, of the contract by itself.                       *)
LEMMA TypeLogAlways == InvoiceSpec => []TypeLog
<1>1. InvoiceInit => TypeLog
  BY InitTypes
<1>2. TypeLog /\ [InvoiceNext]_invoiceVars => TypeLog'
  <2>1. ASSUME TypeLog, InvoiceNext PROVE TypeLog'
    BY <2>1, TypePieces, StepKinds, KindsKeepTypes
  <2> QED
    BY <2>1, StutterTypes
<1> QED
  BY <1>1, <1>2, PTL DEF InvoiceSpec

(* Every entry the contract stores keeps its type, every index names        *)
(* stored invoices only, no payer's index outgrows its bound, and no        *)
(* refund drives the escrow below zero.                                     *)
THEOREM InvoiceTypeCorrect == InvoiceSpec => []InvoiceTypeOK
<1>1. TypeLog => InvoiceTypeOK
  BY DEF TypeLog
<1> QED
  BY <1>1, TypeLogAlways, PTL

(* The audit log of every invoice replays to its status through statuses    *)
(* that are not terminal, but for the cancellations batch_cancel_invoices   *)
(* repeats, and shows a payment exactly where there is a payer and a time   *)
(* of payment.                                                              *)
THEOREM AuditLogReplays == InvoiceSpec => []HistoryReplays
<1>1. TypeLog => HistoryReplays
  BY HistoryReplaysEach DEF TypeLog, InvoiceTypeOK
<1> QED
  BY <1>1, TypeLogAlways, PTL

(* No step writes an invoice whose status is terminal.                      *)
LEMMA KindsKeepTerminal ==
  ASSUME TypeLog, Kinds
  PROVE  \A i \in Ids : is_terminal(invoices[i].status) => invoices'[i] = invoices[i]
<1>1. RecordsOK /\ networkFee \in Nat /\ invoices \in Seq(InvoiceRecord)
  BY TypePieces DEF TypeLog, InvoiceTypeOK
<1>2. ASSUME Operation
      PROVE  \A i \in Ids : is_terminal(invoices[i].status) => invoices'[i] = invoices[i]
  BY <1>2 DEF Operation, Revised, Advance
<1>3. CASE Creation
  <2>1. PICK new \in Seq(InvoiceRecord) : create_invoice_record(new)
    BY <1>3 DEF Creation
  <2> QED
    BY <1>1, <2>1, CreatedRecords
<1>4. ASSUME NEW i \in Ids, NEW bps \in FeeBps, process_refund(i, bps) PROVE Operation
  BY <1>1, <1>4, ProcessStep
<1> QED
  BY <1>2, <1>3, <1>4 DEF Kinds, Setting, Funding

(* A released, refunded, expired or cancelled invoice is never written      *)
(* again.                                                                   *)
THEOREM TerminalInvoicesAreFinal == InvoiceSpec => TerminalIsFinal
<1>1. TypeLog /\ [InvoiceNext]_invoiceVars =>
        [\A i \in Ids : is_terminal(invoices[i].status) => invoices'[i] = invoices[i]]_invoices
  <2>1. ASSUME TypeLog, InvoiceNext
        PROVE  \A i \in Ids : is_terminal(invoices[i].status) => invoices'[i] = invoices[i]
    BY <2>1, TypePieces, StepKinds, KindsKeepTerminal
  <2> QED
    BY <2>1 DEF invoiceVars
<1> QED
  BY <1>1, TypeLogAlways, PTL DEF InvoiceSpec, TerminalIsFinal

(***************************************************************************)
(* The listings.                                                           *)
(***************************************************************************)
PendingIds == {i \in Ids : invoices[i].status = "Pending"}
IdsOf(m) == {i \in Ids : invoices[i].merchant = m}

(* ListingsAgree in terms of the statuses, and the nonces in use: what a    *)
(* creation is checked against.                                             *)
ListingInv ==
  /\ ListsInOrder(pendingIndex, PendingIds)
  /\ \A m \in Merchants : ListsInOrder(merchantIndex[m], IdsOf(m))
  /\ \A i, j \in Ids :
       /\ invoices[i].merchant = invoices[j].merchant
       /\ invoices[i].nonce = invoices[j].nonce
       /\ invoices[i].nonce # 0
       => i = j
  /\ \A i \in Ids : invoices[i].nonce # 0 => <<invoices[i].merchant, invoices[i].nonce>> \in nonces

(* Something is outstanding exactly on a pending invoice.                   *)
LEMMA OutstandingMeansPending ==
  ASSUME NEW inv \in InvoiceRecord
  PROVE  outstanding_usdc(inv) > 0 <=> inv.status = "Pending"
<1>1. inv.price.gross \in Nat /\ inv.price.gross > 0 /\ inv.status \in Statuses
  <2>1. inv.price \in Prices /\ inv.status \in Statuses
    BY DEF InvoiceRecord
  <2>2. inv.price.gross \in Nat /\ inv.price.amount \in Nat /\ 0 < inv.price.amount
        /\ inv.price.amount <= inv.price.gross
    BY <2>1, InvoiceConstants
  <2> QED
    BY <2>1, <2>2
<1> QED
  BY <1>1 DEF outstanding_usdc, collected_usdc, Statuses

(* The numbers of the invoices.                                             *)
LEMMA IdsAreNumbers ==
  ASSUME TypeLog
  PROVE  /\ Ids = 1 .. Len(invoices) /\ Len(invoices) \in Nat /\ Ids \subseteq Nat
         /\ pendingIndex \in Seq(Nat) /\ \A m \in Merchants : merchantIndex[m] \in Seq(Nat)
         /\ \A i \in Ids : invoices[i] \in InvoiceRecord
<1>1. /\ invoices \in Seq(InvoiceRecord) /\ pendingIndex \in Seq(Ids)
      /\ merchantIndex \in [Merchants -> Seq(Ids)]
  BY DEF TypeLog, InvoiceTypeOK
<1>2. Ids = 1 .. Len(invoices) /\ Len(invoices) \in Nat
  BY <1>1 DEF Ids
<1>3. Ids \subseteq Nat
  BY <1>2
<1>4. pendingIndex \in Seq(Nat)
  BY <1>1, <1>3, ListOverMore
<1>5. \A m \in Merchants : merchantIndex[m] \in Seq(Nat)
  BY <1>1, <1>3, ListOverMore
<1>6. \A i \in Ids : invoices[i] \in InvoiceRecord
  BY <1>1, ElementOfSeq DEF Ids
<1> QED
  BY <1>2, <1>3, <1>4, <1>5, <1>6

(* A creation keeps the listings.                                           *)
LEMMA CreationListings ==
  ASSUME TypeLog, ListingInv, Creation
  PROVE  ListingInv'
<1>1. PICK new \in Seq(InvoiceRecord) :
         /\ create_invoice_record(new)
         /\ \A k \in DOMAIN new :
              /\ Fresh(new[k])
              /\ new[k].nonce # 0 =>
                   /\ <<new[k].merchant, new[k].nonce>> \notin nonces
                   /\ \A j \in DOMAIN new : new[j].nonce = new[k].nonce => j = k
  BY DEF Creation
<1> DEFINE n == Len(invoices)
           k == Len(new)
           ids == NewIds(new)
           added == {n + j : j \in 1 .. k}
           Now == 1 .. n + k
           Chosen(m) == {ids[j] : j \in {l \in DOMAIN new : new[l].merchant = m}}
<1>2. /\ invoices \in Seq(InvoiceRecord) /\ pendingIndex \in Seq(Nat) /\ Ids = 1 .. n
      /\ \A m \in Merchants : merchantIndex[m] \in Seq(Nat)
  BY IdsAreNumbers DEF TypeLog, InvoiceTypeOK
<1>3. /\ n \in Nat /\ k \in Nat /\ DOMAIN new = 1 .. k /\ Ids' = Now
      /\ \A i \in 1 .. n : i \in Now /\ invoices'[i] = invoices[i]
      /\ \A j \in 1 .. k : n + j \in Now /\ invoices'[n + j] = new[j]
      /\ \A i \in Now : i \in 1 .. n \/ \E j \in 1 .. k : i = n + j
  BY <1>1, <1>2, CreatedRecords DEF Ids
<1>4. ids \in Seq(Nat) /\ ListsInOrder(ids, added)
  BY <1>2, NewIdsListed
<1>5. /\ pendingIndex' = pendingIndex \o ids
      /\ merchantIndex' = [m \in Merchants |-> merchantIndex[m] \o Only(ids, Chosen(m))]
      /\ nonces' = nonces \cup
           {<<new[j].merchant, new[j].nonce>> : j \in {l \in DOMAIN new : new[l].nonce # 0}}
  BY <1>1 DEF create_invoice_record, NewIds
<1>6. \A j \in 1 .. k : ids[j] = n + j
  BY <1>3 DEF NewIds
<1> HIDE DEF n, k, ids, Now
<1>7. \A x \in 1 .. n, y \in added : x < y
  BY <1>3
<1>8. \A j \in 1 .. k : new[j].status = "Pending"
  BY <1>1, <1>3 DEF Fresh
<1>9. ListsInOrder(pendingIndex, PendingIds)'
  <2>1. PendingIds' = PendingIds \cup added
    <3>1. PendingIds' \subseteq PendingIds \cup added
      BY <1>2, <1>3 DEF PendingIds
    <3>2. PendingIds \subseteq PendingIds'
      BY <1>2, <1>3 DEF PendingIds
    <3>3. added \subseteq PendingIds'
      <4>1. \A j \in 1 .. k : n + j \in PendingIds'
        BY <1>3, <1>8 DEF PendingIds
      <4> QED
        BY <4>1
    <3> QED
      BY <3>1, <3>2, <3>3
  <2>2. \A x \in PendingIds, y \in added : x < y
    BY <1>2, <1>7 DEF PendingIds
  <2>3. ListsInOrder(pendingIndex, PendingIds)
    BY DEF ListingInv
  <2> HIDE DEF added
  <2>4. ListsInOrder(pendingIndex \o ids, PendingIds \cup added)
    BY <1>2, <1>4, <2>2, <2>3, ConcatInOrder
  <2>5. ListsInOrder(pendingIndex', PendingIds')
    BY <1>5, <2>1, <2>4
  <2> QED
    BY <2>5 DEF ListsInOrder, ToSet
<1>10. ASSUME NEW m \in Merchants PROVE ListsInOrder(merchantIndex[m], IdsOf(m))'
  <2> DEFINE mine == {n + j : j \in {l \in 1 .. k : new[l].merchant = m}}
  <2>1. added \cap Chosen(m) = mine
    <3>1. ASSUME NEW x \in Chosen(m) PROVE x \in mine
      <4>1. PICK j \in {l \in DOMAIN new : new[l].merchant = m} : x = ids[j]
        OBVIOUS
      <4>2. j \in {l \in 1 .. k : new[l].merchant = m} /\ x = n + j
        BY <1>3, <1>6, <4>1
      <4> QED
        BY <4>2
    <3>2. ASSUME NEW x \in mine PROVE x \in added /\ x \in Chosen(m)
      <4>1. PICK j \in {l \in 1 .. k : new[l].merchant = m} : x = n + j
        OBVIOUS
      <4>2. x = ids[j] /\ j \in {l \in DOMAIN new : new[l].merchant = m} /\ j \in 1 .. k
        BY <1>3, <1>6, <4>1
      <4> QED
        BY <4>1, <4>2
    <3> HIDE DEF added, Chosen, mine
    <3> QED
      BY <3>1, <3>2
  <2>2. Only(ids, Chosen(m)) \in Seq(Nat) /\ ListsInOrder(Only(ids, Chosen(m)), mine)
    <3> HIDE DEF Chosen, added, mine
    <3> QED
      BY <1>4, <2>1, OnlyInOrder
  <2>3. IdsOf(m)' = IdsOf(m) \cup mine
    <3>1. ASSUME NEW i \in IdsOf(m)' PROVE i \in IdsOf(m) \cup mine
      <4>1. i \in Now /\ invoices'[i].merchant = m
        BY <1>3 DEF IdsOf
      <4>2. CASE i \in 1 .. n
        BY <1>2, <1>3, <4>1, <4>2 DEF IdsOf
      <4>3. ASSUME NEW j \in 1 .. k, i = n + j PROVE i \in mine
        BY <1>3, <4>1, <4>3
      <4> QED
        BY <1>3, <4>1, <4>2, <4>3
    <3>2. IdsOf(m) \subseteq IdsOf(m)'
      BY <1>2, <1>3 DEF IdsOf
    <3>3. mine \subseteq IdsOf(m)'
      BY <1>3 DEF IdsOf
    <3> QED
      BY <3>1, <3>2, <3>3
  <2>4. \A x \in IdsOf(m), y \in mine : x < y
    BY <1>2, <1>7 DEF IdsOf
  <2>5. ListsInOrder(merchantIndex[m], IdsOf(m)) /\ merchantIndex[m] \in Seq(Nat)
    BY <1>2 DEF ListingInv
  <2>6. merchantIndex'[m] = merchantIndex[m] \o Only(ids, Chosen(m))
    BY <1>5
  <2> HIDE DEF mine, Chosen
  <2>7. ListsInOrder(merchantIndex'[m], IdsOf(m)')
    <3> DEFINE a == merchantIndex[m]
               b == Only(ids, Chosen(m))
               A == IdsOf(m)
    <3>1. /\ a \in Seq(Nat) /\ b \in Seq(Nat) /\ ListsInOrder(a, A) /\ ListsInOrder(b, mine)
          /\ \A x \in A, y \in mine : x < y
      BY <2>2, <2>4, <2>5
    <3> HIDE DEF a, b, A
    <3>2. ListsInOrder(a \o b, A \cup mine)
      BY <3>1, ConcatInOrder
    <3> QED
      BY <2>3, <2>6, <3>2 DEF a, b, A
  <2> QED
    BY <2>7 DEF ListsInOrder, ToSet
<1>11. ASSUME NEW i \in Now, invoices'[i].nonce # 0
       PROVE  <<invoices'[i].merchant, invoices'[i].nonce>> \in nonces'
  <2>1. CASE i \in 1 .. n
    BY <1>2, <1>3, <1>5, <1>11, <2>1 DEF ListingInv
  <2>2. ASSUME NEW j \in 1 .. k, i = n + j
        PROVE  <<invoices'[i].merchant, invoices'[i].nonce>> \in nonces'
    <3>1. invoices'[i] = new[j] /\ j \in {l \in DOMAIN new : new[l].nonce # 0}
      BY <1>3, <1>11, <2>2
    <3> QED
      BY <1>5, <3>1
  <2> QED
    BY <1>3, <2>1, <2>2
<1>12. ASSUME NEW i \in Now, NEW j \in Now, invoices'[i].merchant = invoices'[j].merchant,
              invoices'[i].nonce = invoices'[j].nonce, invoices'[i].nonce # 0
       PROVE  i = j
  <2>1. \A a \in 1 .. n, b \in 1 .. k :
          ~ (/\ invoices[a].merchant = new[b].merchant
             /\ invoices[a].nonce = new[b].nonce /\ invoices[a].nonce # 0)
    BY <1>1, <1>2, <1>3 DEF ListingInv
  <2>2. CASE i \in 1 .. n /\ j \in 1 .. n
    BY <1>2, <1>3, <1>12, <2>2 DEF ListingInv
  <2>3. ASSUME NEW b \in 1 .. k, i = n + b, j \in 1 .. n PROVE FALSE
    BY <1>3, <1>12, <2>1, <2>3
  <2>4. ASSUME NEW b \in 1 .. k, j = n + b, i \in 1 .. n PROVE FALSE
    BY <1>3, <1>12, <2>1, <2>4
  <2>5. ASSUME NEW a \in 1 .. k, NEW b \in 1 .. k, i = n + a, j = n + b PROVE i = j
    <3>1. new[b].nonce = new[a].nonce /\ new[a].nonce # 0
      BY <1>3, <1>12, <2>5
    <3>2. b = a
      BY <1>1, <1>3, <3>1
    <3> QED
      BY <2>5, <3>2
  <2> QED
    BY <1>3, <2>2, <2>3, <2>4, <2>5
<1> QED
  BY <1>3, <1>9, <1>10, <1>11, <1>12 DEF ListingInv

(* An operation on existing invoices keeps the listings.                    *)
LEMMA OperationListings ==
  ASSUME TypeLog, ListingInv, Operation
  PROVE  ListingInv'
<1>1. /\ DOMAIN invoices' = Ids /\ Ids' = Ids /\ UNCHANGED <<merchantIndex, nonces>>
      /\ \A i \in Ids : invoices'[i].merchant = invoices[i].merchant
                        /\ invoices'[i].nonce = invoices[i].nonce
  BY DEF Operation, Revised, Advance, Ids
<1>2. PICK ids \in SUBSET Ids : Delisted(ids)
  BY DEF Operation
<1>3. ListsInOrder(pendingIndex, PendingIds)'
  <2>1. pendingIndex \in Seq(Nat) /\ ListsInOrder(pendingIndex, PendingIds)
    BY IdsAreNumbers DEF ListingInv
  <2>2. PendingIds' = PendingIds \cap (Ids \ ids)
    BY <1>1, <1>2 DEF PendingIds, Delisted
  <2>3. CASE pendingIndex' = Only(pendingIndex, Ids \ ids)
    <3>1. ListsInOrder(pendingIndex', PendingIds')
      BY <2>1, <2>2, <2>3, OnlyInOrder
    <3> QED
      BY <3>1 DEF ListsInOrder, ToSet
  <2>4. CASE ids = {} /\ pendingIndex' = pendingIndex
    <3>1. PendingIds' = PendingIds
      BY <2>2, <2>4 DEF PendingIds
    <3>2. ListsInOrder(pendingIndex', PendingIds')
      BY <2>1, <2>4, <3>1
    <3> QED
      BY <3>2 DEF ListsInOrder, ToSet
  <2> QED
    BY <1>2, <2>3, <2>4 DEF Delisted
<1>4. ASSUME NEW m \in Merchants PROVE ListsInOrder(merchantIndex[m], IdsOf(m))'
  <2>1. IdsOf(m)' = IdsOf(m)
    BY <1>1 DEF IdsOf
  <2>2. ListsInOrder(merchantIndex'[m], IdsOf(m)')
    BY <1>1, <2>1 DEF ListingInv
  <2> QED
    BY <2>2 DEF ListsInOrder, ToSet
<1> QED
  BY <1>1, <1>3, <1>4 DEF ListingInv

(* A step that leaves the invoices and the indexes alone.                   *)
LEMMA SameListings ==
  ASSUME ListingInv, UNCHANGED <<invoices, indexVars>>
  PROVE  ListingInv'
BY DEF ListingInv, PendingIds, IdsOf, Ids, indexVars, ListsInOrder, ToSet

(* The listings, from a state the types of which are right.                 *)
LEMMA KindsKeepListings ==
  ASSUME TypeLog, ListingInv, Kinds
  PROVE  ListingInv'
<1>1. RecordsOK /\ networkFee \in Nat
  BY TypePieces DEF TypeLog, InvoiceTypeOK
<1>2. ASSUME NEW i \in Ids, NEW bps \in FeeBps, process_refund(i, bps) PROVE Operation
  BY <1>1, <1>2, ProcessStep
<1> QED
  BY <1>2, CreationListings, OperationListings, SameListings DEF Kinds, Setting, Funding

(* Nothing is listed at first.                                              *)
LEMMA InitListings ==
  ASSUME InvoiceInit
  PROVE  ListingInv
<1>1. Ids = {}
  BY DEF InvoiceInit, Ids
<1>2. ListsInOrder(<<>>, {})
  BY DEF ListsInOrder, ToSet
<1>3. PendingIds = {} /\ \A m : IdsOf(m) = {}
  BY <1>1 DEF PendingIds, IdsOf
<1>4. pendingIndex = <<>> /\ \A m \in Merchants : merchantIndex[m] = <<>>
  BY DEF InvoiceInit
<1> QED
  BY <1>1, <1>2, <1>3, <1>4 DEF ListingInv

(* ListingInv says what ListingsAgree says.                                 *)
LEMMA ListingInvSuffices ==
  ASSUME TypeLog, ListingInv
  PROVE  ListingsAgree
<1>1. \A i \in Ids : invoices[i] \in InvoiceRecord
  BY IdsAreNumbers
<1>2. PendingIds = {i \in Ids : outstanding_usdc(invoices[i]) > 0}
  BY <1>1, OutstandingMeansPending DEF PendingIds
<1> QED
  BY <1>2 DEF ListingInv, ListingsAgree, IdsOf

(* The pending index holds exactly the invoices on which something is       *)
(* outstanding, each once and in order; every merchant's index its own      *)
(* invoices; and no nonce names two invoices of a merchant, in one batch,   *)
(* across batches or beside single creations.                               *)
THEOREM ListingsAlwaysAgree == InvoiceSpec => []ListingsAgree
<1>1. InvoiceInit => ListingInv
  BY InitListings
<1>2. TypeLog /\ ListingInv /\ [InvoiceNext]_invoiceVars => ListingInv'
  <2>1. ASSUME TypeLog, ListingInv, InvoiceNext PROVE ListingInv'
    BY <2>1, TypePieces, StepKinds, KindsKeepListings
  <2>2. ASSUME ListingInv, UNCHANGED invoiceVars PROVE ListingInv'
    BY <2>2, SameListings DEF invoiceVars
  <2> QED
    BY <2>1, <2>2
<1>3. TypeLog /\ ListingInv => ListingsAgree
  BY ListingInvSuffices
<1> QED
  BY <1>1, <1>2, <1>3, TypeLogAlways, PTL DEF InvoiceSpec

(***************************************************************************)
(* The money of the refunds.                                               *)
(***************************************************************************)
PaidOut == {i \in Ids : invoices[i].breakdown # None}
Net == [i \in PaidOut |-> invoices[i].breakdown.net_amount]
PaidTo(a) == {i \in PaidOut : invoices[i].payer = a}

(* RefundsReconcile, in these terms.                                        *)
RefundInv ==
  /\ escrow + SumOver(received, Accounts) = funded
  /\ \A a \in Accounts : received[a] = SumOver(Net, PaidTo(a))
  /\ \A i \in PaidOut :
       /\ invoices[i].status = "Refunded"
       /\ invoices[i].breakdown.gross_amount = invoices[i].price.amount
       /\ Exact(invoices[i].breakdown)

(* RefundInv is RefundsReconcile.                                           *)
LEMMA RefundInvSuffices ==
  RefundInv <=> RefundsReconcile
BY DEF RefundInv, RefundsReconcile, PaidOut, Net, PaidTo, Exact

(* The invoices with a breakdown: finitely many, of natural amounts.        *)
LEMMA PaidOutFinite ==
  ASSUME TypeLog
  PROVE  /\ IsFiniteSet(Ids) /\ \A S : S \subseteq PaidOut => IsFiniteSet(S)
         /\ \A i \in PaidOut : i \in Ids /\ invoices[i].breakdown \in NetRefund
                               /\ invoices[i].breakdown.net_amount \in Nat
         /\ \A S : S \subseteq PaidOut => Natural(Net, S)
<1>1. /\ Ids = 1 .. Len(invoices) /\ Len(invoices) \in Nat
      /\ \A i \in Ids : invoices[i] \in InvoiceRecord
  BY IdsAreNumbers
<1>2. IsFiniteSet(Ids)
  BY <1>1, FS_Interval
<1>3. \A S : S \subseteq PaidOut => IsFiniteSet(S)
  <2>1. PaidOut \subseteq Ids
    BY DEF PaidOut
  <2> QED
    BY <1>2, <2>1, FS_Subset
<1>4. \A i \in PaidOut : i \in Ids /\ invoices[i].breakdown \in NetRefund
  BY <1>1 DEF PaidOut, InvoiceRecord
<1>5. \A i \in PaidOut : invoices[i].breakdown.net_amount \in Nat
  BY <1>4 DEF NetRefund
<1>6. \A S : S \subseteq PaidOut => Natural(Net, S)
  BY <1>5 DEF Natural, Net
<1> QED
  BY <1>2, <1>3, <1>4, <1>5, <1>6

(* A step that refunds nothing.                                             *)
LEMMA SameRefunds ==
  ASSUME RefundInv, TypeLog, PaidOut' = PaidOut, \A i \in PaidOut : invoices'[i] = invoices[i],
         received' = received, NEW d \in Int, escrow' = escrow + d, funded' = funded + d
  PROVE  RefundInv'
<1>1. Net' = Net
  BY DEF Net
<1>2. \A a : PaidTo(a)' = PaidTo(a)
  BY DEF PaidTo
<1>3. \A a \in Accounts : received'[a] = SumOver(Net', PaidTo(a)')
  BY <1>1, <1>2 DEF RefundInv
<1>4. escrow' + SumOver(received', Accounts) = funded'
  <2>1. received \in [Accounts -> Nat] /\ escrow \in Nat /\ funded \in Nat
    BY DEF TypeLog, InvoiceTypeOK
  <2>2. SumOver(received, Accounts) \in Nat
    BY <2>1, InvoiceConstants, SumType DEF Natural
  <2>3. escrow + SumOver(received, Accounts) = funded
    BY DEF RefundInv
  <2> QED
    BY <2>1, <2>2, <2>3
<1>5. \A i \in PaidOut' :
       /\ invoices'[i].status = "Refunded"
       /\ invoices'[i].breakdown.gross_amount = invoices'[i].price.amount
       /\ Exact(invoices'[i].breakdown)
  BY DEF RefundInv
<1> QED
  BY <1>3, <1>4, <1>5 DEF RefundInv

(* process_refund pays one invoice's payer, once.                           *)
LEMMA ProcessRefunds ==
  ASSUME RefundInv, TypeLog, NEW i \in Ids, NEW bps \in FeeBps, process_refund(i, bps)
  PROVE  RefundInv'
<1> DEFINE payer == invoices[i].payer
           b == invoices'[i].breakdown
           amount == b.net_amount
           old == received
           new == received'
           sums == Net
           sums2 == Net'
<1>1. RecordsOK /\ networkFee \in Nat /\ escrow \in Nat /\ funded \in Nat
      /\ received \in [Accounts -> Nat]
  BY TypePieces DEF TypeLog, InvoiceTypeOK
<1>2. /\ Operation /\ invoices[i].status = "RefundRequested"
      /\ \A j \in Ids \ {i} : invoices'[j] = invoices[j]
      /\ invoices'[i].status = "Refunded" /\ invoices'[i].payer = payer /\ payer \in Accounts
      /\ b \in NetRefund /\ b.gross_amount = invoices'[i].price.amount /\ Exact(b)
      /\ escrow' = escrow - amount /\ funded' = funded
      /\ received' = [received EXCEPT ![payer] = @ + amount]
  BY <1>1, ProcessStep
<1>3. Ids' = Ids
  BY <1>2 DEF Operation, Revised, Ids
<1>4. amount \in Nat /\ b # None
  BY <1>2, InvoiceConstants DEF NetRefund
<1>5. i \notin PaidOut
  BY <1>2 DEF RefundInv
<1>6. PaidOut' = PaidOut \cup {i} /\ \A j \in PaidOut : invoices'[j] = invoices[j]
  BY <1>2, <1>3, <1>4, <1>5 DEF PaidOut
<1>7. (\A j \in PaidOut : sums2[j] = sums[j]) /\ sums2[i] = amount
  BY <1>6 DEF Net
<1>8. \A a : PaidTo(a)' = IF a = payer THEN PaidTo(a) \cup {i} ELSE PaidTo(a)
  BY <1>2, <1>5, <1>6 DEF PaidTo
<1>9. \A a : PaidTo(a) \subseteq PaidOut
  BY DEF PaidTo
<1>10. \A a : IsFiniteSet(PaidTo(a)) /\ Natural(sums, PaidTo(a))
  BY <1>9, PaidOutFinite
<1> HIDE DEF amount, b, sums, sums2, payer, old, new
<1>11. \A a : SumOver(sums2, PaidTo(a)) = SumOver(sums, PaidTo(a))
  BY <1>7, <1>9, <1>10, SumSame
<1>12. SumOver(sums2, PaidTo(payer) \cup {i}) = SumOver(sums, PaidTo(payer)) + amount
  <2>1. Natural(sums2, PaidTo(payer) \cup {i}) /\ i \notin PaidTo(payer)
    BY <1>4, <1>5, <1>7, <1>9, <1>10 DEF Natural
  <2>2. SumOver(sums2, PaidTo(payer) \cup {i}) = SumOver(sums2, PaidTo(payer)) + sums2[i]
    BY <1>10, <2>1, SumAdd
  <2> QED
    BY <1>7, <1>11, <2>2
<1>13. \A a \in Accounts : old[a] = SumOver(sums, PaidTo(a))
  BY DEF RefundInv, old, sums
<1>14. old \in [Accounts -> Nat] /\ new = [old EXCEPT ![payer] = @ + amount]
  BY <1>1, <1>2 DEF old, new
<1>15. ASSUME NEW a \in Accounts PROVE new[a] = SumOver(sums2, PaidTo(a)')
  <2>1. CASE a = payer
    <3>1. new[payer] = old[payer] + amount
      BY <1>14, <2>1
    <3>2. old[payer] = SumOver(sums, PaidTo(payer))
      BY <1>13, <2>1
    <3> QED
      BY <1>8, <1>12, <2>1, <3>1, <3>2
  <2>2. CASE a # payer
    BY <1>8, <1>11, <1>13, <1>14, <2>2
  <2> QED
    BY <2>1, <2>2
<1>16. escrow' + SumOver(new, Accounts) = funded'
  <2>1. Natural(old, Accounts) /\ IsFiniteSet(Accounts)
    BY <1>14, InvoiceConstants DEF Natural
  <2>2. new[payer] = old[payer] + amount /\ new[payer] \in Nat /\ old[payer] \in Nat
        /\ \A a \in Accounts \ {payer} : new[a] = old[a]
    BY <1>2, <1>4, <1>14
  <2>3. SumOver(new, Accounts) = SumOver(old, Accounts) - old[payer] + new[payer]
    BY <1>2, <2>1, <2>2, SumChange
  <2>4. SumOver(old, Accounts) \in Nat
    BY <2>1, SumType
  <2>5. escrow + SumOver(old, Accounts) = funded
    BY DEF RefundInv, old
  <2> QED
    BY <1>1, <1>2, <1>4, <2>2, <2>3, <2>4, <2>5
<1>17. \A j \in PaidOut' :
         /\ invoices'[j].status = "Refunded"
         /\ invoices'[j].breakdown.gross_amount = invoices'[j].price.amount
         /\ Exact(invoices'[j].breakdown)
  BY <1>2, <1>6 DEF RefundInv, b
<1> QED
  BY <1>15, <1>16, <1>17 DEF RefundInv, new, sums2

(* Every kind of step keeps the refunds reconciled.                         *)
LEMMA KindsKeepRefunds ==
  ASSUME RefundInv, TypeLog, Kinds
  PROVE  RefundInv'
<1>1. /\ escrow \in Nat /\ funded \in Nat /\ \A i \in PaidOut : i \in Ids
      /\ invoices \in Seq(InvoiceRecord)
  BY PaidOutFinite DEF TypeLog, InvoiceTypeOK
<1>2. escrow + 0 = escrow /\ funded + 0 = funded /\ 0 \in Int
  BY <1>1
<1>3. CASE Creation
  <2>1. PICK new \in Seq(InvoiceRecord) :
          create_invoice_record(new) /\ \A k \in DOMAIN new : Fresh(new[k])
    BY <1>3 DEF Creation
  <2> DEFINE n == Len(invoices)
             k == Len(new)
  <2>2. /\ Ids = 1 .. n /\ DOMAIN new = 1 .. k
        /\ DOMAIN invoices' = 1 .. n + k
        /\ \A i \in 1 .. n : i \in 1 .. n + k /\ invoices'[i] = invoices[i]
        /\ \A j \in 1 .. k : n + j \in 1 .. n + k /\ invoices'[n + j] = new[j]
        /\ \A i \in 1 .. n + k : i \in 1 .. n \/ \E j \in 1 .. k : i = n + j
    BY <1>1, <2>1, CreatedRecords
  <2> HIDE DEF n, k
  <2>3. \A j \in 1 .. k : invoices'[n + j].breakdown = None
    BY <2>1, <2>2 DEF Fresh
  <2>4. PaidOut' = PaidOut
    BY <2>2, <2>3 DEF PaidOut, Ids
  <2>5. \A i \in PaidOut : invoices'[i] = invoices[i]
    BY <1>1, <2>2
  <2>6. UNCHANGED <<escrow, funded, received>>
    BY <1>3 DEF Creation, tokenVars
  <2> QED
    BY <1>2, <2>4, <2>5, <2>6, SameRefunds
<1>4. ASSUME Operation, Quiet PROVE RefundInv'
  <2>1. /\ DOMAIN invoices' = Ids /\ \A i \in Ids : Advance(invoices[i], invoices'[i])
        /\ \A i \in Ids : invoices'[i].breakdown = invoices[i].breakdown
        /\ UNCHANGED <<escrow, funded, received>>
    BY <1>4 DEF Operation, Revised, Quiet, tokenVars
  <2>2. PaidOut' = PaidOut
    BY <2>1 DEF PaidOut, Ids
  <2>3. \A i \in PaidOut : is_terminal(invoices[i].status)
    BY DEF RefundInv, is_terminal
  <2>4. \A i \in PaidOut : invoices'[i] = invoices[i]
    BY <1>1, <2>1, <2>3 DEF Advance
  <2> QED
    BY <1>2, <2>1, <2>2, <2>4, SameRefunds
<1>5. ASSUME UNCHANGED <<invoices, received>>, NEW d \in Int, escrow' = escrow + d, funded' = funded + d
      PROVE  RefundInv'
  <2>1. PaidOut' = PaidOut
    BY <1>5 DEF PaidOut, Ids
  <2> QED
    BY <1>5, <2>1, SameRefunds
<1>6. CASE Setting
  BY <1>2, <1>5, <1>6 DEF Setting, tokenVars
<1>7. CASE Funding
  <2>1. PICK d \in Nat : escrow' = escrow + d /\ funded' = funded + d
    BY <1>7 DEF Funding
  <2>2. d \in Int /\ UNCHANGED <<invoices, received>>
    BY <1>7 DEF Funding
  <2> QED
    BY <1>5, <2>1, <2>2
<1> QED
  BY <1>3, <1>4, <1>6, <1>7, ProcessRefunds DEF Kinds

(* Nothing came in and nothing was paid out at first.                       *)
LEMMA InitRefunds ==
  ASSUME InvoiceInit
  PROVE  RefundInv
<1>1. Ids = {}
  BY DEF InvoiceInit, Ids
<1>2. PaidOut = {} /\ \A a : PaidTo(a) = {}
  BY <1>1 DEF PaidOut, PaidTo
<1>3. SumOver(Net, {}) = 0
  BY SumEmpty
<1>4. \A a \in Accounts : received[a] = 0
  BY DEF InvoiceInit
<1>5. SumOver(received, Accounts) = 0
  BY <1>4, InvoiceConstants, SumZeros
<1>6. escrow = 0 /\ funded = 0
  BY DEF InvoiceInit
<1> QED
  BY <1>2, <1>3, <1>4, <1>5, <1>6 DEF RefundInv

(* What left the escrow is what the payers of refunded invoices received,   *)
(* each invoice's net amount once and to the payer the closed invoice       *)
(* names; every breakdown's fee is the exact floor of the share, and its    *)
(* parts add up to the gross amount or exceed it and pay nothing.           *)
THEOREM RefundsAlwaysReconcile == InvoiceSpec => []RefundsReconcile
<1>1. InvoiceInit => RefundInv
  BY InitRefunds
<1>2. TypeLog /\ RefundInv /\ [InvoiceNext]_invoiceVars => RefundInv'
  <2>1. ASSUME TypeLog, RefundInv, InvoiceNext PROVE RefundInv'
    BY <2>1, TypePieces, StepKinds, KindsKeepRefunds
  <2>2. ASSUME RefundInv, UNCHANGED invoiceVars PROVE RefundInv'
    <3>1. PaidOut' = PaidOut /\ UNCHANGED <<invoices, escrow, funded, received>>
      BY <2>2 DEF PaidOut, Ids, invoiceVars, tokenVars
    <3>2. Net' = Net /\ \A a : PaidTo(a)' = PaidTo(a)
      BY <3>1 DEF Net, PaidTo
    <3> QED
      BY <2>2, <3>1, <3>2 DEF RefundInv
  <2> QED
    BY <2>1, <2>2
<1>3. RefundInv => RefundsReconcile
  BY RefundInvSuffices
<1> QED
  BY <1>1, <1>2, <1>3, TypeLogAlways, PTL DEF InvoiceSpec

(***************************************************************************)
(* Templates.                                                              *)
(***************************************************************************)
Template ==
  [merchant : Merchants, price : Prices, period : Periods, lifetime : Lifetimes,
   active : BOOLEAN, created_at : Nat, next_run_at : Nat]

(* Slot and NextRun, of a template and an instant.                          *)
SlotOf(T, time) == (time - T.created_at) \div T.period
NextOf(T, time) == T.next_run_at + T.period * ((time - T.next_run_at) \div T.period + 1)

(* The next run is a whole number m > 0 of periods after the creation, and  *)
(* the last scheduled invoice fell in an earlier period.                    *)
OnSchedule(T, runs) ==
  /\ \E m \in Nat \ {0} :
       /\ T.next_run_at = T.created_at + T.period * m
       /\ Len(runs) > 0 => SlotOf(T, runs[Len(runs)]) < m
  /\ \A k \in 1 .. Len(runs) :
       SlotOf(T, runs[k]) > IF k = 1 THEN 0 ELSE SlotOf(T, runs[k - 1])

(* What the schedule rests on.                                              *)
ScheduleInv ==
  /\ templates \in Seq(Template)
  /\ generated \in Seq(Seq(Nat)) /\ DOMAIN generated = TemplateIds
  /\ \A t \in TemplateIds : OnSchedule(templates[t], generated[t])

(* The fields of a template.                                                *)
LEMMA TemplateFields ==
  ASSUME NEW T \in Template
  PROVE  /\ T.period \in Nat /\ T.period > 0 /\ T.created_at \in Nat /\ T.next_run_at \in Nat
         /\ T.merchant \in Merchants /\ T.price \in Prices /\ T.lifetime \in Lifetimes
<1>1. /\ T.period \in Periods /\ T.created_at \in Nat /\ T.next_run_at \in Nat
      /\ T.merchant \in Merchants /\ T.price \in Prices /\ T.lifetime \in Lifetimes
  BY DEF Template
<1>2. Periods \subseteq Nat \ {0}
  BY TemplateAssumption
<1>3. T.period \in Nat \ {0}
  BY <1>1, <1>2
<1>4. T.period \in Nat /\ T.period > 0
  BY <1>3
<1> QED
  BY <1>1, <1>4

(* A due template's next run is after now, and still a whole number of      *)
(* periods after its creation: one more than the period that contains now.  *)
LEMMA NextRunIsLater ==
  ASSUME NEW T \in Template, NEW time \in Nat, NEW m \in Nat,
         T.next_run_at = T.created_at + T.period * m, time >= T.next_run_at
  PROVE  /\ NextOf(T, time) \in Nat /\ NextOf(T, time) > time
         /\ SlotOf(T, time) \in Nat /\ SlotOf(T, time) >= m
         /\ NextOf(T, time) = T.created_at + T.period * (SlotOf(T, time) + 1)
<1> DEFINE p == T.period
           c == T.created_at
           x == T.next_run_at
           late == time - x
           q == late \div p
           r == late % p
<1>1. p \in Nat /\ p > 0 /\ c \in Nat /\ x \in Nat
  BY TemplateFields
<1>2. NextOf(T, time) = x + p * (q + 1) /\ SlotOf(T, time) = (time - c) \div p
  BY DEF NextOf, SlotOf
<1>3. x = c + p * m /\ time >= x
  OBVIOUS
<1> HIDE DEF p, c, x
<1>4. late \in Nat
  BY <1>1, <1>3
<1> HIDE DEF late
<1>5. q \in Nat /\ r \in Nat /\ r < p /\ late = p * q + r
  BY <1>1, <1>4
<1>6. (time - c) \div p = m + q
  <2>1. time - c = p * m + late
    <3> DEFINE y == p * m
    <3>1. y \in Nat /\ x = c + y
      BY <1>1, <1>3
    <3> HIDE DEF y
    <3>2. time - c = y + late
      BY <1>1, <3>1 DEF late
    <3> QED
      BY <3>2 DEF y
  <2>2. (p * m + late) \div p = m + (late \div p)
    BY <1>1, <1>4, DivShift
  <2> QED
    BY <2>1, <2>2
<1> HIDE DEF q, r
<1>7. m + q \in Nat /\ m + q >= m
  BY <1>5
<1>8. x + p * (q + 1) = c + p * ((m + q) + 1)
  BY <1>1, <1>3, <1>5
<1>9. p * (q + 1) = p * q + p /\ p * q \in Nat
  BY <1>1, <1>5
<1>10. time = x + late
  BY <1>1 DEF late
<1>11. x + p * (q + 1) \in Nat /\ x + p * (q + 1) > time
  <2> DEFINE y == p * q
  <2>1. y \in Nat /\ late = y + r /\ p * (q + 1) = y + p
    BY <1>5, <1>9
  <2> HIDE DEF y
  <2> QED
    BY <1>1, <1>4, <1>5, <1>10, <2>1
<1> QED
  BY <1>2, <1>6, <1>7, <1>8, <1>11 DEF c, p

(* Running a due template keeps it on schedule.                             *)
LEMMA RunKeepsSchedule ==
  ASSUME NEW T \in Template, NEW runs \in Seq(Nat), NEW time \in Nat,
         time >= T.next_run_at, OnSchedule(T, runs)
  PROVE  /\ [T EXCEPT !.next_run_at = NextOf(T, time)] \in Template
         /\ OnSchedule([T EXCEPT !.next_run_at = NextOf(T, time)], Append(runs, time))
         /\ NextOf(T, time) > time
<1> DEFINE n == Len(runs)
           new == Append(runs, time)
           U == [T EXCEPT !.next_run_at = NextOf(T, time)]
<1>1. PICK m \in Nat \ {0} :
        /\ T.next_run_at = T.created_at + T.period * m
        /\ n > 0 => SlotOf(T, runs[n]) < m
  BY DEF OnSchedule
<1> DEFINE s == SlotOf(T, time)
<1>2. /\ NextOf(T, time) \in Nat /\ s \in Nat /\ s >= m /\ NextOf(T, time) > time
      /\ NextOf(T, time) = T.created_at + T.period * (s + 1)
  BY <1>1, NextRunIsLater
<1>3. /\ U \in Template
      /\ U.created_at = T.created_at /\ U.period = T.period
      /\ U.next_run_at = NextOf(T, time)
  BY <1>2 DEF Template
<1>4. \A i : SlotOf(U, i) = SlotOf(T, i)
  BY <1>3 DEF SlotOf
<1>5. n \in Nat /\ DOMAIN runs = 1 .. n /\ \A k \in 1 .. n : runs[k] \in Nat
  BY ElementOfSeq
<1>6. /\ new \in Seq(Nat) /\ Len(new) = n + 1 /\ new[n + 1] = time
      /\ \A k \in 1 .. n : new[k] = runs[k]
  BY AppendProperties
<1>7. \A k \in 1 .. n : SlotOf(T, runs[k]) > IF k = 1 THEN 0 ELSE SlotOf(T, runs[k - 1])
  BY DEF OnSchedule
<1>8. \A i \in Nat : SlotOf(T, i) \in Int
  <2>1. T.period \in Nat /\ T.period > 0 /\ T.created_at \in Nat
    BY TemplateFields
  <2> QED
    BY <2>1 DEF SlotOf
<1> HIDE DEF n, new, U
<1>9. ASSUME NEW k \in 1 .. n + 1
      PROVE  SlotOf(U, new[k]) > IF k = 1 THEN 0 ELSE SlotOf(U, new[k - 1])
  <2>1. CASE k \in 1 .. n
    <3>1. new[k] = runs[k] /\ (k # 1 => new[k - 1] = runs[k - 1])
      <4>1. k # 1 => k - 1 \in 1 .. n
        BY <1>5, <2>1
      <4> QED
        BY <1>6, <2>1, <4>1
    <3> QED
      BY <1>4, <1>7, <2>1, <3>1
  <2>2. CASE k = n + 1 /\ n = 0
    BY <1>1, <1>2, <1>4, <1>6, <2>2
  <2>3. CASE k = n + 1 /\ n > 0
    <3>1. k - 1 = n /\ n \in 1 .. n /\ k # 1
      BY <1>5, <2>3
    <3>2. new[k - 1] = runs[n] /\ runs[n] \in Nat /\ new[k] = time
      BY <1>5, <1>6, <2>3, <3>1
    <3>3. SlotOf(T, runs[n]) < m /\ SlotOf(T, runs[n]) \in Int
      BY <1>1, <1>8, <2>3, <3>2
    <3> QED
      BY <1>1, <1>2, <1>4, <3>1, <3>2, <3>3
  <2> QED
    BY <1>5, <2>1, <2>2, <2>3
<1>10. \E l \in Nat \ {0} :
         /\ U.next_run_at = U.created_at + U.period * l
         /\ Len(new) > 0 => SlotOf(U, new[Len(new)]) < l
  <2>1. s + 1 \in Nat \ {0} /\ SlotOf(U, new[Len(new)]) < s + 1
    BY <1>2, <1>4, <1>6
  <2> QED
    BY <1>2, <1>3, <2>1
<1>11. OnSchedule(U, new)
  BY <1>6, <1>9, <1>10 DEF OnSchedule
<1> QED
  BY <1>2, <1>3, <1>11 DEF U, new

(* The keeper's run over its list: the places in the list it invoices.      *)
Invoiced(ids) ==
  {k \in DOMAIN ids : /\ ids[k] \in TemplateIds
                      /\ IsDue(ids[k])
                      /\ \A j \in 1 .. k - 1 : ids[j] # ids[k] \/ NextRun(ids[j]) <= now}

(* Of the places that name one template, the first is invoiced if the       *)
(* template is due, and no other.                                           *)
LEMMA InvoicedOnce ==
  ASSUME ScheduleInv, now \in Nat, NEW ids \in KeeperLists, NEW t \in TemplateIds
  PROVE  \/ /\ {j \in Invoiced(ids) : ids[j] = t} = {}
         \/ /\ \E k \in DOMAIN ids : {j \in Invoiced(ids) : ids[j] = t} = {k}
            /\ IsDue(t)
<1> DEFINE S == {j \in Invoiced(ids) : ids[j] = t}
<1>1. DOMAIN ids \subseteq Nat
  BY DEF KeeperLists
<1>2. IsDue(t) => NextRun(t) \in Nat /\ NextRun(t) > now
  <2>1. SUFFICES ASSUME IsDue(t) PROVE NextRun(t) \in Nat /\ NextRun(t) > now
    OBVIOUS
  <2>2. templates[t] \in Template /\ OnSchedule(templates[t], generated[t])
    BY ElementOfSeq DEF ScheduleInv, TemplateIds
  <2>3. now >= templates[t].next_run_at
    BY <2>1 DEF IsDue
  <2>4. NextOf(templates[t], now) \in Nat /\ NextOf(templates[t], now) > now
    <3>1. \E m \in Nat \ {0} :
            templates[t].next_run_at = templates[t].created_at + templates[t].period * m
      BY <2>2 DEF OnSchedule
    <3> QED
      BY <2>2, <2>3, <3>1, NextRunIsLater
  <2> QED
    BY <2>4 DEF NextOf, NextRun
<1>3. \A j \in S : IsDue(t) /\ j \in DOMAIN ids /\ ids[j] = t
  BY DEF Invoiced
<1>4. ASSUME NEW j \in S, NEW k \in S, j < k PROVE FALSE
  <2>1. j \in 1 .. k - 1
    <3>1. j \in DOMAIN ids /\ k \in DOMAIN ids
      BY <1>3
    <3>2. \A l \in DOMAIN ids : l \in Nat /\ l >= 1
      BY DEF KeeperLists
    <3> QED
      BY <1>4, <3>1, <3>2
  <2>2. ids[j] # ids[k] \/ NextRun(ids[j]) <= now
    BY <2>1 DEF Invoiced
  <2> QED
    BY <1>2, <1>3, <2>2
<1>5. \A j, k \in S : j = k
  <2>1. \A j \in S : j \in Nat
    BY <1>1, <1>3
  <2> HIDE DEF S
  <2> QED
    BY <1>4, <2>1
<1>6. CASE S = {}
  BY <1>6
<1>7. CASE S # {}
  <2>1. PICK k \in S : TRUE
    BY <1>7
  <2>2. S = {k}
    <3> HIDE DEF S
    <3> QED
      BY <1>5, <2>1
  <2> QED
    BY <1>3, <2>1, <2>2
<1> QED
  BY <1>6, <1>7

(* The ids the keeper invoices, in order.                                   *)
LEMMA InvoicedPlaces ==
  ASSUME NEW ids \in KeeperLists
  PROVE  LET at == Only([k \in DOMAIN ids |-> k], Invoiced(ids))
         IN  /\ at \in Seq(Nat) /\ ToSet(at) = Invoiced(ids)
             /\ \A k \in DOMAIN at : at[k] \in Invoiced(ids)
<1> DEFINE places == [k \in DOMAIN ids |-> k]
           at == Only(places, Invoiced(ids))
<1>1. PICK n \in 1 .. 2 : ids \in [1 .. n -> 1 .. MaxTemplates]
  BY DEF KeeperLists
<1>2. places = [k \in 1 .. n |-> k] /\ n \in Nat
  BY <1>1
<1> HIDE DEF places
<1>3. places \in [1 .. n -> Nat] /\ DOMAIN places = 1 .. n /\ \A k \in 1 .. n : places[k] = k
  BY <1>2
<1>4. places \in Seq(Nat)
  BY <1>2, <1>3
<1>5. ListsInOrder(places, 1 .. n)
  BY <1>3 DEF ListsInOrder, ToSet
<1>6. at \in Seq(Nat) /\ ListsInOrder(at, (1 .. n) \cap Invoiced(ids))
  BY <1>4, <1>5, OnlyInOrder
<1>7. Invoiced(ids) \subseteq 1 .. n
  BY <1>1 DEF Invoiced
<1>8. ToSet(at) = Invoiced(ids)
  BY <1>6, <1>7 DEF ListsInOrder
<1>9. \A k \in DOMAIN at : at[k] \in Invoiced(ids)
  BY <1>8 DEF ToSet
<1> QED
  BY <1>6, <1>8, <1>9 DEF places

(* An invoice made from a template.                                         *)
LEMMA FromTemplateIsFresh ==
  ASSUME now \in Nat, NEW t, templates[t] \in Template
  PROVE  Fresh(FromTemplate(t)) /\ FromTemplate(t).nonce = 0
<1>1. /\ templates[t].merchant \in Merchants /\ templates[t].price \in Prices
      /\ templates[t].lifetime \in Lifetimes
  BY TemplateFields
<1>2. 0 \in Nonces \cup {0} /\ None \in Tokens \cup {None}
  OBVIOUS
<1>3. ASSUME NEW m \in Merchants, NEW p \in Prices, NEW d \in Lifetimes
      PROVE  Fresh(NewInvoice(m, p, d, 0, None)) /\ NewInvoice(m, p, d, 0, None).nonce = 0
  BY <1>2, NewInvoiceIsFresh
<1>4. FromTemplate(t) = NewInvoice(templates[t].merchant, templates[t].price,
                                   templates[t].lifetime, 0, None)
  BY DEF FromTemplate
<1> QED
  BY <1>1, <1>3, <1>4

(* Creating invoices from templates is a creation.                          *)
LEMMA TemplateCreation ==
  ASSUME now \in Nat, NEW n \in Nat, NEW src, \A k \in 1 .. n : templates[src[k]] \in Template,
         create_invoice_record([k \in 1 .. n |-> FromTemplate(src[k])]),
         UNCHANGED <<settingVars, tokenVars, now>>
  PROVE  Creation
<1> DEFINE new == [k \in 1 .. n |-> FromTemplate(src[k])]
<1>1. \A k \in 1 .. n : Fresh(new[k]) /\ new[k].nonce = 0
  BY FromTemplateIsFresh
<1>2. \A k \in 1 .. n : new[k] \in InvoiceRecord
  BY <1>1 DEF Fresh
<1>3. new \in [1 .. n -> InvoiceRecord]
  BY <1>2
<1>4. create_invoice_record(new) /\ DOMAIN new = 1 .. n
  OBVIOUS
<1> HIDE DEF new
<1>5. new \in Seq(InvoiceRecord)
  BY <1>3
<1> QED
  BY <1>1, <1>4, <1>5 DEF Creation

(* The keeper's call is a creation and keeps every template on schedule.    *)
LEMMA KeeperStep ==
  ASSUME ScheduleInv, now \in Nat, NEW ids \in KeeperLists, generate_due_invoices(ids)
  PROVE  Creation /\ ScheduleInv'
<1> DEFINE first == Invoiced(ids)
           at == Only([k \in DOMAIN ids |-> k], first)
           due == [k \in DOMAIN at |-> ids[at[k]]]
           Times(t) == [k \in 1 .. Cardinality({j \in first : ids[j] = t}) |-> now]
<1>1. /\ create_invoice_record([k \in DOMAIN due |-> FromTemplate(due[k])])
      /\ templates' = [t \in TemplateIds |->
           IF t \in ToSet(due) THEN [templates[t] EXCEPT !.next_run_at = NextRun(t)]
           ELSE templates[t]]
      /\ generated' = [t \in TemplateIds |-> generated[t] \o Times(t)]
      /\ UNCHANGED <<settingVars, tokenVars, now, listed>>
  BY DEF generate_due_invoices, Invoiced
<1>2. at \in Seq(Nat) /\ ToSet(at) = first /\ \A k \in DOMAIN at : at[k] \in first
  BY InvoicedPlaces
<1>3. \A t \in TemplateIds : templates[t] \in Template /\ generated[t] \in Seq(Nat)
  BY ElementOfSeq DEF ScheduleInv, TemplateIds
<1>4. \A j \in first : ids[j] \in TemplateIds
  BY DEF Invoiced
<1> HIDE DEF first, at
<1>5. Creation
  <2>1. Len(at) \in Nat /\ DOMAIN due = 1 .. Len(at)
    BY <1>2
  <2>2. \A k \in 1 .. Len(at) : templates[due[k]] \in Template
    BY <1>2, <1>3, <1>4
  <2> HIDE DEF due
  <2> QED
    BY <1>1, <2>1, <2>2, TemplateCreation
<1>6. \A t : t \in ToSet(due) <=> {j \in first : ids[j] = t} # {}
  <2>1. ToSet(due) = {ids[at[k]] : k \in DOMAIN at}
    BY DEF ToSet
  <2>2. \A j \in first : \E k \in DOMAIN at : at[k] = j
    BY <1>2 DEF ToSet
  <2> QED
    BY <1>2, <2>1, <2>2
<1> HIDE DEF due, Times
<1>7. ASSUME NEW t \in TemplateIds
      PROVE  /\ templates'[t] \in Template /\ generated'[t] \in Seq(Nat)
             /\ OnSchedule(templates'[t], generated'[t])
  <2> DEFINE S == {j \in first : ids[j] = t}
  <2>1. generated'[t] = generated[t] \o Times(t)
    BY <1>1
  <2>2. OnSchedule(templates[t], generated[t])
    BY DEF ScheduleInv
  <2>3. S = {} \/ ((\E k \in DOMAIN ids : S = {k}) /\ IsDue(t))
    BY InvoicedOnce DEF first
  <2>4. CASE S = {}
    <3>1. templates'[t] = templates[t]
      BY <1>1, <1>6, <2>4
    <3>2. Cardinality(S) = 0
      BY <2>4, FS_EmptySet
    <3>3. Times(t) = <<>>
      <4>1. 1 .. 0 = {}
        OBVIOUS
      <4>2. Times(t) = [k \in 1 .. 0 |-> now]
        BY <3>2 DEF Times
      <4>3. Times(t) = [k \in {} |-> now]
        BY <4>1, <4>2
      <4> QED
        BY <4>3
    <3>4. generated'[t] = generated[t]
      BY <1>3, <2>1, <3>3, ConcatEmptySeq
    <3> QED
      BY <1>3, <2>2, <3>1, <3>4
  <2>5. ASSUME NEW k \in DOMAIN ids, S = {k}, IsDue(t)
        PROVE  /\ templates'[t] \in Template /\ generated'[t] \in Seq(Nat)
               /\ OnSchedule(templates'[t], generated'[t])
    <3>1. templates'[t] = [templates[t] EXCEPT !.next_run_at = NextOf(templates[t], now)]
      BY <1>1, <1>6, <2>5 DEF NextRun, NextOf
    <3>2. Cardinality(S) = 1
      BY <2>5, FS_Singleton
    <3>3. Times(t) = <<now>>
      <4>1. Times(t) = [l \in 1 .. 1 |-> now]
        BY <3>2 DEF Times
      <4> QED
        BY <4>1
    <3>4. generated'[t] = Append(generated[t], now)
      BY <1>3, <2>1, <3>3, AppendIsConcat
    <3>5. now >= templates[t].next_run_at
      BY <2>5 DEF IsDue
    <3>6. Append(generated[t], now) \in Seq(Nat)
      BY <1>3, AppendProperties
    <3> QED
      BY <1>3, <2>2, <3>1, <3>4, <3>5, <3>6, RunKeepsSchedule
  <2> QED
    BY <2>3, <2>4, <2>5
<1>8. DOMAIN templates' = TemplateIds /\ DOMAIN generated' = TemplateIds
  BY <1>1
<1>9. PICK n \in Nat : TemplateIds = 1 .. n
  BY DEF ScheduleInv, TemplateIds
<1>10. templates' \in Seq(Template)
  <2>1. templates' = [t \in 1 .. n |-> templates'[t]]
    BY <1>1, <1>9
  <2>2. \A t \in 1 .. n : templates'[t] \in Template
    BY <1>7, <1>9
  <2> QED
    BY <2>1, <2>2
<1>11. generated' \in Seq(Seq(Nat))
  <2>1. generated' = [t \in 1 .. n |-> generated'[t]]
    BY <1>1, <1>9
  <2>2. \A t \in 1 .. n : generated'[t] \in Seq(Nat)
    BY <1>7, <1>9
  <2> QED
    BY <2>1, <2>2
<1> QED
  BY <1>5, <1>7, <1>8, <1>10, <1>11 DEF ScheduleInv, TemplateIds

(* create_template adds a template whose first run is a period away.        *)
LEMMA CreateTemplateStep ==
  ASSUME ScheduleInv, now \in Nat, NEW m \in Merchants, NEW p \in Prices, NEW r \in Periods,
         NEW d \in Lifetimes, create_template(m, p, r, d)
  PROVE  ScheduleInv'
<1> DEFINE T == [merchant |-> m, price |-> p, period |-> r, lifetime |-> d,
                 active |-> TRUE, created_at |-> now, next_run_at |-> now + r]
           none == <<>>
           n == Len(templates)
<1>1. r \in Nat
  <2>1. Periods \subseteq Nat \ {0}
    BY TemplateAssumption
  <2> QED
    BY <2>1
<1>2. /\ T \in Template
      /\ T.next_run_at = now + r /\ T.created_at = now /\ T.period = r
  BY <1>1 DEF Template
<1>3. templates' = Append(templates, T) /\ generated' = Append(generated, none)
  BY DEF create_template
<1>4. none \in Seq(Nat) /\ Len(none) = 0
  OBVIOUS
<1> HIDE DEF T, none
<1>5. OnSchedule(T, none)
  <2>1. T.next_run_at = T.created_at + T.period * 1
    BY <1>1, <1>2
  <2>2. 1 \in Nat \ {0} /\ ~ (0 > 0) /\ 1 .. 0 = {}
    OBVIOUS
  <2> QED
    BY <1>4, <2>1, <2>2 DEF OnSchedule
<1>6. /\ templates \in Seq(Template) /\ generated \in Seq(Seq(Nat))
      /\ n \in Nat /\ TemplateIds = 1 .. n /\ DOMAIN generated = 1 .. n /\ Len(generated) = n
      /\ \A t \in 1 .. n : OnSchedule(templates[t], generated[t])
  BY DEF ScheduleInv, TemplateIds
<1>7. /\ templates' \in Seq(Template) /\ Len(templates') = n + 1
      /\ templates'[n + 1] = T /\ \A t \in 1 .. n : templates'[t] = templates[t]
  BY <1>2, <1>3, <1>6, AppendProperties
<1>8. /\ generated' \in Seq(Seq(Nat)) /\ Len(generated') = n + 1
      /\ generated'[n + 1] = none /\ \A t \in 1 .. n : generated'[t] = generated[t]
  BY <1>3, <1>4, <1>6, AppendProperties
<1>9. DOMAIN templates' = 1 .. n + 1 /\ DOMAIN generated' = 1 .. n + 1
  BY <1>7, <1>8
<1> HIDE DEF n
<1>10. ASSUME NEW t \in 1 .. n + 1 PROVE OnSchedule(templates'[t], generated'[t])
  <2>1. t \in 1 .. n \/ t = n + 1
    BY <1>6
  <2> QED
    BY <1>5, <1>6, <1>7, <1>8, <2>1
<1> QED
  BY <1>7, <1>8, <1>9, <1>10 DEF ScheduleInv, TemplateIds

(* Switching a template off and on keeps its schedule.                      *)
LEMMA SetActiveStep ==
  ASSUME ScheduleInv, NEW t \in TemplateIds, NEW b \in BOOLEAN, set_template_active(t, b)
  PROVE  ScheduleInv'
<1> DEFINE T == [templates[t] EXCEPT !.active = b]
<1>1. templates[t] \in Template /\ OnSchedule(templates[t], generated[t])
  BY ElementOfSeq DEF ScheduleInv, TemplateIds
<1>2. /\ T \in Template /\ T.created_at = templates[t].created_at
      /\ T.next_run_at = templates[t].next_run_at /\ T.period = templates[t].period
  BY <1>1 DEF Template
<1>3. templates' = [templates EXCEPT ![t] = T] /\ generated' = generated
  BY DEF set_template_active, TemplateIds
<1> HIDE DEF T
<1>4. OnSchedule(T, generated[t])
  BY <1>1, <1>2 DEF OnSchedule, SlotOf
<1>5. templates' \in Seq(Template) /\ DOMAIN templates' = TemplateIds
  BY <1>2, <1>3, ExceptSeq DEF ScheduleInv, TemplateIds
<1>6. \A u \in TemplateIds : OnSchedule(templates'[u], generated'[u])
  BY <1>3, <1>4 DEF ScheduleInv, TemplateIds
<1> QED
  BY <1>3, <1>5, <1>6 DEF ScheduleInv, TemplateIds

(* Of every step of the composition, what it is to the invoice contract and *)
(* what it does to the schedule.                                            *)
LEMMA TemplateKinds ==
  ASSUME TypeLog, ScheduleInv, TemplateNext
  PROVE  (Kinds \/ UNCHANGED invoiceVars) /\ ScheduleInv'
<1>1. RecordsOK /\ SettingsOK /\ now \in Nat
  BY TypePieces DEF RecordsOK
<1>2. ASSUME UNCHANGED templateVars PROVE ScheduleInv'
  BY <1>2 DEF ScheduleInv, TemplateIds, templateVars
<1>3. ASSUME NEW m \in Merchants, NEW p \in Prices, NEW r \in Periods, NEW d \in Lifetimes,
             create_template(m, p, r, d)
      PROVE  UNCHANGED invoiceVars /\ ScheduleInv'
  BY <1>1, <1>3, CreateTemplateStep DEF create_template
<1>4. ASSUME NEW t \in TemplateIds, NEW b \in BOOLEAN, set_template_active(t, b)
      PROVE  UNCHANGED invoiceVars /\ ScheduleInv'
  BY <1>4, SetActiveStep DEF set_template_active
<1>5. ASSUME NEW t \in TemplateIds, generate_from_template(t)
      PROVE  Kinds /\ ScheduleInv'
  <2> DEFINE src == [k \in 1 .. 1 |-> t]
  <2>1. templates[t] \in Template
    BY ElementOfSeq DEF ScheduleInv, TemplateIds
  <2>2. [k \in 1 .. 1 |-> FromTemplate(src[k])] = <<FromTemplate(t)>>
    OBVIOUS
  <2>3. \A k \in 1 .. 1 : templates[src[k]] \in Template
    BY <2>1
  <2>4. create_invoice_record([k \in 1 .. 1 |-> FromTemplate(src[k])])
        /\ UNCHANGED <<settingVars, tokenVars, now>>
    <3> HIDE DEF src
    <3> QED
      BY <1>5, <2>2 DEF generate_from_template
  <2>5. Creation
    <3> HIDE DEF src
    <3> QED
      BY <1>1, <2>3, <2>4, TemplateCreation
  <2> QED
    BY <1>2, <1>5, <2>5 DEF Kinds, generate_from_template
<1>6. ASSUME NEW ids \in KeeperLists, generate_due_invoices(ids)
      PROVE  Kinds /\ ScheduleInv'
  BY <1>1, <1>6, KeeperStep DEF Kinds
<1>7. CASE read_pending_ids
  BY <1>2, <1>7 DEF read_pending_ids
<1>8. CASE expire_listed
  <2>1. (\E n : batch_expire(SubSeq(listed, 1, n))) /\ UNCHANGED templateVars
    BY <1>8 DEF expire_listed
  <2>2. Operation /\ Quiet /\ PayerIndexed
    BY <1>1, <2>1, ExpireKind
  <2> QED
    BY <1>2, <2>1, <2>2 DEF Kinds
<1>9. CASE InvoiceNext /\ UNCHANGED <<templateVars, listed>>
  BY <1>1, <1>2, <1>9, StepKinds
<1> QED
  BY <1>3, <1>4, <1>5, <1>6, <1>7, <1>8, <1>9 DEF TemplateNext

(* The invariant of the composition.                                        *)
ComposedInv == TypeLog /\ ScheduleInv /\ ListingInv /\ RefundInv

(* A step that leaves the invoice contract alone.                           *)
LEMMA SameInvoices ==
  ASSUME TypeLog, ListingInv, RefundInv, UNCHANGED invoiceVars
  PROVE  TypeLog' /\ ListingInv' /\ RefundInv'
<1>1. TypeLog'
  BY StutterTypes
<1>2. ListingInv'
  BY SameListings DEF invoiceVars
<1>3. RefundInv'
  <2>1. UNCHANGED <<invoices, escrow, funded, received>>
    BY DEF invoiceVars, tokenVars
  <2>2. PaidOut' = PaidOut
    BY <2>1 DEF PaidOut, Ids
  <2>3. escrow \in Nat /\ funded \in Nat
    BY DEF TypeLog, InvoiceTypeOK
  <2>4. 0 \in Int /\ escrow' = escrow + 0 /\ funded' = funded + 0
    BY <2>1, <2>3
  <2> QED
    BY <2>1, <2>2, <2>4, SameRefunds
<1> QED
  BY <1>1, <1>2, <1>3

(* The composition keeps its invariant.                                     *)
LEMMA ComposedAlways == TemplateSpec => []ComposedInv
<1>1. TemplateInit => ComposedInv
  <2>1. ASSUME TemplateInit PROVE TypeLog /\ ListingInv /\ RefundInv
    BY <2>1, InitTypes, InitListings, InitRefunds DEF TemplateInit
  <2>2. ASSUME TemplateInit PROVE ScheduleInv
    BY <2>2 DEF TemplateInit, ScheduleInv, TemplateIds
  <2> QED
    BY <2>1, <2>2 DEF ComposedInv
<1>2. ComposedInv /\ [TemplateNext]_vars => ComposedInv'
  <2>1. ASSUME TypeLog, ScheduleInv, ListingInv, RefundInv, TemplateNext PROVE ComposedInv'
    <3>1. (Kinds \/ UNCHANGED invoiceVars) /\ ScheduleInv'
      BY <2>1, TemplateKinds
    <3>2. TypeLog' /\ ListingInv' /\ RefundInv'
      BY <2>1, <3>1, KindsKeepTypes, KindsKeepListings, KindsKeepRefunds, SameInvoices
    <3> QED
      BY <3>1, <3>2 DEF ComposedInv
  <2>2. ASSUME TypeLog, ScheduleInv, ListingInv, RefundInv, UNCHANGED vars PROVE ComposedInv'
    <3>1. TypeLog' /\ ListingInv' /\ RefundInv'
      BY <2>2, SameInvoices DEF vars
    <3>2. ScheduleInv'
      BY <2>2 DEF vars, templateVars, ScheduleInv, TemplateIds
    <3> QED
      BY <3>1, <3>2 DEF ComposedInv
  <2> QED
    BY <2>1, <2>2 DEF ComposedInv
<1> QED
  BY <1>1, <1>2, PTL DEF TemplateSpec

(* No two scheduled invoices of a template fall in one period, and none in  *)
(* the period it was created in: however late and however often the keeper  *)
(* calls, and whatever it repeats in its list.                              *)
THEOREM PeriodsInvoicedOnce == TemplateSpec => []PeriodInvoicedOnce
<1>1. ComposedInv => PeriodInvoicedOnce
  <2>1. ASSUME ScheduleInv, NEW t \in TemplateIds, NEW k \in DOMAIN generated[t]
        PROVE  Slot(t, generated[t][k]) > IF k = 1 THEN 0 ELSE Slot(t, generated[t][k - 1])
    <3>1. generated[t] \in Seq(Nat) /\ OnSchedule(templates[t], generated[t])
      BY <2>1, ElementOfSeq DEF ScheduleInv
    <3>2. k \in 1 .. Len(generated[t])
      BY <3>1
    <3>3. \A time : Slot(t, time) = SlotOf(templates[t], time)
      BY DEF Slot, SlotOf
    <3> QED
      BY <3>1, <3>2, <3>3 DEF OnSchedule
  <2> QED
    BY <2>1 DEF ComposedInv, PeriodInvoicedOnce
<1> QED
  BY <1>1, ComposedAlways, PTL

(* Templates, the keeper and an expiry job with a stale list break none of  *)
(* the invoice contract's invariants.                                       *)
THEOREM TemplatesKeepTheInvoices ==
  TemplateSpec => [](InvoiceTypeOK /\ ListingsAgree /\ HistoryReplays /\ RefundsReconcile)
<1>1. ComposedInv => InvoiceTypeOK /\ ListingsAgree /\ HistoryReplays /\ RefundsReconcile
  <2>1. ASSUME ComposedInv PROVE InvoiceTypeOK /\ HistoryReplays
    BY <2>1, HistoryReplaysEach DEF ComposedInv, TypeLog, InvoiceTypeOK
  <2>2. ASSUME ComposedInv PROVE ListingsAgree /\ RefundsReconcile
    BY <2>2, ListingInvSuffices, RefundInvSuffices DEF ComposedInv
  <2> QED
    BY <2>1, <2>2
<1> QED
  BY <1>1, ComposedAlways, PTL

(* Nor do they write an invoice whose status is terminal.                   *)
THEOREM TemplatesKeepTerminalInvoices == TemplateSpec => TerminalIsFinal
<1>1. ComposedInv /\ [TemplateNext]_vars =>
        [\A i \in Ids : is_terminal(invoices[i].status) => invoices'[i] = invoices[i]]_invoices
  <2>1. ASSUME ComposedInv, TemplateNext
        PROVE  \/ \A i \in Ids : is_terminal(invoices[i].status) => invoices'[i] = invoices[i]
               \/ UNCHANGED invoices
    BY <2>1, TemplateKinds, KindsKeepTerminal DEF ComposedInv, invoiceVars
  <2> QED
    BY <2>1 DEF vars, invoiceVars
<1> QED
  BY <1>1, ComposedAlways, PTL DEF TemplateSpec, TerminalIsFinal
=============================================================================
