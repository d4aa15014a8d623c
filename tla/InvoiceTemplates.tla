-------------------------- MODULE InvoiceTemplates --------------------------
(***************************************************************************)
(* Recurring invoice templates and the permissionless keeper that turns    *)
(* due templates into invoices (contracts/invoice, templates), composed    *)
(* with the invoice contract and with an expiry job.                       *)
(*                                                                         *)
(* The expiry job is external and an assumption: the repository holds no   *)
(* such job, only the two entrypoints one would be written with and the    *)
(* remark that callers may "pass stale or cached ID lists". It reads       *)
(* get_pending_ids in one call and, in later calls, passes what it read to *)
(* batch_expire, page by page, as MAX_BATCH_EXPIRE makes it.               *)
(***************************************************************************)
EXTENDS Invoice

CONSTANTS
  Periods,       \* the lengths of the recurrence intervals
  MaxTemplates   \* bound on the templates created

ASSUME TemplateAssumption ==
  /\ Periods \subseteq Nat \ {0}
  /\ MaxTemplates \in Nat

VARIABLES
  templates,   \* DataKey::Template(1 .. TemplateCount), in order of id
  generated,   \* history: when the keeper invoiced each template
  listed       \* external: the ids the expiry job read and has yet to pass

templateVars == <<templates, generated>>
vars == <<invoiceVars, templateVars, listed>>

TemplateIds == DOMAIN templates

TemplateInit ==
  /\ InvoiceInit
  /\ templates = <<>>
  /\ generated = <<>>
  /\ listed = <<>>

(* create_template: the first run is a full period away. MerchantTemplates, *)
(* which only the listing reads, is left out.                               *)
create_template(merchant, price, period, lifetime) ==
  /\ ~paused
  /\ Len(templates) < MaxTemplates
  /\ templates' = Append(templates,
       [merchant |-> merchant, price |-> price, period |-> period, lifetime |-> lifetime,
        active |-> TRUE, created_at |-> now, next_run_at |-> now + period])
  /\ generated' = Append(generated, <<>>)
  /\ UNCHANGED <<invoiceVars, listed>>

(* set_template_active, by the merchant or the admin; works while paused.   *)
set_template_active(t, active) ==
  /\ templates' = [templates EXCEPT ![t].active = active]
  /\ UNCHANGED <<invoiceVars, generated, listed>>

FromTemplate(t) ==
  NewInvoice(templates[t].merchant, templates[t].price, templates[t].lifetime, 0, None)

(* generate_from_template: on demand, outside the schedule.                 *)
generate_from_template(t) ==
  /\ ~paused
  /\ templates[t].active
  /\ create_invoice_record(<<FromTemplate(t)>>)
  /\ UNCHANGED <<settingVars, tokenVars, now, templateVars, listed>>

(* Mutant: a keeper that comes a whole period late finds nothing to do.     *)
OnTimeOnly(t) ==
  /\ templates[t].active
  /\ now >= templates[t].next_run_at
  /\ now < templates[t].next_run_at + templates[t].period

IsDue(t) == templates[t].active /\ now >= templates[t].next_run_at

(* Mutant: the schedule moves by one period, however late the keeper is.    *)
NextPeriod(t) == templates[t].next_run_at + templates[t].period

(* The first scheduled instant after now; periods nobody ran are skipped.   *)
NextRun(t) ==
  LET late == now - templates[t].next_run_at
  IN  templates[t].next_run_at + templates[t].period * (late \div templates[t].period + 1)

(* generate_due_invoices: one invoice for each due template listed, in the  *)
(* order of the list. A template listed twice is due only the first time,   *)
(* its schedule having moved past now.                                      *)
generate_due_invoices(ids) ==
  LET first == {k \in DOMAIN ids : /\ ids[k] \in TemplateIds
                                   /\ IsDue(ids[k])
                                   /\ \A j \in 1 .. k - 1 : ids[j] # ids[k] \/ NextRun(ids[j]) <= now}
      at == Only([k \in DOMAIN ids |-> k], first)
      due == [k \in DOMAIN at |-> ids[at[k]]]
  IN  /\ ~paused
      /\ create_invoice_record([k \in DOMAIN due |-> FromTemplate(due[k])])
      /\ templates' = [t \in TemplateIds |->
           IF t \in ToSet(due) THEN [templates[t] EXCEPT !.next_run_at = NextRun(t)]
           ELSE templates[t]]
      /\ generated' = [t \in TemplateIds |->
           generated[t] \o [k \in 1 .. Cardinality({j \in first : ids[j] = t}) |-> now]]
      /\ UNCHANGED <<settingVars, tokenVars, now, listed>>

(* External: the expiry job, done with one list, reads the next one.        *)
read_pending_ids ==
  /\ listed = <<>>
  /\ listed' = pendingIndex
  /\ UNCHANGED <<invoiceVars, templateVars>>

(* External: the expiry job passes the next page of its list.               *)
expire_listed ==
  LET page == IF Len(listed) < MAX_BATCH_EXPIRE THEN Len(listed) ELSE MAX_BATCH_EXPIRE
  IN  /\ listed # <<>>
      /\ batch_expire(SubSeq(listed, 1, page))
      /\ listed' = SubSeq(listed, page + 1, Len(listed))
      /\ UNCHANGED templateVars

(* The lists a keeper passes: at most two ids, repeated or unknown ones too.*)
KeeperLists == UNION {[1 .. n -> 1 .. MaxTemplates] : n \in 1 .. 2}

TemplateNext ==
  \/ \E m \in Merchants, p \in Prices, r \in Periods, d \in Lifetimes :
       create_template(m, p, r, d)
  \/ \E t \in TemplateIds, b \in BOOLEAN : set_template_active(t, b)
  \/ \E t \in TemplateIds : generate_from_template(t)
  \/ \E ids \in KeeperLists : generate_due_invoices(ids)
  \/ read_pending_ids
  \/ expire_listed
  \/ InvoiceNext /\ UNCHANGED <<templateVars, listed>>

(* What is assumed of the deployment: ledgers keep closing, somebody keeps  *)
(* calling the keeper for each template ("Scheduled generation is           *)
(* permissionless: a keeper calls generate_due_invoices"), and the admin    *)
(* runs an expiry job. Nothing else is bound to happen.                     *)
Fairness ==
  /\ WF_vars(Tick /\ UNCHANGED <<templateVars, listed>>)
  /\ \A t \in 1 .. MaxTemplates : WF_vars(generate_due_invoices(<<t>>))
  /\ WF_vars(read_pending_ids)
  /\ WF_vars(expire_listed)

TemplateSpec == TemplateInit /\ [][TemplateNext]_vars /\ Fairness

(***************************************************************************)
(* Properties.                                                             *)
(***************************************************************************)
(* The period, counted from the template's creation, an instant falls in.   *)
Slot(t, time) == (time - templates[t].created_at) \div templates[t].period

(* "A period can never be invoiced twice" (generate_due_invoices): however  *)
(* late, often, or repetitively the keeper is called, and however often the *)
(* template is switched off and on, no two scheduled invoices of a template *)
(* fall in one period, and none in the period it was created in.            *)
PeriodInvoicedOnce ==
  \A t \in TemplateIds :
    \A k \in DOMAIN generated[t] :
      Slot(t, generated[t][k]) > IF k = 1 THEN 0 ELSE Slot(t, generated[t][k - 1])

Room == Len(invoices) < MaxInvoices
Due(t) == t \in TemplateIds /\ templates[t].active /\ now >= templates[t].next_run_at

(* A template left active on a contract left unpaused does not stay due:    *)
(* the keeper's calls eventually invoice it, however late they begin.       *)
DueTemplatesAreInvoiced ==
  \A t \in 1 .. MaxTemplates :
    <>[](~paused /\ Room) => []<>~Due(t)

Overdue(i) ==
  i \in Ids /\ invoices[i].status = "Pending" /\ now >= invoices[i].expires_at

(* If the admin runs an expiry job, then on a contract left unpaused no     *)
(* invoice stays overdue: a job that only ever sees the pending index, sees *)
(* it late, and may pass no more than MAX_BATCH_EXPIRE ids of it in a call  *)
(* reaches every overdue invoice, batch-created and generated ones too.     *)
OverdueInvoicesExpire ==
  \A i \in 1 .. MaxInvoices : <>[]~paused => []<>~Overdue(i)
=============================================================================
