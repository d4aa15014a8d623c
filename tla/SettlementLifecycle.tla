------------------------ MODULE SettlementLifecycle -------------------------
(***************************************************************************)
(* What the treasury promises about one settlement, without signers,       *)
(* weights, indexes, disputes or time: ids are handed out in order, a live *)
(* settlement may be held and released, and it ends exactly once - paid in *)
(* full, paid in part, or closed unpaid - with its merchant holding exactly*)
(* what that end says. Batches end several settlements in one step.        *)
(***************************************************************************)
EXTENDS Integers

CONSTANT Ids

VARIABLES
  stage,     \* the stage of each settlement's life
  due,       \* the amount its signers agreed on
  received   \* what its merchant received

lifecycleVars == <<stage, due, received>>

LifecycleInit ==
  /\ stage = [i \in Ids |-> "unborn"]
  /\ due = [i \in Ids |-> 0]
  /\ received = [i \in Ids |-> 0]

Open(i, amount) ==
  /\ stage[i] = "unborn"
  /\ \A j \in Ids : j < i => stage[j] # "unborn"
  /\ amount > 0
  /\ stage' = [stage EXCEPT ![i] = "open"]
  /\ due' = [due EXCEPT ![i] = amount]
  /\ UNCHANGED received

Hold(i) ==
  /\ stage[i] = "open"
  /\ stage' = [stage EXCEPT ![i] = "held"]
  /\ UNCHANGED <<due, received>>

Release(i) ==
  /\ stage[i] = "held"
  /\ stage' = [stage EXCEPT ![i] = "open"]
  /\ UNCHANGED <<due, received>>

Live(ids) == \A i \in ids : stage[i] \in {"open", "held"}

Pay(ids) ==
  /\ Live(ids)
  /\ stage' = [i \in Ids |-> IF i \in ids THEN "paid" ELSE stage[i]]
  /\ received' = [i \in Ids |-> IF i \in ids THEN due[i] ELSE received[i]]
  /\ UNCHANGED due

(* One partial payout ends the settlement. The comments beside the code     *)
(* speak of several that add up; the code takes only the first.             *)
PayPart(i, part) ==
  /\ stage[i] = "open"
  /\ 0 < part /\ part < due[i]
  /\ stage' = [stage EXCEPT ![i] = "part_paid"]
  /\ received' = [received EXCEPT ![i] = part]
  /\ UNCHANGED due

Close(ids) ==
  /\ Live(ids)
  /\ stage' = [i \in Ids |-> IF i \in ids THEN "closed" ELSE stage[i]]
  /\ UNCHANGED <<due, received>>

LifecycleNext ==
  \/ \E i \in Ids : Hold(i) \/ Release(i)
  \/ \E i \in Ids : Open(i, due'[i])
  \/ \E i \in Ids : PayPart(i, received'[i])
  \/ \E ids \in SUBSET Ids : Pay(ids) \/ Close(ids)

LifecycleSpec == LifecycleInit /\ [][LifecycleNext]_lifecycleVars
=============================================================================
