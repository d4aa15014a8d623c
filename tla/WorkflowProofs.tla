--------------------------- MODULE WorkflowProofs ---------------------------
(***************************************************************************)
(* Proofs about the settlement workflow, for any number of settlements,    *)
(* merchants, callers and targets, any lists of targets and of ids.        *)
(*                                                                         *)
(* The loop of a batch is a fold. Its rounds are laid out as a function of *)
(* the position in the list, so that what holds after the round of an id   *)
(* and is kept by every later round holds at the end.                      *)
(***************************************************************************)
EXTENDS SettlementWorkflow, AggregateProofs

(* The states before and after each round of the batch's loop.              *)
Rounds(f, base, ids) ==
  /\ f[0] = base
  /\ \A k \in 1 .. Len(ids) : f[k] = try_execute_settlement(f[k - 1], ids[k])

(* The loop is its rounds, one after the other.                             *)
LEMMA BatchRounds ==
  ASSUME NEW V, NEW base \in V, NEW T, NEW ids \in Seq(T),
         \A s \in V, i \in T : try_execute_settlement(s, i) \in V
  PROVE  \E f \in [0 .. Len(ids) -> V] :
           /\ Rounds(f, base, ids)
           /\ FoldLeft(try_execute_settlement, base, ids) = f[Len(ids)]
<1> DEFINE n == Len(ids)
           Round(F, B) == IF B = {} THEN base
                          ELSE try_execute_settlement(F[B \ {Max(B)}], ids[Max(B)])
           step == [p \in (1 .. n) \X V |-> try_execute_settlement(p[2], ids[p[1]])]
           g == CHOOSE F : F = [B \in SUBSET (1 .. n) |-> Round(F, B)]
<1>1. n \in Nat /\ DOMAIN ids = 1 .. n /\ \A k \in 1 .. n : ids[k] \in T
  BY ElementOfSeq
<1>2. FoldLeft(try_execute_settlement, base, ids) = g[1 .. n]
  <2>1. FoldLeft(try_execute_settlement, base, ids)
          = (CHOOSE F : F = [B \in SUBSET (DOMAIN ids) |-> Round(F, B)])[DOMAIN ids]
    BY DEF FoldLeft, MapThenFoldSet
  <2> QED
    BY <1>1, <2>1
<1>3. g = [B \in SUBSET (1 .. n) |-> Round(g, B)]
  <2>1. step \in [(1 .. n) \X V -> V]
    BY <1>1
  <2>2. PICK F \in [SUBSET (1 .. n) -> V] : IsLoop(n, step, base, F)
    <3> HIDE DEF step, n
    <3> QED
      BY <1>1, <2>1, LoopExists
  <2>3. ASSUME NEW B \in SUBSET (1 .. n)
        PROVE  LoopStep(step, base, F, B) = Round(F, B)
    <3>1. CASE B = {}
      BY <3>1 DEF LoopStep
    <3>2. CASE B # {}
      <4>1. Max(B) \in 1 .. n
        BY <1>1, <3>2, MaxIsIn
      <4>2. F[B \ {Max(B)}] \in V
        OBVIOUS
      <4> HIDE DEF n
      <4>3. step[<<Max(B), F[B \ {Max(B)}]>>]
              = try_execute_settlement(F[B \ {Max(B)}], ids[Max(B)])
        BY <4>1, <4>2
      <4> HIDE DEF step
      <4> QED
        BY <3>2, <4>3 DEF LoopStep
    <3> QED
      BY <3>1, <3>2
  <2>4. F = [B \in SUBSET (1 .. n) |-> Round(F, B)]
    <3> DEFINE H == [B \in SUBSET (1 .. n) |-> Round(F, B)]
    <3>1. \A B \in SUBSET (1 .. n) : F[B] = LoopStep(step, base, F, B) /\ H[B] = Round(F, B)
      <4> HIDE DEF Round, step, n
      <4> QED
        BY <2>2 DEF IsLoop
    <3>2. DOMAIN F = SUBSET (1 .. n) /\ DOMAIN H = SUBSET (1 .. n)
          /\ F = [B \in DOMAIN F |-> F[B]] /\ H = [B \in DOMAIN H |-> H[B]]
      <4> HIDE DEF Round, step, n
      <4> QED
        BY <2>2
    <3> HIDE DEF Round, step, n, H
    <3>3. F = H
      BY <2>3, <3>1, <3>2
    <3> QED
      BY <3>3 DEF H
  <2> HIDE DEF Round, n
  <2> QED
    BY <2>4
<1> HIDE DEF g
<1>4. ASSUME NEW k \in 1 .. n
      PROVE  g[1 .. k] = try_execute_settlement(g[1 .. k - 1], ids[k])
  <2>1. /\ 1 .. k \in SUBSET (1 .. n) /\ k \in 1 .. k /\ (1 .. k) \ {k} = 1 .. k - 1
        /\ k \in Nat
    BY <1>1, UpTo
  <2>2. Max(1 .. k) = k
    BY <2>1, MaxIsLast
  <2>3. g[1 .. k] = Round(g, 1 .. k)
    <3> HIDE DEF Round, n
    <3> QED
      BY <1>3, <2>1
  <2>4. Round(g, 1 .. k) = try_execute_settlement(g[1 .. k - 1], ids[k])
    <3> HIDE DEF n
    <3> QED
      BY <2>1, <2>2
  <2> HIDE DEF Round, n
  <2> QED
    BY <2>3, <2>4
<1>5. g[1 .. 0] = base
  <2>1. {} \in SUBSET (1 .. n) /\ 1 .. 0 = {}
    OBVIOUS
  <2> QED
    BY <1>3, <2>1
<1> HIDE DEF Round, step
<1> DEFINE f == [k \in 0 .. n |-> g[1 .. k]]
<1>6. ASSUME NEW k \in 0 .. n PROVE f[k] \in V
  <2> DEFINE Good == {j \in 0 .. n : f[j] \in V}
  <2> HIDE DEF n
  <2>1. 0 \in Good
    BY <1>1, <1>5
  <2>2. ASSUME NEW j \in 1 .. n, j - 1 \in Good PROVE j \in Good
    <3>1. j \in 0 .. n /\ j - 1 \in 0 .. n
      BY <1>1
    <3>2. g[1 .. j - 1] \in V /\ ids[j] \in T
      BY <1>1, <2>2, <3>1
    <3>3. f[j] = try_execute_settlement(g[1 .. j - 1], ids[j])
      BY <1>4, <3>1
    <3> QED
      BY <3>1, <3>2, <3>3
  <2> HIDE DEF Good, f
  <2>3. k \in Good
    <3>1. k \in Nat /\ \A j \in 1 .. k : j \in 1 .. n
      BY <1>1
    <3>2. \A j \in 1 .. k : j - 1 \in Good => j \in Good
      BY <2>2, <3>1
    <3> QED
      BY <2>1, <3>1, <3>2, CountUp
  <2> QED
    BY <2>3 DEF Good
<1>7. f \in [0 .. n -> V]
  BY <1>6
<1>8. Rounds(f, base, ids)
  <2>1. f[0] = base
    BY <1>1, <1>5
  <2>2. ASSUME NEW k \in 1 .. n PROVE f[k] = try_execute_settlement(f[k - 1], ids[k])
    <3>1. k \in 0 .. n /\ k - 1 \in 0 .. n
      BY <1>1
    <3> HIDE DEF n
    <3>2. f[k] = g[1 .. k] /\ f[k - 1] = g[1 .. k - 1]
      BY <3>1
    <3> HIDE DEF f
    <3> QED
      BY <1>4, <3>2
  <2> HIDE DEF f
  <2> QED
    BY <2>1, <2>2 DEF Rounds
<1>9. f[n] = g[1 .. n]
  BY <1>1
<1> HIDE DEF f
<1> QED
  BY <1>2, <1>7, <1>8, <1>9

(* What the round of a listed id brings about (W) and every round keeps,    *)
(* holds at the end.                                                        *)
LEMMA BatchReaches ==
  ASSUME NEW V, NEW base \in V, NEW T, NEW ids \in Seq(T),
         \A s \in V, i \in T : try_execute_settlement(s, i) \in V,
         NEW W, \A s \in V \cap W, i \in T : try_execute_settlement(s, i) \in W,
         NEW at \in 1 .. Len(ids), \A s \in V : try_execute_settlement(s, ids[at]) \in W
  PROVE  FoldLeft(try_execute_settlement, base, ids) \in V \cap W
<1>1. PICK f \in [0 .. Len(ids) -> V] :
        /\ Rounds(f, base, ids)
        /\ FoldLeft(try_execute_settlement, base, ids) = f[Len(ids)]
  BY BatchRounds
<1> DEFINE n == Len(ids)
           Good == {k \in 0 .. n : k < at \/ f[k] \in W}
<1>2. n \in Nat /\ \A k \in 1 .. n : ids[k] \in T
  BY ElementOfSeq
<1>3. 0 \in Good
  <2> HIDE DEF n
  <2>1. at \in 1 .. n /\ 0 \in 0 .. n /\ 0 < at
    BY <1>2 DEF n
  <2> QED
    BY <2>1
<1>4. ASSUME NEW k \in 1 .. n, k - 1 \in Good PROVE k \in Good
  <2>1. f[k] = try_execute_settlement(f[k - 1], ids[k]) /\ ids[k] \in T
    BY <1>1, <1>2 DEF Rounds
  <2>2. k \in 0 .. n /\ k - 1 \in 0 .. n
    BY <1>2
  <2>3. f[k - 1] \in V
    BY <2>2
  <2>4. CASE k < at
    BY <2>2, <2>4
  <2>5. CASE k = at
    BY <2>1, <2>2, <2>3, <2>5
  <2>6. CASE k > at
    <3>1. ~ (k - 1 < at)
      BY <1>2, <2>6
    <3>2. f[k - 1] \in W
      BY <1>4, <3>1
    <3> QED
      BY <2>1, <2>2, <2>3, <3>2
  <2> QED
    BY <1>2, <2>4, <2>5, <2>6
<1>5. n \in Good
  <2> HIDE DEF Good, n
  <2> QED
    BY <1>2, <1>3, <1>4, CountUp
<1>6. n \in 0 .. n /\ ~ (n < at)
  BY <1>2
<1> QED
  BY <1>1, <1>5, <1>6

(* What every round keeps, the loop keeps.                                  *)
LEMMA BatchKeeps ==
  ASSUME NEW V, NEW base \in V, NEW T, NEW ids \in Seq(T),
         \A s \in V, i \in T : try_execute_settlement(s, i) \in V
  PROVE  FoldLeft(try_execute_settlement, base, ids) \in V
<1>1. PICK f \in [0 .. Len(ids) -> V] :
        /\ Rounds(f, base, ids)
        /\ FoldLeft(try_execute_settlement, base, ids) = f[Len(ids)]
  BY BatchRounds
<1>2. Len(ids) \in 0 .. Len(ids)
  OBVIOUS
<1> QED
  BY <1>1, <1>2

(***************************************************************************)
(* A batch skips only what is refused.                                     *)
(***************************************************************************)
TreasuryState ==
  [ready : SUBSET SettlementIds, executed : SUBSET SettlementIds, pool : Nat]

PayState == [tr : TreasuryState, paid : [SettlementIds -> Nat]]

Books == [tr |-> treasury, paid |-> gated]

(* What the loop of a batch carries along has its type.                     *)
PayInv == Books \in PayState

(* An execution the treasury accepts, whether the workflow asked for it or  *)
(* not.                                                                     *)
LEMMA ExecutionTypes ==
  ASSUME NEW tr \in TreasuryState, NEW i \in SettlementIds, would_execute(tr, i)
  PROVE  /\ execute_settlement(tr, i) \in TreasuryState
         /\ execute_settlement(tr, i).ready = tr.ready \ {i}
         /\ execute_settlement(tr, i).pool <= tr.pool
<1>1. tr.pool \in Nat /\ AmountOf[i] \in Nat /\ tr.pool >= AmountOf[i]
  BY WorkflowAssumption DEF TreasuryState, would_execute
<1>2. tr.pool - AmountOf[i] \in Nat /\ tr.pool - AmountOf[i] <= tr.pool
  BY <1>1
<1>3. tr.ready \ {i} \in SUBSET SettlementIds /\ tr.executed \cup {i} \in SUBSET SettlementIds
  BY DEF TreasuryState
<1> DEFINE left == tr.pool - AmountOf[i]
           new == [ready |-> tr.ready \ {i}, executed |-> tr.executed \cup {i}, pool |-> left]
<1>4. execute_settlement(tr, i) = new
  BY DEF execute_settlement
<1> HIDE DEF left
<1>5. left \in Nat /\ left <= tr.pool
  BY <1>2 DEF left
<1>6. new \in TreasuryState /\ new.ready = tr.ready \ {i} /\ new.pool = left
  BY <1>3, <1>5 DEF TreasuryState
<1> QED
  BY <1>4, <1>5, <1>6

(* A round of the batch's loop keeps the type.                              *)
LEMMA RoundTypes ==
  ASSUME NEW s \in PayState, NEW i \in SettlementIds
  PROVE  try_execute_settlement(s, i) \in PayState
<1> DEFINE paid == [s.paid EXCEPT ![i] = @ + 1]
<1>1. s.tr \in TreasuryState /\ s.paid \in [SettlementIds -> Nat]
  BY DEF PayState
<1>2. paid \in [SettlementIds -> Nat]
  BY <1>1
<1>3. CASE would_execute(s.tr, i)
  <2>1. execute_settlement(s.tr, i) \in TreasuryState
    BY <1>1, <1>3, ExecutionTypes
  <2>2. try_execute_settlement(s, i) = [tr |-> execute_settlement(s.tr, i), paid |-> paid]
    BY <1>3 DEF try_execute_settlement
  <2> HIDE DEF paid
  <2> QED
    BY <1>2, <2>1, <2>2 DEF PayState
<1>4. CASE ~would_execute(s.tr, i)
  BY <1>4 DEF try_execute_settlement
<1> QED
  BY <1>3, <1>4

(* After its round the treasury would not execute a settlement, and what it *)
(* refuses it still refuses after any later round: nothing becomes ready,   *)
(* and the balance does not grow.                                           *)
LEMMA RoundRefuses ==
  ASSUME NEW s \in PayState, NEW i \in SettlementIds, NEW j \in SettlementIds,
         i = j \/ ~would_execute(s.tr, j)
  PROVE  ~would_execute(try_execute_settlement(s, i).tr, j)
<1>1. s.tr \in TreasuryState
  BY DEF PayState
<1>2. CASE would_execute(s.tr, i)
  <2> DEFINE new == execute_settlement(s.tr, i)
  <2>1. try_execute_settlement(s, i).tr = new
    BY <1>2 DEF try_execute_settlement
  <2>2. new.ready = s.tr.ready \ {i} /\ new.pool <= s.tr.pool
        /\ new.pool \in Nat /\ s.tr.pool \in Nat /\ AmountOf[j] \in Nat
    BY <1>1, <1>2, ExecutionTypes, WorkflowAssumption DEF TreasuryState
  <2> HIDE DEF new
  <2>3. would_execute(new, j) => i # j /\ would_execute(s.tr, j)
    BY <2>2 DEF would_execute
  <2> QED
    BY <2>1, <2>3
<1>3. CASE ~would_execute(s.tr, i)
  BY <1>3 DEF try_execute_settlement
<1> QED
  BY <1>2, <1>3

(* PayInv holds in every reachable state.                                   *)
LEMMA PayInvariant == WorkflowSpec => []PayInv
<1>1. WorkflowInit => PayInv
  BY WorkflowAssumption DEF WorkflowInit, PayInv, Books, PayState, TreasuryState
<1>2. PayInv /\ [WorkflowNext]_workflowVars => PayInv'
  <2> SUFFICES ASSUME PayInv, [WorkflowNext]_workflowVars PROVE PayInv'
    OBVIOUS
  <2>0. treasury \in TreasuryState /\ gated \in [SettlementIds -> Nat]
    BY DEF PayInv, Books, PayState
  <2>1. CASE UNCHANGED payVars
    BY <2>1 DEF PayInv, Books, payVars
  <2>2. ASSUME NEW i \in SettlementIds, NEW m \in Merchants, execute_with_compliance(i, m)
        PROVE  PayInv'
    <3>1. treasury' \in TreasuryState
      BY <2>0, <2>2, ExecutionTypes DEF execute_with_compliance
    <3>2. gated' \in [SettlementIds -> Nat]
      BY <2>0, <2>2 DEF execute_with_compliance
    <3> QED
      BY <3>1, <3>2 DEF PayInv, Books, PayState
  <2>3. ASSUME NEW ids \in IdLists, NEW m \in Merchants, execute_with_compliance_batch(ids, m)
        PROVE  PayInv'
    <3> DEFINE done == FoldLeft(try_execute_settlement, Books, ids)
    <3>1. ids \in Seq(SettlementIds)
      BY WorkflowAssumption
    <3>2. done \in PayState
      BY <3>1, RoundTypes, BatchKeeps DEF PayInv
    <3>3. treasury' = done.tr /\ gated' = done.paid
      BY <2>3 DEF execute_with_compliance_batch, Books
    <3> HIDE DEF done
    <3> QED
      BY <3>2, <3>3 DEF PayInv, Books, PayState
  <2>4. ASSUME NEW i \in SettlementIds, TreasuryChange(i)
        PROVE  PayInv'
    <3>1. CASE would_execute(treasury, i) /\ treasury' = execute_settlement(treasury, i)
      BY <2>0, <2>4, <3>1, ExecutionTypes DEF PayInv, Books, PayState, TreasuryChange
    <3>2. CASE \E R \in SUBSET SettlementIds : treasury' = [treasury EXCEPT !.ready = R]
      <4>1. treasury' \in TreasuryState
        BY <2>0, <3>2 DEF TreasuryState
      <4> QED
        BY <2>0, <2>4, <4>1 DEF PayInv, Books, PayState, TreasuryChange
    <3>3. treasury.ready \cup {i} \in SUBSET SettlementIds
          /\ treasury.ready \ {i} \in SUBSET SettlementIds
      BY <2>0 DEF TreasuryState
    <3> QED
      BY <2>4, <3>1, <3>2, <3>3 DEF TreasuryChange
  <2>5. ASSUME NEW left \in 0 .. Funds, PoolShrinks(left)
        PROVE  PayInv'
    <3>1. left \in Nat
      BY WorkflowAssumption
    <3>2. treasury' \in TreasuryState
      BY <2>0, <2>5, <3>1 DEF PoolShrinks, TreasuryState
    <3> QED
      BY <2>0, <2>5, <3>2 DEF PayInv, Books, PayState, PoolShrinks
  <2> QED
    BY <2>1, <2>2, <2>3, <2>4, <2>5
    DEF WorkflowNext, workflowVars, transfer_admin, accept_admin, set_paused,
        initialize_emergency_pause, emergency_pause_all, resume_all, OwnPause,
        OwnUnpause, ComplianceChange, Tick
<1> QED
  BY <1>1, <1>2, PTL DEF WorkflowSpec

(* After execute_with_compliance_batch the treasury would execute none of   *)
(* the listed settlements any more: no refused id stops the loop, and none  *)
(* of those skipped became executable while it ran, for any list, any       *)
(* amounts and any balance.                                                 *)
THEOREM BatchesSkipOnlyRefused == WorkflowSpec => BatchSkipsOnlyRefused
<1> DEFINE P == \A ids \in IdLists, m \in Merchants :
                  execute_with_compliance_batch(ids, m)
                    => \A i \in ToSet(ids) : ~would_execute(treasury', i)
<1>1. PayInv => P
  <2> SUFFICES ASSUME PayInv, NEW ids \in IdLists, NEW m \in Merchants,
                      execute_with_compliance_batch(ids, m), NEW i \in ToSet(ids)
               PROVE  ~would_execute(treasury', i)
    OBVIOUS
  <2> DEFINE done == FoldLeft(try_execute_settlement, Books, ids)
             Refusing == {s \in PayState : ~would_execute(s.tr, i)}
  <2>1. ids \in Seq(SettlementIds)
    BY WorkflowAssumption
  <2>2. PICK at \in 1 .. Len(ids) : ids[at] = i
    BY <2>1 DEF ToSet
  <2>3. i \in SettlementIds
    BY <2>1, <2>2, ElementOfSeq
  <2>4. \A s \in PayState, j \in SettlementIds : try_execute_settlement(s, j) \in PayState
    BY RoundTypes
  <2>5. \A s \in PayState \cap Refusing, j \in SettlementIds :
          try_execute_settlement(s, j) \in Refusing
    BY <2>3, <2>4, RoundRefuses
  <2>6. \A s \in PayState : try_execute_settlement(s, ids[at]) \in Refusing
    BY <2>2, <2>3, <2>4, RoundRefuses
  <2>7. done \in PayState \cap Refusing
    <3> HIDE DEF Refusing
    <3> QED
      BY <2>1, <2>4, <2>5, <2>6, BatchReaches DEF PayInv
  <2>8. treasury' = done.tr
    BY DEF execute_with_compliance_batch, Books
  <2> HIDE DEF done
  <2> QED
    BY <2>7, <2>8
<1> HIDE DEF P
<1>2. PayInv /\ [WorkflowNext]_workflowVars => [P]_workflowVars
  BY <1>1
<1> QED
  BY <1>2, PayInvariant, PTL DEF WorkflowSpec, BatchSkipsOnlyRefused, P

(***************************************************************************)
(* The emergency pause.                                                    *)
(***************************************************************************)

(* While an incident is open every configured target is paused or was       *)
(* unpaused by its own admin after the sweep. Inductive as it stands.       *)
THEOREM IncidentsCoverTargets == WorkflowSpec => []IncidentCoversTargets
<1>1. WorkflowInit => IncidentCoversTargets
  BY DEF WorkflowInit, IncidentCoversTargets
<1>2. IncidentCoversTargets /\ [WorkflowNext]_workflowVars => IncidentCoversTargets'
  <2> SUFFICES ASSUME IncidentCoversTargets, [WorkflowNext]_workflowVars
               PROVE  IncidentCoversTargets'
    OBVIOUS
  <2>1. CASE UNCHANGED <<sweepVars, targetVars>>
    BY <2>1 DEF IncidentCoversTargets, sweepVars, targetVars
  <2>2. ASSUME NEW c, NEW list, initialize_emergency_pause(c, list)
        PROVE  IncidentCoversTargets'
    BY <2>2 DEF initialize_emergency_pause, IncidentCoversTargets
  <2>3. ASSUME NEW c, NEW obeying, emergency_pause_all(c, obeying)
        PROVE  IncidentCoversTargets'
    BY <2>3 DEF emergency_pause_all, IncidentCoversTargets
  <2>4. ASSUME NEW c, NEW d, NEW obeying, resume_all(c, d, obeying)
        PROVE  IncidentCoversTargets'
    BY <2>4 DEF resume_all, IncidentCoversTargets
  <2>5. ASSUME NEW t, OwnPause(t) PROVE IncidentCoversTargets'
    BY <2>5 DEF OwnPause, IncidentCoversTargets, sweepVars
  <2>6. ASSUME NEW t, OwnUnpause(t) PROVE IncidentCoversTargets'
    BY <2>6 DEF OwnUnpause, IncidentCoversTargets, sweepVars
  <2> QED
    BY <2>1, <2>2, <2>3, <2>4, <2>5, <2>6
    DEF WorkflowNext, workflowVars, transfer_admin, accept_admin, set_paused,
        execute_with_compliance, execute_with_compliance_batch, ComplianceChange,
        TreasuryChange, PoolShrinks, Tick
<1> QED
  BY <1>1, <1>2, PTL DEF WorkflowSpec

(* Between the sweep and the resume of an incident that covers the          *)
(* treasury no settlement is executed, by the workflow or past it, unless   *)
(* the treasury's own admin reopened it: each round of a batch finds the    *)
(* treasury paused and changes nothing.                                     *)
THEOREM IncidentsStopPayouts == WorkflowSpec => IncidentStopsPayouts
<1>1. PayInv /\ IncidentCoversTargets /\ [WorkflowNext]_workflowVars =>
        [(/\ emergencyPausedAt # NoTime
          /\ Treasury \in ToSet(pauseTargets) \ ownReleased)
            => treasury'.executed = treasury.executed]_workflowVars
  <2> SUFFICES ASSUME PayInv, IncidentCoversTargets, WorkflowNext,
                      emergencyPausedAt # NoTime,
                      Treasury \in ToSet(pauseTargets) \ ownReleased
               PROVE  treasury'.executed = treasury.executed
    OBVIOUS
  <2>1. Treasury \in targetPaused
    BY DEF IncidentCoversTargets
  <2>2. \A tr, i : ~would_execute(tr, i)
    BY <2>1 DEF would_execute
  <2>3. CASE UNCHANGED treasury
    BY <2>3
  <2>4. ASSUME NEW ids \in IdLists, NEW m \in Merchants, execute_with_compliance_batch(ids, m)
        PROVE  treasury' = treasury
    <3>1. \A s \in {Books}, i \in SettlementIds : try_execute_settlement(s, i) \in {Books}
      BY <2>2 DEF try_execute_settlement
    <3>2. ids \in Seq(SettlementIds)
      BY WorkflowAssumption
    <3>3. FoldLeft(try_execute_settlement, Books, ids) \in {Books}
      BY <3>1, <3>2, BatchKeeps
    <3> QED
      BY <2>4, <3>3 DEF execute_with_compliance_batch, Books
  <2>5. ASSUME NEW i \in SettlementIds, TreasuryChange(i)
        PROVE  treasury'.executed = treasury.executed
    BY <2>2, <2>5 DEF TreasuryChange, PayInv, PayState, TreasuryState, Books
  <2>6. ASSUME NEW i, NEW m, execute_with_compliance(i, m) PROVE FALSE
    BY <2>2, <2>6 DEF execute_with_compliance
  <2>7. ASSUME NEW left, PoolShrinks(left) PROVE treasury'.executed = treasury.executed
    BY <2>7 DEF PoolShrinks, PayInv, PayState, TreasuryState, Books
  <2> QED
    BY <2>3, <2>4, <2>5, <2>6, <2>7
    DEF WorkflowNext, payVars, transfer_admin, accept_admin, set_paused,
        initialize_emergency_pause, emergency_pause_all, resume_all, OwnPause,
        OwnUnpause, ComplianceChange, Tick
<1> QED
  BY <1>1, PayInvariant, IncidentsCoverTargets, PTL DEF WorkflowSpec, IncidentStopsPayouts
=============================================================================
