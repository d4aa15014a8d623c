------------------------ MODULE MCSettlementWorkflow ------------------------
(***************************************************************************)
(* Small instances of SettlementWorkflow for TLC.                          *)
(***************************************************************************)
EXTENDS SettlementWorkflow

CONSTANTS m, n, other

(* Settlement 1 pays m, every other one pays n.                             *)
MCMerchantOf == [i \in SettlementIds |-> IF i = 1 THEN m ELSE n]

(* Settlement 1 costs more than any other one.                              *)
MCAmountOf == [i \in SettlementIds |-> IF i = 1 THEN 2 ELSE 1]

(* A list that repeats an id before another one, and the dear settlement    *)
(* after the cheap one, which uses up what it needs.                        *)
MCIdLists == {<<2, 2, 1>>, <<1, 2>>}

(* The treasury alone, both targets, and the lists that are refused: an     *)
(* empty one, one with a repetition, one with the workflow itself.          *)
MCTargetLists ==
  {<<Treasury>>, <<other, Treasury>>, << >>, <<other, other>>, <<Workflow>>}
=============================================================================
