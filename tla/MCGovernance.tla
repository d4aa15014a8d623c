---------------------------- MODULE MCGovernance ----------------------------
(***************************************************************************)
(* The small instance of Governance that TLC checks: governance.cfg gives  *)
(* every constant its value.                                               *)
(***************************************************************************)
EXTENDS Governance
=============================================================================
