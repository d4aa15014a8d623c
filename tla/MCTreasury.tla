----------------------------- MODULE MCTreasury -----------------------------
(***************************************************************************)
(* Small instances of the treasury for TLC: the constants the              *)
(* configuration files cannot write down themselves.                       *)
(***************************************************************************)
EXTENDS Treasury

(* Holds without an expiry only, and holds that may also lapse at time 2.   *)
MCNever == {NoTime}
MCNeverOrTwo == {NoTime, 2}
=============================================================================
