---------------------------- MODULE MCCompliance ----------------------------
(***************************************************************************)
(* Small instances of the compliance contract for TLC. Nothing tells the   *)
(* screened addresses apart, so permuting them is a symmetry.              *)
(***************************************************************************)
EXTENDS Compliance

MCSymmetry == Permutations(Addresses)
=============================================================================
