----------------------------- MODULE MCCustody -----------------------------
(***************************************************************************)
(* Small instances of Custody for TLC.                                     *)
(***************************************************************************)
EXTENDS Custody, TLC

(* One pair, one pair of the other token, the same token twice, a pair      *)
(* that is refused, and nothing at all.                                     *)
MCDepositLists ==
  LET pair(t, n) == [token |-> t, amount |-> n]
  IN {<<pair(t, 1)>> : t \in Tokens}
       \cup {<<pair(t, 1), pair(u, 1)>> : t, u \in Tokens}
       \cup {<<pair(t, 0)>> : t \in Tokens}
       \cup {<< >>}

(* The depositors are interchangeable.                                      *)
MCSymmetry == Permutations(Addresses)
=============================================================================
