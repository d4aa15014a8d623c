----------------------------- MODULE Aggregates -----------------------------
(***************************************************************************)
(* What the contracts compute in a loop over a table or a list: the total  *)
(* of a table of amounts, and a list without the entries a test refuses.   *)
(***************************************************************************)
EXTENDS Integers, Sequences, FiniteSets, FiniteSetsExt, SequencesExt

(* The sum of f[x] for x in the finite set S.                               *)
SumOver(f, S) == MapThenSumSet(LAMBDA x : f[x], S)

(* The elements of the list that are in S, in their order: a new list that  *)
(* the loop pushes them to.                                                 *)
Only(list, S) ==
  FoldLeft(LAMBDA kept, x : IF x \in S THEN Append(kept, x) ELSE kept, <<>>, list)

(* The list holds exactly the numbers in S, each once, the smaller first.   *)
ListsInOrder(list, S) ==
  /\ ToSet(list) = S
  /\ \A i, j \in DOMAIN list : i < j => list[i] < list[j]
=============================================================================
