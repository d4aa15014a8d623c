-------------------------- MODULE AggregateProofs ---------------------------
(***************************************************************************)
(* What the operators of Aggregates compute, for every table of natural    *)
(* numbers over a finite set and every list. A fold has no value that      *)
(* follows from its definition alone: the function it is recursive in is a *)
(* CHOOSE, so that there is such a function has to be shown.               *)
(*                                                                         *)
(* The sum is compared with a count, that of the units of the table, one   *)
(* pair for each unit of each entry: the count satisfies the recursion,    *)
(* and only one function does. What a sum does when its table or its set   *)
(* changes is then a fact about the cardinality of sets. For the loops     *)
(* over lists, the function is built up one index after the other.         *)
(***************************************************************************)
EXTENDS Aggregates, FiniteSetTheorems, SequenceTheorems, WellFoundedInduction, TLAPS

(* One pair for each unit of each entry of the table.                       *)
Units(f, S) == {p \in S \X Nat : 1 <= p[2] /\ p[2] <= f[p[1]]}

Tally(f, S) == Cardinality(Units(f, S))

(* What the lemmas ask of a table: a natural number for each x in S.        *)
Natural(f, S) == \A x \in S : f[x] \in Nat

(* A property that every finite set inherits from its subsets with one      *)
(* element less has no counterexample: the least one would contradict it.   *)
LEMMA LeastCounterexample ==
  ASSUME NEW S, IsFiniteSet(S), NEW Bad, Bad \subseteq SUBSET S, Bad # {}
  PROVE  \E B \in Bad : \A x \in B : B \ {x} \notin Bad
<1>1. IsWellFoundedOn(StrictSubsetOrdering(S), SUBSET S)
  BY FS_StrictSubsetOrderingWellFounded, FS_FiniteSubsetsOfFinite
<1>2. PICK B \in Bad : \A C \in Bad : ~ (<<C, B>> \in StrictSubsetOrdering(S))
  BY <1>1, WFMin
<1>3. ASSUME NEW x \in B, B \ {x} \in Bad
      PROVE  FALSE
  <2>1. B \ {x} \subseteq B /\ B \ {x} # B
    OBVIOUS
  <2>2. <<B \ {x}, B>> \in StrictSubsetOrdering(S)
    BY <1>2, <1>3, <2>1 DEF StrictSubsetOrdering
  <2> QED
    BY <1>2, <1>3, <2>2
<1> QED
  BY <1>2, <1>3

(* One more entry adds its own units.                                       *)
LEMMA UnitsAdd ==
  ASSUME NEW f, NEW S, NEW x, x \notin S, f[x] \in Nat, IsFiniteSet(Units(f, S))
  PROVE  /\ IsFiniteSet(Units(f, S \cup {x}))
         /\ Tally(f, S \cup {x}) = Tally(f, S) + f[x]
<1> DEFINE New == {x} \X (1 .. f[x])
<1>1. Units(f, S \cup {x}) = Units(f, S) \cup New
  BY DEF Units
<1>2. Units(f, S) \cap New = {}
  BY DEF Units
<1>3. IsFiniteSet(1 .. f[x]) /\ Cardinality(1 .. f[x]) = f[x]
  <2>1. f[x] \in Int /\ 1 \in Int /\ (1 > f[x] <=> f[x] = 0) /\ (f[x] - 1) + 1 = f[x]
    OBVIOUS
  <2> QED
    BY <2>1, FS_Interval
<1>4. IsFiniteSet(New) /\ Cardinality(New) = f[x]
  <2>1. IsFiniteSet({x}) /\ Cardinality({x}) = 1
    BY FS_Singleton, Zenon
  <2>2. IsFiniteSet(New) /\ Cardinality(New) = Cardinality({x}) * Cardinality(1 .. f[x])
    BY <1>3, <2>1, FS_Product, Zenon
  <2> HIDE DEF New
  <2> QED
    BY <1>3, <2>1, <2>2
<1> HIDE DEF New
<1>5. /\ IsFiniteSet(Units(f, S) \cup New)
      /\ Cardinality(Units(f, S) \cup New)
           = Cardinality(Units(f, S)) + Cardinality(New) - Cardinality(Units(f, S) \cap New)
  BY <1>4, FS_Union
<1>6. Cardinality(Units(f, S)) \in Nat /\ Cardinality({}) = 0
  BY FS_CardinalityType, FS_EmptySet
<1> QED
  BY <1>1, <1>2, <1>4, <1>5, <1>6 DEF Tally

(* A table has finitely many units.                                         *)
LEMMA UnitsFinite ==
  ASSUME NEW f, NEW S, IsFiniteSet(S), Natural(f, S)
  PROVE  IsFiniteSet(Units(f, S))
<1> DEFINE Bad == {B \in SUBSET S : ~ IsFiniteSet(Units(f, B))}
<1>1. SUFFICES ASSUME Bad # {} PROVE FALSE
  OBVIOUS
<1>2. PICK B \in Bad : \A x \in B : B \ {x} \notin Bad
  BY <1>1, LeastCounterexample
<1>3. CASE B = {}
  <2>1. Units(f, {}) = {}
    BY DEF Units
  <2> QED
    BY <1>2, <1>3, <2>1, FS_EmptySet
<1>4. ASSUME NEW x \in B PROVE FALSE
  <2>1. IsFiniteSet(Units(f, B \ {x}))
    BY <1>2
  <2>2. IsFiniteSet(Units(f, (B \ {x}) \cup {x}))
    BY <2>1, UnitsAdd DEF Natural
  <2>3. (B \ {x}) \cup {x} = B
    OBVIOUS
  <2> QED
    BY <1>2, <2>2, <2>3
<1> QED
  BY <1>3, <1>4

(* The recursion that MapThenSumSet is, with the entry it picks first.      *)
SumStep(f, g, B) ==
  IF B = {} THEN 0
  ELSE f[CHOOSE x \in B : TRUE] + g[B \ {CHOOSE x \in B : TRUE}]

(* A sum is the value at S of some function that satisfies the recursion.   *)
LEMMA SumUnfolds ==
  ASSUME NEW f, NEW S
  PROVE  SumOver(f, S) = (CHOOSE g : g = [B \in SUBSET S |-> SumStep(f, g, B)])[S]
BY DEF SumOver, MapThenSumSet, MapThenFoldSet, SumStep

(* The sum of a table of natural numbers is the count of its units.         *)
LEMMA SumIsTally ==
  ASSUME NEW f, NEW S, IsFiniteSet(S), Natural(f, S)
  PROVE  SumOver(f, S) = Tally(f, S)
<1> DEFINE G == [B \in SUBSET S |-> Tally(f, B)]
           g == CHOOSE h : h = [B \in SUBSET S |-> SumStep(f, h, B)]
<1>1. Tally(f, {}) = 0
  <2>1. Units(f, {}) = {}
    BY DEF Units
  <2> QED
    BY <2>1, FS_EmptySet DEF Tally
<1>2. ASSUME NEW B \in SUBSET S, B # {}
      PROVE  LET x == CHOOSE x \in B : TRUE
             IN  Tally(f, B) = f[x] + Tally(f, B \ {x}) /\ x \in B
  <2> DEFINE x == CHOOSE x \in B : TRUE
  <2>1. x \in B
    BY <1>2
  <2> HIDE DEF x
  <2>2. IsFiniteSet(B \ {x}) /\ Natural(f, B \ {x}) /\ f[x] \in Nat
    BY <2>1, FS_Subset DEF Natural
  <2>3. IsFiniteSet(Units(f, B \ {x}))
    BY <2>2, UnitsFinite
  <2>4. Tally(f, (B \ {x}) \cup {x}) = Tally(f, B \ {x}) + f[x]
    BY <2>2, <2>3, UnitsAdd
  <2>5. (B \ {x}) \cup {x} = B
    BY <2>1
  <2>6. Tally(f, B \ {x}) \in Nat
    BY <2>3, FS_CardinalityType DEF Tally
  <2>7. Tally(f, B) = Tally(f, B \ {x}) + f[x]
    BY <2>4, <2>5, Zenon
  <2>8. Tally(f, B \ {x}) + f[x] = f[x] + Tally(f, B \ {x})
    BY <2>2, <2>6
  <2> QED
    BY <2>1, <2>7, <2>8, Zenon DEF x
<1>3. G = [B \in SUBSET S |-> SumStep(f, G, B)]
  <2>1. ASSUME NEW B \in SUBSET S PROVE Tally(f, B) = SumStep(f, G, B)
    <3>1. CASE B = {}
      BY <3>1, <1>1 DEF SumStep
    <3>2. CASE B # {}
      <4>1. \A x \in B : B \ {x} \in SUBSET S
        OBVIOUS
      <4> QED
        BY <3>2, <1>2, <4>1 DEF SumStep
    <3> QED
      BY <3>1, <3>2
  <2> QED
    BY <2>1
<1>4. g = [B \in SUBSET S |-> SumStep(f, g, B)]
  BY <1>3
<1> HIDE DEF g
<1>5. \A B \in SUBSET S : g[B] = Tally(f, B)
  <2> DEFINE Bad == {B \in SUBSET S : g[B] # Tally(f, B)}
  <2>1. SUFFICES ASSUME Bad # {} PROVE FALSE
    OBVIOUS
  <2>2. PICK B \in Bad : \A x \in B : B \ {x} \notin Bad
    BY <2>1, LeastCounterexample
  <2>3. g[B] = SumStep(f, g, B)
    BY <1>4, <2>2
  <2>4. CASE B = {}
    BY <2>2, <2>3, <2>4, <1>1 DEF SumStep
  <2>5. CASE B # {}
    <3> DEFINE x == CHOOSE x \in B : TRUE
    <3>1. Tally(f, B) = f[x] + Tally(f, B \ {x}) /\ x \in B
      BY <1>2, <2>2, <2>5
    <3>2. g[B] = f[x] + g[B \ {x}]
      BY <2>3, <2>5 DEF SumStep
    <3> HIDE DEF x
    <3>3. g[B \ {x}] = Tally(f, B \ {x})
      BY <2>2, <3>1
    <3> QED
      BY <2>2, <3>1, <3>2, <3>3
  <2> QED
    BY <2>4, <2>5
<1> QED
  BY <1>5, SumUnfolds DEF g

(***************************************************************************)
(* The facts about sums that the other proofs cite.                        *)
(***************************************************************************)

(* The sum of a table of natural numbers is a natural number.               *)
LEMMA SumType ==
  ASSUME NEW f, NEW S, IsFiniteSet(S), Natural(f, S)
  PROVE  SumOver(f, S) \in Nat
BY SumIsTally, UnitsFinite, FS_CardinalityType DEF Tally

(* Nothing sums to 0.                                                       *)
LEMMA SumEmpty ==
  ASSUME NEW f
  PROVE  SumOver(f, {}) = 0
<1>1. IsFiniteSet({}) /\ Natural(f, {})
  BY FS_EmptySet DEF Natural
<1>2. Units(f, {}) = {}
  BY DEF Units
<1> QED
  BY <1>1, <1>2, SumIsTally, FS_EmptySet DEF Tally

(* Zeros sum to 0.                                                          *)
LEMMA SumZeros ==
  ASSUME NEW f, NEW S, IsFiniteSet(S), \A x \in S : f[x] = 0
  PROVE  SumOver(f, S) = 0
<1>1. Natural(f, S)
  BY DEF Natural
<1>2. Units(f, S) = {}
  BY DEF Units
<1> QED
  BY <1>1, <1>2, SumIsTally, FS_EmptySet DEF Tally

(* One more entry adds its value.                                           *)
LEMMA SumAdd ==
  ASSUME NEW f, NEW S, IsFiniteSet(S), NEW x, x \notin S, Natural(f, S \cup {x})
  PROVE  SumOver(f, S \cup {x}) = SumOver(f, S) + f[x]
<1>1. Natural(f, S) /\ f[x] \in Nat
  BY DEF Natural
<1>2. IsFiniteSet(S \cup {x})
  BY FS_AddElement
<1>3. SumOver(f, S \cup {x}) = Tally(f, S \cup {x}) /\ SumOver(f, S) = Tally(f, S)
  BY <1>1, <1>2, SumIsTally
<1>4. Tally(f, S \cup {x}) = Tally(f, S) + f[x]
  BY <1>1, UnitsFinite, UnitsAdd
<1> QED
  BY <1>3, <1>4

(* Only the entries of S count.                                             *)
LEMMA SumSame ==
  ASSUME NEW f, NEW g, NEW S, IsFiniteSet(S), Natural(f, S),
         \A x \in S : g[x] = f[x]
  PROVE  SumOver(g, S) = SumOver(f, S)
<1>1. Natural(g, S)
  BY DEF Natural
<1>2. Units(g, S) = Units(f, S)
  BY DEF Units
<1> QED
  BY <1>1, <1>2, SumIsTally DEF Tally

(* The sum over two disjoint sets is the sum of the two sums.               *)
LEMMA SumSplit ==
  ASSUME NEW f, NEW S, NEW T, IsFiniteSet(S), IsFiniteSet(T), S \cap T = {},
         Natural(f, S \cup T)
  PROVE  SumOver(f, S \cup T) = SumOver(f, S) + SumOver(f, T)
<1>1. Natural(f, S) /\ Natural(f, T)
  BY DEF Natural
<1>2. IsFiniteSet(Units(f, S)) /\ IsFiniteSet(Units(f, T))
  BY <1>1, UnitsFinite
<1>3. /\ Units(f, S \cup T) = Units(f, S) \cup Units(f, T)
      /\ Units(f, S) \cap Units(f, T) = {}
  BY DEF Units
<1>4. /\ Cardinality(Units(f, S)) \in Nat /\ Cardinality(Units(f, T)) \in Nat
      /\ Cardinality({}) = 0
  BY <1>2, FS_CardinalityType, FS_EmptySet
<1>5. Cardinality(Units(f, S) \cup Units(f, T))
        = Cardinality(Units(f, S)) + Cardinality(Units(f, T))
            - Cardinality(Units(f, S) \cap Units(f, T))
  BY <1>2, FS_Union
<1>6. Tally(f, S \cup T) = Tally(f, S) + Tally(f, T)
  <2>1. Cardinality(Units(f, S \cup T))
          = Cardinality(Units(f, S)) + Cardinality(Units(f, T)) - 0
    BY <1>3, <1>4, <1>5, Zenon
  <2> QED
    BY <1>4, <2>1 DEF Tally
<1>7. IsFiniteSet(S \cup T)
  BY FS_Union, Zenon
<1> QED
  BY <1>1, <1>6, <1>7, SumIsTally

(* A part sums to no more than the whole.                                   *)
LEMMA SumPart ==
  ASSUME NEW f, NEW S, IsFiniteSet(S), Natural(f, S), NEW T, T \subseteq S
  PROVE  SumOver(f, T) <= SumOver(f, S)
<1>1. IsFiniteSet(T) /\ IsFiniteSet(S \ T) /\ Natural(f, T) /\ Natural(f, S \ T)
  BY FS_Subset DEF Natural
<1>2. T \cap (S \ T) = {} /\ T \cup (S \ T) = S
  OBVIOUS
<1>3. SumOver(f, S) = SumOver(f, T) + SumOver(f, S \ T)
  BY <1>1, <1>2, SumSplit
<1> QED
  BY <1>1, <1>3, SumType

(* No entry is larger than the sum.                                         *)
LEMMA SumBoundsEntry ==
  ASSUME NEW f, NEW S, IsFiniteSet(S), Natural(f, S), NEW x \in S
  PROVE  f[x] <= SumOver(f, S)
<1>1. IsFiniteSet({}) /\ Natural(f, {} \cup {x}) /\ {} \cup {x} = {x}
  BY FS_EmptySet DEF Natural
<1>2. SumOver(f, {x}) = 0 + f[x]
  BY <1>1, SumAdd, SumEmpty
<1>3. f[x] \in Nat
  BY DEF Natural
<1>4. SumOver(f, {x}) <= SumOver(f, S)
  BY SumPart
<1> QED
  BY <1>2, <1>3, <1>4

(* Changing one entry changes the sum by as much.                           *)
LEMMA SumChange ==
  ASSUME NEW f, NEW g, NEW S, IsFiniteSet(S), Natural(f, S), NEW x \in S,
         g[x] \in Nat, \A y \in S \ {x} : g[y] = f[y]
  PROVE  SumOver(g, S) = SumOver(f, S) - f[x] + g[x]
<1> DEFINE R == S \ {x}
<1>1. IsFiniteSet(R) /\ Natural(f, R) /\ R \cup {x} = S /\ x \notin R
  BY FS_Subset DEF Natural
<1>2. Natural(g, S)
  BY DEF Natural
<1>3. \A y \in R : g[y] = f[y]
  OBVIOUS
<1> HIDE DEF R
<1>4. SumOver(f, S) = SumOver(f, R) + f[x]
  BY <1>1, SumAdd
<1>5. SumOver(g, S) = SumOver(g, R) + g[x]
  BY <1>1, <1>2, SumAdd
<1>6. SumOver(g, R) = SumOver(f, R)
  BY <1>1, <1>3, SumSame
<1>7. SumOver(f, R) \in Nat /\ f[x] \in Nat
  BY <1>1, SumType DEF Natural
<1> QED
  BY <1>4, <1>5, <1>6, <1>7

(* The sum of two tables added entry by entry is the sum of their sums.     *)
LEMMA SumPlus ==
  ASSUME NEW f, NEW g, NEW h, NEW S, IsFiniteSet(S), Natural(f, S), Natural(g, S),
         \A x \in S : h[x] = f[x] + g[x]
  PROVE  SumOver(h, S) = SumOver(f, S) + SumOver(g, S)
<1> DEFINE Bad == {B \in SUBSET S : SumOver(h, B) # SumOver(f, B) + SumOver(g, B)}
<1>1. SUFFICES ASSUME Bad # {} PROVE FALSE
  OBVIOUS
<1>2. PICK B \in Bad : \A x \in B : B \ {x} \notin Bad
  BY <1>1, LeastCounterexample
<1>3. CASE B = {}
  BY <1>2, <1>3, SumEmpty
<1>4. ASSUME NEW x \in B PROVE FALSE
  <2> DEFINE R == B \ {x}
  <2>1. /\ IsFiniteSet(R) /\ R \cup {x} = B /\ x \notin R
        /\ Natural(f, B) /\ Natural(g, B) /\ Natural(h, B)
        /\ Natural(f, R) /\ Natural(g, R)
    BY <1>2, FS_Subset DEF Natural
  <2>2. SumOver(h, R) = SumOver(f, R) + SumOver(g, R)
    BY <1>2
  <2> HIDE DEF R
  <2>3. /\ SumOver(f, B) = SumOver(f, R) + f[x]
        /\ SumOver(g, B) = SumOver(g, R) + g[x]
        /\ SumOver(h, B) = SumOver(h, R) + h[x]
    BY <2>1, SumAdd
  <2>4. SumOver(f, R) \in Nat /\ SumOver(g, R) \in Nat /\ f[x] \in Nat /\ g[x] \in Nat
    BY <2>1, SumType DEF Natural
  <2>5. h[x] = f[x] + g[x]
    BY <1>2
  <2> QED
    BY <1>2, <2>2, <2>3, <2>4, <2>5
<1> QED
  BY <1>3, <1>4

(* The same entry everywhere.                                               *)
LEMMA SumConstant ==
  ASSUME NEW f, NEW S, IsFiniteSet(S), NEW n \in Nat, \A x \in S : f[x] = n
  PROVE  SumOver(f, S) = n * Cardinality(S)
<1>1. Natural(f, S)
  BY DEF Natural
<1>2. Units(f, S) = S \X (1 .. n)
  BY DEF Units
<1>3. IsFiniteSet(1 .. n) /\ Cardinality(1 .. n) = n
  BY FS_Interval, 1 \in Int, n \in Int
<1>4. Cardinality(S \X (1 .. n)) = Cardinality(S) * Cardinality(1 .. n)
  BY <1>3, FS_Product, Zenon
<1>5. Cardinality(S) \in Nat
  BY FS_CardinalityType
<1>6. Cardinality(S) * n = n * Cardinality(S)
  BY <1>5
<1>7. SumOver(f, S) = Cardinality(S) * n
  BY <1>1, <1>2, <1>3, <1>4, SumIsTally DEF Tally
<1> QED
  BY <1>6, <1>7

(***************************************************************************)
(* Loops over lists. step[<<k, v>>] is what the loop makes of v with its   *)
(* k-th element.                                                           *)
(***************************************************************************)
LoopStep(step, base, F, B) ==
  IF B = {} THEN base ELSE step[<<Max(B), F[B \ {Max(B)}]>>]

(* F holds what the loop has computed after the elements in B.              *)
IsLoop(n, step, base, F) == F = [B \in SUBSET (1 .. n) |-> LoopStep(step, base, F, B)]

(* The largest of the first m numbers and of their subsets.                 *)
LEMMA MaxIsLast ==
  ASSUME NEW m \in Nat, NEW B, B \subseteq 1 .. m, m \in B
  PROVE  Max(B) = m
<1>1. \A y \in B : m >= y
  OBVIOUS
<1>2. \A x \in B : (\A y \in B : x >= y) => x = m
  OBVIOUS
<1> QED
  BY <1>1, <1>2 DEF Max

(* What holds of 0, and of each number up to n when it holds of the one     *)
(* before, holds of n.                                                      *)
LEMMA CountUp ==
  ASSUME NEW n \in Nat, NEW Good, 0 \in Good, \A k \in 1 .. n : k - 1 \in Good => k \in Good
  PROVE  n \in Good
<1> DEFINE Bad == {m \in 0 .. n : m \notin Good}
<1>1. Bad \subseteq Nat
  OBVIOUS
<1>2. SUFFICES ASSUME Bad # {} PROVE FALSE
  OBVIOUS
<1>3. PICK m \in Bad : \A k \in Bad : ~ (<<k, m>> \in OpToRel(<, Nat))
  <2> HIDE DEF Bad
  <2> QED
    BY <1>1, <1>2, NatLessThanWellFounded, WFMin
<1>4. \A k \in Bad : ~ (k < m)
  <2> HIDE DEF Bad
  <2> QED
    BY <1>1, <1>3 DEF OpToRel
<1>5. m \in 1 .. n /\ m - 1 \in 0 .. n /\ m - 1 < m /\ m \notin Good
  OBVIOUS
<1>6. m - 1 \in Good
  BY <1>4, <1>5
<1> QED
  BY <1>5, <1>6

(* A set of some of the numbers up to n has a largest one.                  *)
LEMMA MaxIsIn ==
  ASSUME NEW n \in Nat, NEW B, B \subseteq 1 .. n, B # {}
  PROVE  Max(B) \in B
<1> DEFINE Good == {k \in Nat : \A C \in SUBSET (1 .. k) : C # {} => \E x \in C : \A y \in C : x >= y}
<1>1. 0 \in Good
  <2>1. 1 .. 0 = {}
    OBVIOUS
  <2>2. \A C \in SUBSET (1 .. 0) : C = {}
    BY <2>1
  <2> QED
    BY <2>2
<1>2. ASSUME NEW k \in 1 .. n, k - 1 \in Good PROVE k \in Good
  <2>1. SUFFICES ASSUME NEW C \in SUBSET (1 .. k), C # {}
                 PROVE  \E x \in C : \A y \in C : x >= y
    OBVIOUS
  <2>2. CASE k \in C
    BY <2>2
  <2>3. CASE k \notin C
    <3>1. C \in SUBSET (1 .. k - 1)
      BY <2>3
    <3> QED
      BY <1>2, <2>1, <3>1
  <2> QED
    BY <2>2, <2>3
<1>3. n \in Good
  <2> HIDE DEF Good
  <2> QED
    BY <1>1, <1>2, CountUp
<1>4. \E x \in B : \A y \in B : x >= y
  BY <1>3
<1> QED
  BY <1>4 DEF Max

(* There is a function that satisfies the recursion of a loop over a list   *)
(* of n elements.                                                           *)
LEMMA LoopExists ==
  ASSUME NEW n \in Nat, NEW V, NEW base \in V, NEW step \in [(1 .. n) \X V -> V]
  PROVE  \E F \in [SUBSET (1 .. n) -> V] : IsLoop(n, step, base, F)
<1> DEFINE Good(m, F) == /\ F \in [SUBSET (1 .. m) -> V]
                         /\ F = [B \in SUBSET (1 .. m) |-> LoopStep(step, base, F, B)]
           Built == {m \in Nat : \E F : Good(m, F)}
<1>1. SUFFICES n \in Built
  BY DEF IsLoop
<1>2. 0 \in Built
  <2> DEFINE F == [B \in SUBSET (1 .. 0) |-> base]
  <2>1. \A B \in SUBSET (1 .. 0) : B = {}
    OBVIOUS
  <2>2. Good(0, F)
    BY <2>1 DEF LoopStep
  <2> QED
    BY <2>2
<1>3. ASSUME NEW m \in 1 .. n, m - 1 \in Built PROVE m \in Built
  <2>1. m \in Nat /\ m - 1 \in Nat
    OBVIOUS
  <2>2. PICK F : Good(m - 1, F)
    BY <1>3
  <2> DEFINE G == [B \in SUBSET (1 .. m) |->
                     IF m \in B THEN step[<<m, F[B \ {m}]>>] ELSE F[B]]
  <2>3. ASSUME NEW B \in SUBSET (1 .. m)
        PROVE  /\ B \ {m} \in SUBSET (1 .. m - 1)
               /\ m \notin B => B \in SUBSET (1 .. m - 1)
               /\ G[B] = LoopStep(step, base, G, B) /\ G[B] \in V
    <3>1. B \ {m} \in SUBSET (1 .. m - 1) /\ (m \notin B => B \in SUBSET (1 .. m - 1))
      BY <2>1
    <3>2. CASE m \in B
      <4>1. Max(B) = m
        BY <2>1, <3>2, MaxIsLast
      <4>2. G[B \ {m}] = F[B \ {m}] /\ G[B] = step[<<m, F[B \ {m}]>>]
        BY <3>1, <3>2
      <4>3. F[B \ {m}] \in V
        BY <2>2, <3>1
      <4>4. G[B] \in V
        BY <2>1, <4>2, <4>3
      <4> HIDE DEF G
      <4> QED
        BY <3>1, <3>2, <4>1, <4>2, <4>4 DEF LoopStep
    <3>3. CASE m \notin B
      <4>1. G[B] = F[B] /\ F[B] = LoopStep(step, base, F, B) /\ F[B] \in V
        BY <2>2, <3>1, <3>3
      <4>2. G[B \ {Max(B)}] = F[B \ {Max(B)}]
        BY <3>3
      <4> HIDE DEF G
      <4> QED
        BY <3>1, <3>3, <4>1, <4>2 DEF LoopStep
    <3> QED
      BY <3>2, <3>3
  <2>4. Good(m, G)
    <3> DEFINE H == [B \in SUBSET (1 .. m) |-> LoopStep(step, base, G, B)]
    <3>1. \A B \in SUBSET (1 .. m) : G[B] = H[B] /\ G[B] \in V
      BY <2>3
    <3>2. DOMAIN G = SUBSET (1 .. m) /\ DOMAIN H = SUBSET (1 .. m)
          /\ G = [B \in DOMAIN G |-> G[B]] /\ H = [B \in DOMAIN H |-> H[B]]
      OBVIOUS
    <3>3. G \in [SUBSET (1 .. m) -> V]
      BY <3>1
    <3> HIDE DEF G, H
    <3>4. G = H
      BY <3>1, <3>2
    <3> QED
      BY <3>3, <3>4 DEF H
  <2> QED
    BY <2>1, <2>4
<1> QED
  <2> HIDE DEF Built
  <2> QED
    BY <1>2, <1>3, CountUp

(* The first k numbers of n: the last of them and those before it.          *)
LEMMA UpTo ==
  ASSUME NEW n \in Nat, NEW k \in 1 .. n
  PROVE  /\ 1 .. k \in SUBSET (1 .. n) /\ 1 .. k # {} /\ (1 .. k) \ {k} = 1 .. k - 1
         /\ k \in 1 .. k /\ k \in Nat /\ k \in 0 .. n /\ k - 1 \in 0 .. n
<1>1. k \in Nat /\ k \in 0 .. n /\ k - 1 \in 0 .. n /\ k >= 1 /\ k <= n
  OBVIOUS
<1>2. 1 .. k \in SUBSET (1 .. n) /\ 1 .. k # {} /\ k \in 1 .. k
  <2>1. \A x \in 1 .. k : x \in 1 .. n
    BY <1>1
  <2>2. k \in 1 .. k
    BY <1>1
  <2> QED
    BY <2>1, <2>2
<1>3. (1 .. k) \ {k} = 1 .. k - 1
  <2>1. (1 .. k) \ {k} \subseteq 1 .. k - 1
    BY <1>1
  <2>2. 1 .. k - 1 \subseteq (1 .. k) \ {k}
    BY <1>1
  <2> QED
    BY <2>1, <2>2
<1> QED
  BY <1>1, <1>2, <1>3

(* h[k] is what Only has kept of the first k elements.                      *)
OnlySteps(list, S, h) ==
  /\ h[0] = <<>>
  /\ \A k \in 1 .. Len(list) :
       h[k] = IF list[k] \in S THEN Append(h[k - 1], list[k]) ELSE h[k - 1]

(* Only, one element of the list after the other.                           *)
LEMMA OnlyLoop ==
  ASSUME NEW T, NEW list \in Seq(T), NEW S
  PROVE  \E h \in [0 .. Len(list) -> Seq(T)] :
           OnlySteps(list, S, h) /\ Only(list, S) = h[Len(list)]
<1> DEFINE n == Len(list)
           V == Seq(T)
           OnlyStep(F, B) == IF B = {} THEN <<>>
                             ELSE IF list[Max(B)] \in S
                                  THEN Append(F[B \ {Max(B)}], list[Max(B)])
                                  ELSE F[B \ {Max(B)}]
           step == [p \in (1 .. n) \X V |->
                      IF list[p[1]] \in S THEN Append(p[2], list[p[1]]) ELSE p[2]]
           g == CHOOSE F : F = [B \in SUBSET (1 .. n) |-> OnlyStep(F, B)]
<1>1. n \in Nat /\ DOMAIN list = 1 .. n /\ \A k \in 1 .. n : list[k] \in T
  BY ElementOfSeq
<1>2. Only(list, S) = g[1 .. n]
  <2>1. Only(list, S) = (CHOOSE F : F = [B \in SUBSET (DOMAIN list) |-> OnlyStep(F, B)])[DOMAIN list]
    BY DEF Only, FoldLeft, MapThenFoldSet
  <2> QED
    BY <1>1, <2>1
<1>3. g = [B \in SUBSET (1 .. n) |-> OnlyStep(g, B)]
  <2>1. step \in [(1 .. n) \X V -> V]
    BY <1>1, AppendProperties
  <2>2. <<>> \in V
    OBVIOUS
  <2>3. PICK F \in [SUBSET (1 .. n) -> V] : IsLoop(n, step, <<>>, F)
    <3> HIDE DEF step, V, n
    <3> QED
      BY <1>1, <2>1, <2>2, LoopExists
  <2>4. ASSUME NEW B \in SUBSET (1 .. n)
        PROVE  LoopStep(step, <<>>, F, B) = OnlyStep(F, B)
    <3>1. CASE B = {}
      BY <3>1 DEF LoopStep
    <3>2. CASE B # {}
      <4>1. Max(B) \in 1 .. n
        BY <1>1, <3>2, MaxIsIn
      <4>2. F[B \ {Max(B)}] \in V
        OBVIOUS
      <4> HIDE DEF V, n
      <4>3. step[<<Max(B), F[B \ {Max(B)}]>>] =
              IF list[Max(B)] \in S THEN Append(F[B \ {Max(B)}], list[Max(B)])
              ELSE F[B \ {Max(B)}]
        BY <4>1, <4>2
      <4> HIDE DEF step
      <4> QED
        BY <3>2, <4>3 DEF LoopStep
    <3> QED
      BY <3>1, <3>2
  <2>5. F = [B \in SUBSET (1 .. n) |-> OnlyStep(F, B)]
    <3> DEFINE H == [B \in SUBSET (1 .. n) |-> OnlyStep(F, B)]
    <3>1. \A B \in SUBSET (1 .. n) : F[B] = LoopStep(step, <<>>, F, B) /\ H[B] = OnlyStep(F, B)
      <4> HIDE DEF OnlyStep, step, V, n
      <4> QED
        BY <2>3 DEF IsLoop
    <3>2. DOMAIN F = SUBSET (1 .. n) /\ DOMAIN H = SUBSET (1 .. n)
          /\ F = [B \in DOMAIN F |-> F[B]] /\ H = [B \in DOMAIN H |-> H[B]]
      <4> HIDE DEF OnlyStep, step, V, n
      <4> QED
        BY <2>3
    <3> HIDE DEF OnlyStep, step, V, n, H
    <3>3. F = H
      BY <2>4, <3>1, <3>2
    <3> QED
      BY <3>3 DEF H
  <2> HIDE DEF OnlyStep, n
  <2> QED
    BY <2>5
<1> HIDE DEF g
<1> DEFINE h == [k \in 0 .. n |-> g[1 .. k]]
<1>h. \A k \in 0 .. n : h[k] = g[1 .. k]
  OBVIOUS
<1> HIDE DEF h
<1>4. h[0] = <<>>
  <2>1. {} \in SUBSET (1 .. n) /\ 1 .. 0 = {} /\ 0 \in 0 .. n
    BY <1>1
  <2>2. g[{}] = <<>>
    BY <1>3, <2>1
  <2> QED
    BY <1>h, <2>1, <2>2
<1>5. ASSUME NEW k \in 1 .. n
      PROVE  h[k] = IF list[k] \in S THEN Append(h[k - 1], list[k]) ELSE h[k - 1]
  <2>1. /\ 1 .. k \in SUBSET (1 .. n) /\ 1 .. k # {} /\ (1 .. k) \ {k} = 1 .. k - 1
        /\ k \in 1 .. k /\ k \in Nat /\ k \in 0 .. n /\ k - 1 \in 0 .. n
    <3> HIDE DEF n
    <3> QED
      BY <1>1, UpTo
  <2>2. Max(1 .. k) = k
    BY <2>1, MaxIsLast
  <2>3. g[1 .. k] = OnlyStep(g, 1 .. k)
    <3> HIDE DEF OnlyStep, n
    <3> QED
      BY <1>3, <2>1
  <2>4. OnlyStep(g, 1 .. k) = IF list[k] \in S THEN Append(g[1 .. k - 1], list[k]) ELSE g[1 .. k - 1]
    <3> HIDE DEF n
    <3> QED
      BY <2>1, <2>2
  <2> HIDE DEF OnlyStep, n
  <2> QED
    BY <1>h, <2>1, <2>3, <2>4
<1>6. h \in [0 .. n -> Seq(T)]
  <2> DEFINE Good == {k \in 0 .. n : h[k] \in Seq(T)}
  <2> HIDE DEF h, n
  <2>1. 0 \in Good
    <3>1. h[0] \in Seq(T)
      BY <1>4
    <3>2. 0 \in 0 .. n
      BY <1>1
    <3> QED
      BY <3>1, <3>2, Zenon
  <2>2. ASSUME NEW k \in 1 .. n, k - 1 \in Good PROVE k \in Good
    <3>1. h[k - 1] \in Seq(T) /\ list[k] \in T
      BY <1>1, <2>2
    <3>2. Append(h[k - 1], list[k]) \in Seq(T)
      BY <3>1, AppendProperties
    <3>3. h[k] \in Seq(T)
      <4>1. CASE list[k] \in S
        BY <1>5, <3>2, <4>1
      <4>2. CASE list[k] \notin S
        BY <1>5, <3>1, <4>2
      <4> QED
        BY <4>1, <4>2
    <3>4. k \in 0 .. n
      BY <1>1
    <3> QED
      BY <3>3, <3>4
  <2>3. ASSUME NEW k \in 0 .. n PROVE h[k] \in Seq(T)
    <3>1. k \in Nat /\ \A j \in 1 .. k : j \in 1 .. n
      BY <1>1
    <3>2. k \in Good
      <4> HIDE DEF Good
      <4> QED
        BY <2>1, <2>2, <3>1, CountUp
    <3> QED
      BY <3>2
  <2> QED
    BY <2>3 DEF h
<1>7. Only(list, S) = h[n]
  BY <1>h, <1>1, <1>2
<1> QED
  BY <1>4, <1>5, <1>6, <1>7 DEF OnlySteps

(* What Only keeps are elements of the list.                                *)
LEMMA OnlyType ==
  ASSUME NEW T, NEW list \in Seq(T), NEW S
  PROVE  Only(list, S) \in Seq(T)
<1> DEFINE n == Len(list)
<1>1. n \in Nat
  OBVIOUS
<1>2. PICK h \in [0 .. n -> Seq(T)] : OnlySteps(list, S, h) /\ Only(list, S) = h[n]
  BY OnlyLoop
<1> HIDE DEF n
<1>3. n \in 0 .. n
  BY <1>1
<1> QED
  BY <1>2, <1>3

(* What Only keeps passed the test.                                         *)
LEMMA OnlyPassed ==
  ASSUME NEW T, NEW list \in Seq(T), NEW S
  PROVE  Only(list, S) \in Seq(T \cap S)
<1> DEFINE n == Len(list)
<1>1. n \in Nat /\ \A k \in 1 .. n : list[k] \in T
  BY ElementOfSeq
<1>2. PICK h \in [0 .. n -> Seq(T)] : OnlySteps(list, S, h) /\ Only(list, S) = h[n]
  BY OnlyLoop
<1>3. /\ h[0] = <<>>
      /\ \A k \in 1 .. n :
           h[k] = IF list[k] \in S THEN Append(h[k - 1], list[k]) ELSE h[k - 1]
  BY <1>2 DEF OnlySteps
<1> HIDE DEF n
<1> DEFINE Good == {k \in 0 .. n : h[k] \in Seq(T \cap S)}
<1>4. 0 \in Good
  BY <1>1, <1>3
<1>5. ASSUME NEW k \in 1 .. n, k - 1 \in Good PROVE k \in Good
  <2>1. h[k - 1] \in Seq(T \cap S) /\ k \in 0 .. n
    BY <1>1, <1>5
  <2>2. CASE list[k] \in S
    <3>1. list[k] \in T \cap S
      BY <1>1, <2>2
    <3>2. Append(h[k - 1], list[k]) \in Seq(T \cap S)
      BY <2>1, <3>1, AppendProperties
    <3> QED
      BY <1>3, <2>1, <2>2, <3>2
  <2>3. CASE list[k] \notin S
    BY <1>3, <2>1, <2>3
  <2> QED
    BY <2>2, <2>3
<1>6. n \in Good
  <2> HIDE DEF Good
  <2> QED
    BY <1>1, <1>4, <1>5, CountUp
<1> QED
  BY <1>2, <1>6

(* A list over a set is one over a larger set.                              *)
LEMMA ListOverMore ==
  ASSUME NEW A, NEW B, A \subseteq B, NEW list \in Seq(A)
  PROVE  list \in Seq(B)
<1>1. list \in [1 .. Len(list) -> A] /\ Len(list) \in Nat
  OBVIOUS
<1>2. list \in [1 .. Len(list) -> B]
  BY <1>1
<1> QED
  BY <1>1, <1>2

(* A list in order, with a larger number added at its end.                  *)
LEMMA AppendInOrder ==
  ASSUME NEW list \in Seq(Nat), NEW S, ListsInOrder(list, S), NEW x \in Nat,
         \A y \in S : y < x
  PROVE  /\ Append(list, x) \in Seq(Nat)
         /\ ListsInOrder(Append(list, x), S \cup {x})
<1> DEFINE n == Len(list)
           new == Append(list, x)
<1>1. n \in Nat /\ DOMAIN list = 1 .. n /\ \A k \in 1 .. n : list[k] \in Nat
  BY ElementOfSeq
<1>2. new \in Seq(Nat) /\ Len(new) = n + 1 /\ new[n + 1] = x /\ \A k \in 1 .. n : new[k] = list[k]
  BY AppendProperties
<1>3. DOMAIN new = 1 .. n + 1
  BY <1>2
<1> HIDE DEF new, n
<1>4. \A k \in 1 .. n : list[k] \in S
  BY <1>1 DEF ListsInOrder, ToSet
<1>5. ToSet(new) = S \cup {x}
  <2>1. \A k \in 1 .. n + 1 : k \in 1 .. n \/ k = n + 1
    BY <1>1
  <2>2. ToSet(new) \subseteq S \cup {x}
    BY <1>2, <1>3, <1>4, <2>1 DEF ToSet
  <2>3. n + 1 \in 1 .. n + 1 /\ \A k \in 1 .. n : k \in 1 .. n + 1
    BY <1>1
  <2>4. \A y \in S : \E k \in 1 .. n : y = list[k]
    BY <1>1 DEF ListsInOrder, ToSet
  <2>5. S \cup {x} \subseteq ToSet(new)
    BY <1>2, <1>3, <2>3, <2>4 DEF ToSet
  <2> QED
    BY <2>2, <2>5
<1>6. ASSUME NEW i \in 1 .. n + 1, NEW j \in 1 .. n + 1, i < j
      PROVE  new[i] < new[j]
  <2>1. i \in 1 .. n /\ (j = n + 1 \/ j \in 1 .. n)
    BY <1>1, <1>6
  <2>2. CASE j = n + 1
    BY <1>2, <1>4, <2>1, <2>2
  <2>3. CASE j \in 1 .. n
    BY <1>1, <1>2, <1>6, <2>1, <2>3 DEF ListsInOrder
  <2> QED
    BY <2>1, <2>2, <2>3
<1> QED
  BY <1>2, <1>3, <1>5, <1>6 DEF ListsInOrder, new

(* What Only keeps of a list in order is in order.                          *)
LEMMA OnlyInOrder ==
  ASSUME NEW list \in Seq(Nat), NEW A, ListsInOrder(list, A), NEW S
  PROVE  /\ Only(list, S) \in Seq(Nat)
         /\ ListsInOrder(Only(list, S), A \cap S)
<1> DEFINE n == Len(list)
<1>1. n \in Nat /\ DOMAIN list = 1 .. n /\ \A k \in 1 .. n : list[k] \in Nat
  BY ElementOfSeq
<1>2. PICK h \in [0 .. n -> Seq(Nat)] : OnlySteps(list, S, h) /\ Only(list, S) = h[n]
  BY OnlyLoop
<1> HIDE DEF n
<1> DEFINE Seen(k) == {list[j] : j \in 1 .. k} \cap S
           Good == {k \in 0 .. n : ListsInOrder(h[k], Seen(k))}
<1>3. 0 \in Good
  <2>1. 1 .. 0 = {} /\ 0 \in 0 .. n
    BY <1>1
  <2>2. Seen(0) = {}
    BY <2>1
  <2>3. ListsInOrder(<<>>, {})
    BY DEF ListsInOrder, ToSet
  <2> HIDE DEF Seen
  <2> QED
    BY <1>2, <2>1, <2>2, <2>3 DEF OnlySteps
<1>4. ASSUME NEW k \in 1 .. n, k - 1 \in Good PROVE k \in Good
  <2>1. k - 1 \in 0 .. n /\ k \in 0 .. n /\ k \in Nat /\ h[k - 1] \in Seq(Nat)
        /\ ListsInOrder(h[k - 1], Seen(k - 1)) /\ list[k] \in Nat
    BY <1>1, <1>4
  <2>2. \A j \in 1 .. k - 1 : list[j] < list[k]
    <3>1. \A j \in 1 .. k - 1 : j \in 1 .. n /\ j < k
      BY <1>1
    <3> QED
      BY <1>1, <3>1 DEF ListsInOrder
  <2>3. \A j \in 1 .. k : j \in 1 .. k - 1 \/ j = k
    BY <2>1
  <2>4. k \in 1 .. k /\ \A j \in 1 .. k - 1 : j \in 1 .. k
    BY <2>1
  <2>5. CASE list[k] \in S
    <3>1. Seen(k) = Seen(k - 1) \cup {list[k]}
      <4>1. Seen(k) \subseteq Seen(k - 1) \cup {list[k]}
        BY <2>3
      <4>2. Seen(k - 1) \subseteq Seen(k) /\ list[k] \in Seen(k)
        BY <2>4, <2>5
      <4> HIDE DEF Seen
      <4> QED
        BY <4>1, <4>2
    <3>2. \A y \in Seen(k - 1) : y < list[k]
      BY <2>2
    <3>3. h[k] = Append(h[k - 1], list[k])
      BY <1>2, <2>5 DEF OnlySteps, n
    <3> HIDE DEF Seen
    <3>4. ListsInOrder(h[k], Seen(k))
      <4> DEFINE old == h[k - 1]
                 x == list[k]
                 seen == Seen(k - 1)
      <4>1. old \in Seq(Nat) /\ ListsInOrder(old, seen) /\ x \in Nat /\ \A y \in seen : y < x
        BY <2>1, <3>2
      <4> HIDE DEF old, x, seen
      <4>2. ListsInOrder(Append(old, x), seen \cup {x})
        BY <4>1, AppendInOrder
      <4> QED
        BY <3>1, <3>3, <4>2 DEF old, x, seen
    <3> QED
      BY <2>1, <3>4
  <2>6. CASE list[k] \notin S
    <3>1. Seen(k) = Seen(k - 1)
      BY <2>3, <2>4, <2>6
    <3>2. h[k] = h[k - 1]
      BY <1>2, <2>6 DEF OnlySteps, n
    <3> HIDE DEF Seen
    <3> QED
      BY <2>1, <3>1, <3>2
  <2> QED
    BY <2>5, <2>6
<1>5. n \in Good
  <2> HIDE DEF Good
  <2> QED
    BY <1>1, <1>3, <1>4, CountUp
<1>6. Seen(n) = A \cap S
  BY <1>1 DEF ListsInOrder, ToSet
<1>7. n \in 0 .. n
  BY <1>1
<1> HIDE DEF Seen
<1> QED
  BY <1>2, <1>5, <1>6, <1>7

(* Two lists in order, the numbers of the first below those of the second.  *)
LEMMA ConcatInOrder ==
  ASSUME NEW a \in Seq(Nat), NEW b \in Seq(Nat), NEW A, NEW B,
         ListsInOrder(a, A), ListsInOrder(b, B), \A x \in A, y \in B : x < y
  PROVE  ListsInOrder(a \o b, A \cup B)
<1> DEFINE n == Len(a)
           m == Len(b)
           c == a \o b
<1>1. n \in Nat /\ m \in Nat /\ DOMAIN a = 1 .. n /\ DOMAIN b = 1 .. m
  OBVIOUS
<1>2. /\ c \in Seq(Nat) /\ Len(c) = n + m
      /\ \A i \in 1 .. n + m : c[i] = IF i <= n THEN a[i] ELSE b[i - n]
  BY ConcatProperties
<1>3. DOMAIN c = 1 .. n + m
  BY <1>2
<1> HIDE DEF n, m, c
<1>4. /\ \A i \in 1 .. n : i \in 1 .. n + m /\ i <= n
      /\ \A j \in 1 .. m : n + j \in 1 .. n + m /\ ~ (n + j <= n) /\ (n + j) - n = j
      /\ \A i \in 1 .. n + m : i <= n => i \in 1 .. n
      /\ \A i \in 1 .. n + m : ~ (i <= n) => i - n \in 1 .. m
  BY <1>1
<1>5. (\A i \in 1 .. n : a[i] \in A) /\ (\A j \in 1 .. m : b[j] \in B)
  BY <1>1 DEF ListsInOrder, ToSet
<1>6. ToSet(c) \subseteq A \cup B
  <2>1. ASSUME NEW i \in 1 .. n + m PROVE c[i] \in A \cup B
    <3>1. CASE i <= n
      BY <1>2, <1>4, <1>5, <3>1
    <3>2. CASE ~ (i <= n)
      BY <1>2, <1>4, <1>5, <3>2
    <3> QED BY <3>1, <3>2
  <2>2. \A x \in ToSet(c) : \E i \in 1 .. n + m : x = c[i]
    BY <1>3 DEF ToSet
  <2> QED BY <2>1, <2>2
<1>7. (\A x \in A : \E i \in 1 .. n : x = a[i]) /\ (\A y \in B : \E j \in 1 .. m : y = b[j])
  BY <1>1 DEF ListsInOrder, ToSet
<1>8. (\A i \in 1 .. n : c[i] = a[i]) /\ (\A j \in 1 .. m : c[n + j] = b[j])
  BY <1>2, <1>4
<1>9. A \cup B \subseteq ToSet(c)
  BY <1>3, <1>4, <1>7, <1>8 DEF ToSet
<1>10. ASSUME NEW i \in 1 .. n + m, NEW j \in 1 .. n + m, i < j
       PROVE  c[i] < c[j]
  <2>1. CASE j <= n
    <3>1. i \in 1 .. n /\ j \in 1 .. n
      BY <1>1, <1>10, <2>1
    <3> QED
      BY <1>1, <1>8, <1>10, <3>1 DEF ListsInOrder
  <2>2. CASE i <= n /\ ~ (j <= n)
    <3>1. i \in 1 .. n /\ j - n \in 1 .. m /\ c[i] = a[i] /\ c[j] = b[j - n]
      BY <1>2, <1>4, <2>2
    <3> QED
      BY <1>5, <3>1
  <2>3. CASE ~ (i <= n)
    <3>1. i - n \in 1 .. m /\ j - n \in 1 .. m /\ i - n < j - n /\ ~ (j <= n)
      BY <1>1, <1>10, <2>3
    <3>2. c[i] = b[i - n] /\ c[j] = b[j - n]
      BY <1>2, <2>3, <3>1
    <3> QED
      BY <1>1, <3>1, <3>2 DEF ListsInOrder
  <2> QED
    BY <2>1, <2>2, <2>3
<1> QED
  BY <1>3, <1>6, <1>9, <1>10 DEF ListsInOrder, c
=============================================================================
