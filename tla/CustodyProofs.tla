--------------------------- MODULE CustodyProofs ----------------------------
(***************************************************************************)
(* Proofs about the money the treasury holds for its depositors, for any   *)
(* finite set of depositors, any tokens and any amounts: the books agree   *)
(* with the money, a delisted token hides no balance, and the withdrawal   *)
(* limit bounds what leaves over time.                                     *)
(***************************************************************************)
EXTENDS Custody, AggregateProofs

(***************************************************************************)
(* The books.                                                              *)
(***************************************************************************)
BalancesOf(t) == [a \in Addresses |-> balance[a][t]]

(* No balance is ever negative, which the sums of BooksAgree need.          *)
BookTypes ==
  /\ balance \in [Addresses -> [Tokens -> Nat]]
  /\ tokenTotal \in [Tokens -> Int]
  /\ held \in [Tokens -> Int]

BookInv == BookTypes /\ BooksAgree

(* What a list deposits of a token is a natural number.                     *)
LEMMA AmountOfType ==
  ASSUME NEW list \in DepositLists, \A k \in DOMAIN list : list[k].amount > 0, NEW t
  PROVE  AmountOf(list, t) \in Nat
<1> DEFINE K == {k \in DOMAIN list : list[k].token = t}
           amounts == [k \in DOMAIN list |-> list[k].amount]
<1>1. list \in Seq([token : Tokens, amount : Int])
  BY CustodyAssumption
<1>2. DOMAIN list = 1 .. Len(list) /\ Len(list) \in Nat
  BY <1>1
<1>3. \A k \in DOMAIN list : list[k].amount \in Nat
  <2>1. \A k \in 1 .. Len(list) : list[k] \in [token : Tokens, amount : Int]
    BY <1>1, ElementOfSeq
  <2>2. \A k \in DOMAIN list : list[k].amount \in Int
    BY <1>2, <2>1
  <2> QED
    BY <2>2
<1>4. IsFiniteSet(K)
  <2>1. IsFiniteSet(1 .. Len(list))
    BY <1>2, FS_Interval
  <2> QED
    BY <1>2, <2>1, FS_Subset
<1>5. Natural(amounts, K)
  BY <1>3 DEF Natural
<1> QED
  BY <1>4, <1>5, SumType DEF AmountOf

(* The sum of the balances of a token when one depositor's balance changes. *)
LEMMA BalanceChange ==
  ASSUME BookTypes, NEW t \in Tokens, NEW a \in Addresses, NEW n \in Nat,
         balance' \in [Addresses -> [Tokens -> Nat]],
         balance'[a][t] = n,
         \A b \in Addresses \ {a} : balance'[b][t] = balance[b][t]
  PROVE  SumOver(BalancesOf(t)', Addresses)
           = SumOver(BalancesOf(t), Addresses) - balance[a][t] + n
<1> DEFINE f == BalancesOf(t)
           g == BalancesOf(t)'
<1>1. Natural(f, Addresses)
  BY DEF BookTypes, Natural, BalancesOf
<1>2. g[a] = n /\ f[a] = balance[a][t] /\ \A b \in Addresses \ {a} : g[b] = f[b]
  BY DEF BalancesOf
<1> HIDE DEF f, g
<1>3. IsFiniteSet(Addresses)
  BY CustodyAssumption
<1>4. SumOver(g, Addresses) = SumOver(f, Addresses) - f[a] + g[a]
  BY <1>1, <1>2, <1>3, SumChange
<1> QED
  BY <1>2, <1>4 DEF f, g

(* Steps that leave the depositors' balances and their totals alone.        *)
LEMMA BooksKept ==
  ASSUME BookInv, UNCHANGED bookVars, held' \in [Tokens -> Int]
  PROVE  BookInv'
BY DEF BookInv, BookTypes, BooksAgree, bookVars

(* batch_deposit: the total grows by what the depositor's balance grows by. *)
LEMMA DepositBooks ==
  ASSUME BookInv, NEW from \in Addresses, NEW list \in DepositLists, NEW ref,
         batch_deposit(from, list, ref)
  PROVE  BookInv'
<1>1. \A t \in Tokens : AmountOf(list, t) \in Nat
  BY AmountOfType DEF batch_deposit
<1>2. /\ held' = [t \in Tokens |-> held[t] + AmountOf(list, t)]
      /\ balance' = [balance EXCEPT ![from] =
                       [t \in Tokens |-> balance[from][t] + AmountOf(list, t)]]
      /\ tokenTotal' = [t \in Tokens |-> tokenTotal[t] + AmountOf(list, t)]
  BY DEF batch_deposit
<1>3. BookTypes'
  BY <1>1, <1>2 DEF BookInv, BookTypes
<1>4. ASSUME NEW t \in Tokens
      PROVE  tokenTotal'[t] = SumOver(BalancesOf(t)', Addresses)
  <2> DEFINE n == balance[from][t] + AmountOf(list, t)
  <2>1. n \in Nat /\ balance[from][t] \in Nat
    BY <1>1 DEF BookInv, BookTypes
  <2>2. balance'[from][t] = n /\ \A b \in Addresses \ {from} : balance'[b][t] = balance[b][t]
    BY <1>2 DEF BookInv, BookTypes
  <2>3. SumOver(BalancesOf(t)', Addresses)
          = SumOver(BalancesOf(t), Addresses) - balance[from][t] + n
    BY <1>3, <2>1, <2>2, BalanceChange DEF BookInv, BookTypes
  <2>4. tokenTotal[t] = SumOver(BalancesOf(t), Addresses)
    BY DEF BookInv, BooksAgree, BalancesOf
  <2>5. tokenTotal[t] \in Int
    BY DEF BookInv, BookTypes
  <2>6. tokenTotal'[t] = tokenTotal[t] + AmountOf(list, t)
    BY <1>2
  <2> QED
    BY <1>1, <2>1, <2>3, <2>4, <2>5, <2>6
<1> QED
  BY <1>3, <1>4 DEF BookInv, BooksAgree, BalancesOf

(* withdraw: the total shrinks by what the depositor's balance shrinks by.  *)
LEMMA WithdrawBooks ==
  ASSUME BookInv, NEW to \in Addresses, NEW tok \in Tokens, NEW amount \in Int,
         withdraw(to, tok, amount)
  PROVE  BookInv'
<1>1. /\ amount > 0
      /\ balance[to][tok] >= amount
      /\ balance' = [balance EXCEPT ![to][tok] = @ - amount]
      /\ tokenTotal' = [tokenTotal EXCEPT ![tok] = @ - amount]
      /\ held' = [held EXCEPT ![tok] = @ - amount]
  BY DEF withdraw
<1>2. balance[to][tok] \in Nat /\ balance[to][tok] - amount \in Nat
  BY <1>1 DEF BookInv, BookTypes
<1>3. BookTypes'
  BY <1>1, <1>2 DEF BookInv, BookTypes
<1>4. ASSUME NEW t \in Tokens
      PROVE  tokenTotal'[t] = SumOver(BalancesOf(t)', Addresses)
  <2> DEFINE n == IF t = tok THEN balance[to][t] - amount ELSE balance[to][t]
  <2>1. n \in Nat /\ balance[to][t] \in Nat
    BY <1>2 DEF BookInv, BookTypes
  <2>2. balance'[to][t] = n /\ \A b \in Addresses \ {to} : balance'[b][t] = balance[b][t]
    BY <1>1 DEF BookInv, BookTypes
  <2>3. SumOver(BalancesOf(t)', Addresses)
          = SumOver(BalancesOf(t), Addresses) - balance[to][t] + n
    BY <1>3, <2>1, <2>2, BalanceChange DEF BookInv, BookTypes
  <2>4. tokenTotal[t] = SumOver(BalancesOf(t), Addresses)
    BY DEF BookInv, BooksAgree, BalancesOf
  <2>5. tokenTotal[t] \in Int
    BY DEF BookInv, BookTypes
  <2>6. tokenTotal'[t] = IF t = tok THEN tokenTotal[t] - amount ELSE tokenTotal[t]
    BY <1>1 DEF BookInv, BookTypes
  <2> QED
    BY <2>1, <2>3, <2>4, <2>5, <2>6
<1> QED
  BY <1>3, <1>4 DEF BookInv, BooksAgree, BalancesOf

(* Drains and payouts leave the books alone.                                *)
LEMMA DrainBooks ==
  ASSUME BookInv, NEW t \in Tokens, Drain(t)
  PROVE  BookInv'
BY BooksKept DEF Drain, BookInv, BookTypes

LEMMA PayoutBooks ==
  ASSUME BookInv, NEW t \in Tokens, NEW amount \in Int, Payout(t, amount)
  PROVE  BookInv'
<1>1. held \in [Tokens -> Int] /\ held' = [held EXCEPT ![t] = @ - amount]
  BY DEF Payout, BookInv, BookTypes
<1>2. held' \in [Tokens -> Int]
  BY <1>1
<1> QED
  BY <1>2, BooksKept DEF Payout

(* Every call of MoneyNext keeps the books.                                 *)
LEMMA MoneyStepBooks ==
  ASSUME BookInv, MoneyNext
  PROVE  BookInv'
<1>0. ASSUME UNCHANGED <<bookVars, held>>
      PROVE  BookInv'
  BY <1>0, BooksKept DEF BookInv, BookTypes
<1>1. ASSUME NEW a \in Addresses, NEW list \in DepositLists, NEW ref,
             batch_deposit(a, list, ref)
      PROVE  BookInv'
  BY <1>1, DepositBooks
<1>2. ASSUME NEW a \in Addresses, NEW t \in Tokens, NEW n \in WithdrawAmounts,
             withdraw(a, t, n)
      PROVE  BookInv'
  BY <1>2, WithdrawBooks, CustodyAssumption
<1>3. ASSUME NEW a \in Addresses, NEW t \in Tokens, withdraw_all(t, a)
      PROVE  BookInv'
  BY <1>3, DrainBooks DEF withdraw_all
<1>4. ASSUME NEW signed, NEW t \in Tokens, emergency_withdraw(signed, t)
      PROVE  BookInv'
  BY <1>4, DrainBooks DEF emergency_withdraw
<1>5. ASSUME NEW l, NEW secs, set_withdrawal_limit(l, secs)
      PROVE  BookInv'
  BY <1>0, <1>5 DEF set_withdrawal_limit
<1>6. ASSUME NEW p, set_paused(p)
      PROVE  BookInv'
  BY <1>0, <1>6 DEF set_paused
<1>7. ASSUME NEW t, add_allowed_token(t)
      PROVE  BookInv'
  BY <1>0, <1>7 DEF add_allowed_token
<1>8. ASSUME NEW t, NEW p, remove_allowed_token(t, p)
      PROVE  BookInv'
  BY <1>0, <1>8 DEF remove_allowed_token
<1>9. ASSUME NEW t \in Tokens, NEW n \in PayoutAmounts,
             pay_settlement(t, n) \/ partially_pay_settlement(t, n) \/ pay_split(t, n)
      PROVE  BookInv'
  <2>1. n \in Int
    BY CustodyAssumption
  <2> QED
    BY <1>9, <2>1, PayoutBooks DEF pay_settlement, partially_pay_settlement, pay_split
<1> QED
  BY <1>1, <1>2, <1>3, <1>4, <1>5, <1>6, <1>7, <1>8, <1>9 DEF MoneyNext

(* The inductive invariant of the books.                                    *)
LEMMA BooksInvariant == CustodySpec => []BookInv
<1>1. CustodyInit => BookInv
  <2> SUFFICES ASSUME CustodyInit PROVE BookInv
    OBVIOUS
  <2>1. /\ balance = [a \in Addresses |-> [t \in Tokens |-> 0]]
        /\ tokenTotal = [t \in Tokens |-> 0]
        /\ held \in [Tokens -> InitialPools]
    BY DEF CustodyInit
  <2>2. BookTypes
    <3>1. InitialPools \subseteq Int
      BY CustodyAssumption
    <3>2. held \in [Tokens -> Int]
      BY <2>1, <3>1
    <3> QED
      BY <2>1, <3>2 DEF BookTypes
  <2>3. ASSUME NEW t \in Tokens
        PROVE  tokenTotal[t] = SumOver(BalancesOf(t), Addresses)
    <3>1. \A a \in Addresses : BalancesOf(t)[a] = 0
      BY <2>1 DEF BalancesOf
    <3>2. SumOver(BalancesOf(t), Addresses) = 0
      BY <3>1, SumZeros, CustodyAssumption
    <3> QED
      BY <2>1, <3>2
  <2> QED
    BY <2>2, <2>3 DEF BookInv, BooksAgree, BalancesOf
<1>2. BookInv /\ [CustodyNext]_allVars => BookInv'
  <2>1. BookInv /\ MoneyNext => BookInv'
    BY MoneyStepBooks
  <2>2. BookInv /\ UNCHANGED custodyVars => BookInv'
    BY BooksKept DEF custodyVars, BookInv, BookTypes
  <2> QED
    BY <2>1, <2>2 DEF CustodyNext, allVars
<1> QED
  BY <1>1, <1>2, PTL DEF CustodySpec

(* The total kept per token is the sum of the depositors' balances after    *)
(* any deposits, withdrawals, full, partial and split payouts and drains    *)
(* (deposit_one, withdraw, execute_settlement, partially_execute_settlement,*)
(* resolve_dispute_split, withdraw_all, emergency_withdraw).                *)
THEOREM TotalsAgreeWithBalances == CustodySpec => []BooksAgree
BY BooksInvariant, PTL DEF BookInv

(* remove_allowed_token reads only the total, and a total of 0 leaves no    *)
(* depositor with a balance: balances are never negative.                   *)
THEOREM DelistedTokenIsEmpty == CustodySpec => DelistingHidesNothing
<1> DEFINE P == \A t \in tokenAllowlist \ tokenAllowlist' :
                  \A a \in Addresses : balance[a][t] = 0
           Listed == tokenAllowlist \subseteq Tokens
<1>1. CustodyInit => Listed
  BY DEF CustodyInit
<1>2. Listed /\ [CustodyNext]_allVars => Listed'
  <2> SUFFICES ASSUME Listed, [CustodyNext]_allVars PROVE Listed'
    OBVIOUS
  <2>1. tokenAllowlist' = tokenAllowlist => Listed'
    OBVIOUS
  <2>2. ASSUME MoneyNext PROVE Listed'
    BY <2>1, <2>2 DEF MoneyNext, batch_deposit, withdraw, withdraw_all, emergency_withdraw,
         Drain, set_withdrawal_limit, set_paused, add_allowed_token, remove_allowed_token,
         pay_settlement, partially_pay_settlement, pay_split, Payout
  <2>3. ASSUME UNCHANGED custodyVars PROVE Listed'
    BY <2>1, <2>3 DEF custodyVars
  <2> QED
    BY <2>2, <2>3 DEF CustodyNext, allVars
<1>3. BookInv /\ Listed /\ [CustodyNext]_allVars => P
  <2> SUFFICES ASSUME BookInv, Listed, [CustodyNext]_allVars,
                      NEW t \in tokenAllowlist \ tokenAllowlist',
                      NEW a \in Addresses
               PROVE  balance[a][t] = 0
    OBVIOUS
  <2>1. t \in Tokens
    OBVIOUS
  <2>2. \E u \in Tokens, p \in BOOLEAN : remove_allowed_token(u, p)
    <3>1. CASE MoneyNext
      BY <3>1 DEF MoneyNext, batch_deposit, withdraw, withdraw_all, emergency_withdraw,
           Drain, set_withdrawal_limit, set_paused, add_allowed_token,
           pay_settlement, partially_pay_settlement, pay_split, Payout
    <3>2. CASE UNCHANGED custodyVars
      BY <3>2 DEF custodyVars
    <3> QED
      BY <3>1, <3>2 DEF CustodyNext, allVars
  <2>3. tokenTotal[t] <= 0
    BY <2>2 DEF remove_allowed_token
  <2>4. tokenTotal[t] = SumOver(BalancesOf(t), Addresses)
    BY <2>1 DEF BookInv, BooksAgree, BalancesOf
  <2>5. Natural(BalancesOf(t), Addresses) /\ BalancesOf(t)[a] = balance[a][t]
    BY <2>1 DEF BookInv, BookTypes, BalancesOf, Natural
  <2>6. BalancesOf(t)[a] <= SumOver(BalancesOf(t), Addresses)
    BY <2>5, SumBoundsEntry, CustodyAssumption
  <2>7. balance[a][t] \in Nat /\ tokenTotal[t] \in Int
    BY <2>1 DEF BookInv, BookTypes
  <2> QED
    BY <2>3, <2>4, <2>5, <2>6, <2>7
<1> HIDE DEF P, Listed
<1>4. BookInv /\ Listed /\ [CustodyNext]_allVars => [P]_allVars
  BY <1>3
<1> QED
  BY <1>1, <1>2, <1>4, BooksInvariant, PTL DEF CustodySpec, DelistingHidesNothing, P

(***************************************************************************)
(* The withdrawal limit over time.                                         *)
(***************************************************************************)
Since(start) == {u \in Times : u >= start}
Before(start, secs) == {u \in Times : start - secs < u /\ u < start}
Stretch(from, secs) == {u \in Times : from <= u /\ u < from + secs}

(* Why two windows are the most a stretch can meet, about what one address  *)
(* took out (f, by time): nothing leaves once its window is over, at most   *)
(* the limit and at most what the contract counted leaves from the start of *)
(* the window on, and at most the limit in as much time before that.        *)
Bounded(f, start, used, lim, secs) ==
  /\ \A u \in Times : u >= start + secs => f[u] = 0
  /\ SumOver(f, Since(start)) <= used
  /\ SumOver(f, Since(start)) <= lim
  /\ SumOver(f, Before(start, secs)) <= lim
  /\ \A from \in Times : SumOver(f, Stretch(from, secs)) <= 2 * lim

(* The times are finitely many, and so are those of any part of them.       *)
LEMMA TimesFinite ==
  ASSUME NEW U, U \subseteq Times
  PROVE  IsFiniteSet(U)
<1>1. IsFiniteSet(0 .. MaxTime)
  BY FS_Interval, RegistryAssumption
<1> QED
  BY <1>1, FS_Subset DEF Times

(* Taking out n more at time t, as seen by every set of times.              *)
LEMMA TookMore ==
  ASSUME NEW f \in [Times -> Nat], NEW t \in Times, NEW n \in Nat,
         NEW g \in [Times -> Nat], g[t] = f[t] + n,
         \A u \in Times \ {t} : g[u] = f[u]
  PROVE  \A U \in SUBSET Times :
           /\ SumOver(f, U) \in Nat /\ SumOver(g, U) \in Nat
           /\ t \in U => SumOver(g, U) = SumOver(f, U) + n
           /\ t \notin U => SumOver(g, U) = SumOver(f, U)
<1> TAKE U \in SUBSET Times
<1>1. IsFiniteSet(U)
  BY TimesFinite
<1>2. Natural(f, U) /\ Natural(g, U) /\ f[t] \in Nat /\ g[t] \in Nat
  BY DEF Natural
<1>4. SumOver(f, U) \in Nat /\ SumOver(g, U) \in Nat
  BY <1>1, <1>2, SumType
<1>5. ASSUME t \in U PROVE SumOver(g, U) = SumOver(f, U) + n
  <2>1. \A u \in U \ {t} : g[u] = f[u]
    OBVIOUS
  <2>2. SumOver(g, U) = SumOver(f, U) - f[t] + g[t]
    BY <1>1, <1>2, <1>5, <2>1, SumChange
  <2> QED
    BY <1>2, <1>4, <2>2
<1>6. ASSUME t \notin U PROVE SumOver(g, U) = SumOver(f, U)
  <2>1. \A u \in U : g[u] = f[u]
    BY <1>6
  <2> QED
    BY <1>1, <1>2, <2>1, SumSame
<1> QED
  BY <1>4, <1>5, <1>6

(* A stretch that now falls in lies in the window and in as much time       *)
(* before it.                                                               *)
LEMMA StretchMeetsTwo ==
  ASSUME NEW g \in [Times -> Nat], NEW start \in Times, NEW t \in Times, start <= t,
         NEW secs \in Nat, NEW lim \in Nat, NEW from \in Times, t \in Stretch(from, secs),
         SumOver(g, Since(start)) <= lim, SumOver(g, Before(start, secs)) <= lim
  PROVE  SumOver(g, Stretch(from, secs)) <= 2 * lim
<1> DEFINE B == Before(start, secs)
           A == Since(start)
           U == Stretch(from, secs)
<1>0. Times \subseteq Int
  BY DEF Times
<1>1. ASSUME NEW u \in U PROVE u \in B \cup A
  <2>1. u \in Times /\ from <= u /\ t < from + secs
    BY DEF Stretch
  <2>2. u \in Int /\ t \in Int /\ from \in Int /\ start \in Int
    BY <1>0, <2>1
  <2>3. start - secs < u
    BY <2>1, <2>2
  <2> QED
    BY <2>1, <2>2, <2>3 DEF Before, Since
<1>2. B \cap A = {} /\ B \cup A \subseteq Times
  <2>1. ASSUME NEW u \in Int, u < start, u >= start PROVE FALSE
    BY <1>0, <2>1
  <2>2. ASSUME NEW u \in B, u \in A PROVE FALSE
    BY <1>0, <2>1, <2>2 DEF Before, Since
  <2> QED
    BY <2>2 DEF Before, Since
<1> HIDE DEF A, B, U
<1>3. IsFiniteSet(A) /\ IsFiniteSet(B) /\ IsFiniteSet(U) /\ IsFiniteSet(B \cup A)
  BY <1>1, <1>2, TimesFinite
<1>4. Natural(g, A) /\ Natural(g, B) /\ Natural(g, U) /\ Natural(g, B \cup A)
  BY <1>1, <1>2 DEF Natural
<1>5. SumOver(g, B \cup A) = SumOver(g, B) + SumOver(g, A)
  BY <1>2, <1>3, <1>4, SumSplit
<1>6. SumOver(g, U) <= SumOver(g, B \cup A)
  BY <1>1, <1>3, <1>4, SumPart
<1>7. SumOver(g, A) \in Nat /\ SumOver(g, B) \in Nat /\ SumOver(g, U) \in Nat
  BY <1>3, <1>4, SumType
<1>8. SumOver(g, A) <= lim /\ SumOver(g, B) <= lim
  BY DEF A, B
<1> QED
  BY <1>5, <1>6, <1>7, <1>8 DEF U

(* A withdrawal that counts against the window it falls in.                 *)
LEMMA InsideWindow ==
  ASSUME NEW f \in [Times -> Nat], NEW start \in Times, NEW used \in Nat,
         NEW lim \in Nat, NEW secs \in Nat, NEW t \in Times, NEW n \in Nat,
         Bounded(f, start, used, lim, secs),
         start <= t, t < start + secs, used + n <= lim,
         NEW g \in [Times -> Nat], g[t] = f[t] + n,
         \A u \in Times \ {t} : g[u] = f[u]
  PROVE  Bounded(g, start, used + n, lim, secs)
<1>0. Times \subseteq Int
  BY DEF Times
<1>1. \A U \in SUBSET Times :
        /\ SumOver(f, U) \in Nat /\ SumOver(g, U) \in Nat
        /\ t \in U => SumOver(g, U) = SumOver(f, U) + n
        /\ t \notin U => SumOver(g, U) = SumOver(f, U)
  BY TookMore
<1>2. \A u \in Times : u >= start + secs => g[u] = 0
  BY <1>0 DEF Bounded
<1>3. SumOver(g, Since(start)) <= used + n
  <2>1. t \in Since(start) /\ Since(start) \subseteq Times
    BY DEF Since
  <2>2. SumOver(g, Since(start)) = SumOver(f, Since(start)) + n
        /\ SumOver(f, Since(start)) \in Nat
    BY <2>1, <1>1
  <2> QED
    BY <2>2 DEF Bounded
<1>4. SumOver(g, Since(start)) <= lim
  <2>1. SumOver(g, Since(start)) \in Nat
    BY <1>1 DEF Since
  <2> QED
    BY <1>3, <2>1
<1>5. SumOver(g, Before(start, secs)) <= lim
  <2>1. t \notin Before(start, secs) /\ Before(start, secs) \subseteq Times
    BY <1>0 DEF Before
  <2>2. SumOver(g, Before(start, secs)) = SumOver(f, Before(start, secs))
    BY <2>1, <1>1
  <2> QED
    BY <2>2 DEF Bounded
<1>6. ASSUME NEW from \in Times
      PROVE  SumOver(g, Stretch(from, secs)) <= 2 * lim
  <2>1. CASE t \in Stretch(from, secs)
    BY <1>1, <1>4, <1>5, <2>1, StretchMeetsTwo
  <2>2. CASE t \notin Stretch(from, secs)
    <3>1. Stretch(from, secs) \subseteq Times
      BY DEF Stretch
    <3>2. SumOver(g, Stretch(from, secs)) = SumOver(f, Stretch(from, secs))
      BY <2>2, <3>1, <1>1
    <3> QED
      BY <3>2 DEF Bounded
  <2> QED
    BY <2>1, <2>2
<1> QED
  BY <1>2, <1>3, <1>4, <1>5, <1>6 DEF Bounded

(* A withdrawal that starts a new window.                                   *)
LEMMA NewWindow ==
  ASSUME NEW f \in [Times -> Nat], NEW start \in Times, NEW used \in Nat,
         NEW lim \in Nat, NEW secs \in Nat \ {0}, NEW t \in Times, NEW n \in Nat,
         Bounded(f, start, used, lim, secs),
         t >= start + secs, n <= lim,
         NEW g \in [Times -> Nat], g[t] = f[t] + n,
         \A u \in Times \ {t} : g[u] = f[u]
  PROVE  Bounded(g, t, n, lim, secs)
<1>0. Times \subseteq Int
  BY DEF Times
<1>1. \A U \in SUBSET Times :
        /\ SumOver(f, U) \in Nat /\ SumOver(g, U) \in Nat
        /\ t \in U => SumOver(g, U) = SumOver(f, U) + n
        /\ t \notin U => SumOver(g, U) = SumOver(f, U)
  BY TookMore
<1>2. \A u \in Times : u >= t + secs => g[u] = 0
  BY <1>0 DEF Bounded
<1>3. SumOver(g, Since(t)) = n
  <2>1. t \in Since(t) /\ Since(t) \subseteq Times
    BY <1>0 DEF Since
  <2>2. SumOver(g, Since(t)) = SumOver(f, Since(t)) + n
    BY <2>1, <1>1
  <2>3. \A u \in Since(t) : f[u] = 0
    BY <1>0 DEF Since, Bounded
  <2>4. SumOver(f, Since(t)) = 0
    BY <2>1, <2>3, TimesFinite, SumZeros
  <2> QED
    BY <2>2, <2>4
<1>4. SumOver(g, Before(t, secs)) <= lim
  <2>0. ASSUME NEW u \in Times, t - secs < u PROVE u >= start
    <3>1. u \in Int /\ t \in Int /\ start \in Int
      BY <1>0
    <3> QED
      BY <2>0, <3>1
  <2>1. /\ t \notin Before(t, secs) /\ Before(t, secs) \subseteq Times
        /\ Before(t, secs) \subseteq Since(start) /\ Since(start) \subseteq Times
    <3>1. ~ (t < t)
      BY <1>0
    <3> QED
      BY <2>0, <3>1 DEF Before, Since
  <2>2. /\ SumOver(g, Before(t, secs)) = SumOver(f, Before(t, secs))
        /\ SumOver(f, Before(t, secs)) \in Nat
        /\ SumOver(f, Since(start)) \in Nat
    BY <2>1, <1>1
  <2>3. IsFiniteSet(Since(start)) /\ Natural(f, Since(start))
    BY <2>1, TimesFinite DEF Natural
  <2>4. SumOver(f, Before(t, secs)) <= SumOver(f, Since(start))
    BY <2>1, <2>3, SumPart
  <2>5. SumOver(f, Since(start)) <= lim
    BY DEF Bounded
  <2> QED
    BY <2>2, <2>4, <2>5
<1>5. ASSUME NEW from \in Times
      PROVE  SumOver(g, Stretch(from, secs)) <= 2 * lim
  <2>1. CASE t \in Stretch(from, secs)
    <3>1. t <= t
      BY <1>0
    <3> QED
      BY <1>1, <1>3, <1>4, <2>1, <3>1, StretchMeetsTwo
  <2>2. CASE t \notin Stretch(from, secs)
    <3>1. Stretch(from, secs) \subseteq Times
      BY DEF Stretch
    <3>2. SumOver(g, Stretch(from, secs)) = SumOver(f, Stretch(from, secs))
      BY <2>2, <3>1, <1>1
    <3> QED
      BY <3>2 DEF Bounded
  <2> QED
    BY <2>1, <2>2
<1> QED
  BY <1>2, <1>3, <1>4, <1>5, n <= n DEF Bounded

(* An address that took nothing out under this limit.                       *)
LEMMA NothingTaken ==
  ASSUME NEW f, \A u \in Times : f[u] = 0, NEW start, NEW used \in Nat,
         NEW lim \in Nat, NEW secs
  PROVE  Bounded(f, start, used, lim, secs)
<1>1. \A U : U \subseteq Times => SumOver(f, U) = 0
  BY TimesFinite, SumZeros
<1>2. /\ SumOver(f, Since(start)) = 0
      /\ SumOver(f, Before(start, secs)) = 0
      /\ \A from \in Times : SumOver(f, Stretch(from, secs)) = 0
  BY <1>1 DEF Since, Before, Stretch
<1> QED
  BY <1>2 DEF Bounded

UsageTypes ==
  /\ now \in Times
  /\ limit \in Int
  /\ windowSecs \in Nat
  /\ windowStart \in [Addresses -> Times]
  /\ usedInWindow \in [Addresses -> Nat]
  /\ withdrawn \in [Addresses -> [Times -> Nat]]
  /\ \A a \in Addresses : windowStart[a] <= now

UsageInv ==
  /\ UsageTypes
  /\ limit > 0 /\ windowSecs > 0 =>
       \A a \in Addresses :
         Bounded(withdrawn[a], windowStart[a], usedInWindow[a], limit, windowSecs)

(* enforce_withdrawal_limit keeps every address within its bounds.          *)
LEMMA EnforcedUsage ==
  ASSUME UsageInv, NEW addr \in Addresses, NEW n \in Nat,
         enforce_withdrawal_limit(addr, n), UNCHANGED <<limitVars, now>>
  PROVE  UsageInv'
<1>0. limit' = limit /\ windowSecs' = windowSecs /\ now' = now
  BY DEF limitVars
<1>1. CASE UNCHANGED usageVars
  BY <1>0, <1>1 DEF UsageInv, UsageTypes, usageVars
<1>2. CASE ~ UNCHANGED usageVars
  <2> DEFINE prev == IF window_elapsed(addr) THEN 0 ELSE usedInWindow[addr]
             start == IF window_elapsed(addr) THEN now ELSE windowStart[addr]
             f == withdrawn[addr]
             g == [withdrawn[addr] EXCEPT ![now] = @ + n]
  <2>1. /\ limit > 0
        /\ n + prev <= limit
        /\ windowStart' = [windowStart EXCEPT ![addr] = start]
        /\ usedInWindow' = [usedInWindow EXCEPT ![addr] = n + prev]
        /\ withdrawn' = [withdrawn EXCEPT ![addr] = g]
    BY <1>2 DEF enforce_withdrawal_limit
  <2>2. /\ limit \in Nat /\ windowSecs \in Nat /\ now \in Times /\ f \in [Times -> Nat]
        /\ windowStart[addr] \in Times /\ windowStart[addr] <= now
        /\ usedInWindow[addr] \in Nat
        /\ windowStart \in [Addresses -> Times] /\ usedInWindow \in [Addresses -> Nat]
        /\ withdrawn \in [Addresses -> [Times -> Nat]]
    BY <2>1 DEF UsageInv, UsageTypes
  <2>3. /\ g \in [Times -> Nat] /\ g[now] = f[now] + n
        /\ \A u \in Times \ {now} : g[u] = f[u]
    BY <2>2
  <2>4. Times \subseteq Int /\ prev \in Nat /\ start \in Times /\ start <= now
    BY <2>2 DEF Times
  <2>5. UsageTypes'
    <3>1. /\ windowStart' \in [Addresses -> Times]
          /\ usedInWindow' \in [Addresses -> Nat]
          /\ withdrawn' \in [Addresses -> [Times -> Nat]]
      <4> HIDE DEF g, start, prev
      <4> QED
        BY <2>1, <2>2, <2>3, <2>4
    <3>2. ASSUME NEW a \in Addresses PROVE windowStart'[a] <= now
      <4> HIDE DEF start
      <4>1. windowStart[a] <= now
        BY DEF UsageInv, UsageTypes
      <4> QED
        BY <2>1, <2>2, <2>4, <4>1
    <3> QED
      BY <1>0, <3>1, <3>2 DEF UsageInv, UsageTypes
  <2>6. ASSUME windowSecs > 0, NEW a \in Addresses
        PROVE  Bounded(withdrawn'[a], windowStart'[a], usedInWindow'[a], limit, windowSecs)
    <3>0. Bounded(withdrawn[a], windowStart[a], usedInWindow[a], limit, windowSecs)
      BY <2>1, <2>6 DEF UsageInv
    <3>1. CASE a # addr
      <4>1. /\ withdrawn'[a] = withdrawn[a] /\ windowStart'[a] = windowStart[a]
            /\ usedInWindow'[a] = usedInWindow[a]
        BY <2>1, <2>2, <3>1
      <4> QED
        BY <3>0, <4>1
    <3>2. CASE a = addr
      <4>1. withdrawn'[a] = g /\ windowStart'[a] = start /\ usedInWindow'[a] = n + prev
        <5> HIDE DEF g, start, prev
        <5> QED
          BY <2>1, <2>2, <3>2
      <4>2. Bounded(f, windowStart[addr], usedInWindow[addr], limit, windowSecs)
        BY <3>0, <3>2
      <4>3. now \in Int /\ windowStart[addr] \in Int /\ windowSecs \in Int /\ windowSecs # 0
        <5>1. now \in Times /\ windowStart[addr] \in Times /\ windowSecs \in Nat
          BY <2>2
        <5>2. windowSecs # 0
          BY <2>6
        <5> QED
          BY <5>1, <5>2 DEF Times
      <4>4. window_elapsed(addr) <=> now - windowStart[addr] >= windowSecs
        BY <4>3 DEF window_elapsed
      <4>5. CASE window_elapsed(addr)
        <5>1. now >= windowStart[addr] + windowSecs
          BY <4>5, <4>3, <4>4
        <5>2. n <= limit /\ windowSecs \in Nat \ {0}
          BY <2>1, <2>2, <2>6, <4>5
        <5> HIDE DEF f, g
        <5>3. Bounded(g, now, n, limit, windowSecs)
          BY <2>2, <2>3, <4>2, <5>1, <5>2, NewWindow
        <5>4. start = now /\ n + prev = n
          BY <4>5
        <5> QED
          BY <4>1, <5>3, <5>4
      <4>6. CASE ~ window_elapsed(addr)
        <5>1. now < windowStart[addr] + windowSecs
          BY <4>6, <4>3, <4>4
        <5>2. /\ usedInWindow[addr] + n <= limit
              /\ n + prev = usedInWindow[addr] + n
              /\ start = windowStart[addr]
          BY <2>1, <2>2, <4>6
        <5> HIDE DEF f, g
        <5>3. Bounded(g, windowStart[addr], usedInWindow[addr] + n, limit, windowSecs)
          BY <2>2, <2>3, <4>2, <5>1, <5>2, InsideWindow
        <5> QED
          BY <4>1, <5>2, <5>3
      <4> QED
        BY <4>5, <4>6
    <3> QED
      BY <3>1, <3>2
  <2> QED
    BY <1>0, <2>5, <2>6 DEF UsageInv
<1> QED
  BY <1>1, <1>2

(* set_withdrawal_limit starts the history again.                           *)
LEMMA NewLimitUsage ==
  ASSUME UsageInv, NEW l \in Limits, NEW secs \in Windows,
         set_withdrawal_limit(l, secs), now' = now
  PROVE  UsageInv'
<1>1. /\ limit' = l /\ windowSecs' = secs
      /\ withdrawn' = [a \in Addresses |-> [u \in Times |-> 0]]
      /\ windowStart' = windowStart /\ usedInWindow' = usedInWindow
  BY DEF set_withdrawal_limit
<1>2. l \in Int /\ secs \in Nat
  BY CustodyAssumption
<1>3. UsageTypes'
  BY <1>1, <1>2 DEF UsageInv, UsageTypes
<1>4. ASSUME l > 0, NEW a \in Addresses
      PROVE  Bounded(withdrawn'[a], windowStart'[a], usedInWindow'[a], l, secs)
  <2>1. \A u \in Times : withdrawn'[a][u] = 0
    BY <1>1
  <2>2. usedInWindow'[a] \in Nat /\ l \in Nat
    BY <1>1, <1>2, <1>4 DEF UsageInv, UsageTypes
  <2> QED
    BY <2>1, <2>2, NothingTaken
<1> QED
  BY <1>1, <1>3, <1>4 DEF UsageInv

(* The signers' calls move the clock by at most one, and the times end.     *)
LEMMA GovernanceClock ==
  ASSUME GovernanceNext, now \in Times
  PROVE  now' \in Times /\ now <= now'
<1>1. now' = now \/ Tick
  BY DEF GovernanceNext, RotationNext, ChangeNext, HandoverNext, DirectNext, RegistryNext,
    propose_signer_rotation, approve_signer_rotation, cancel_rotation,
    propose_signer_change, execute_signer_change, cancel_signer_change, transfer_admin,
    accept_admin, cancel_transfer_admin, set_signer, remove_signer, update_threshold
<1> QED
  BY <1>1, RegistryAssumption DEF Tick, Times

(* The inductive invariant of the withdrawal limit.                         *)
LEMMA UsageInvariant == CustodySpec => []UsageInv
<1>1. CustodyInit => UsageInv
  <2> SUFFICES ASSUME CustodyInit PROVE UsageInv
    OBVIOUS
  <2>1. /\ limit = 0 /\ windowSecs = 0
        /\ windowStart = [a \in Addresses |-> 0]
        /\ usedInWindow = [a \in Addresses |-> 0]
        /\ withdrawn = [a \in Addresses |-> [u \in Times |-> 0]]
        /\ now = 1
    BY DEF CustodyInit, GovernanceInit, RegistryInit
  <2>2. 0 \in Times /\ 1 \in Times
    BY RegistryAssumption DEF Times
  <2> QED
    BY <2>1, <2>2 DEF UsageInv, UsageTypes
<1>2. BookInv /\ UsageInv /\ [CustodyNext]_allVars => UsageInv'
  <2> SUFFICES ASSUME BookInv, UsageInv, [CustodyNext]_allVars PROVE UsageInv'
    OBVIOUS
  <2>0. ASSUME UNCHANGED <<limitVars, usageVars, now>> PROVE UsageInv'
    BY <2>0 DEF UsageInv, UsageTypes, limitVars, usageVars
  <2>1. ASSUME MoneyNext, UNCHANGED governanceVars PROVE UsageInv'
    <3>0. now' = now
      BY <2>1 DEF governanceVars
    <3>1. ASSUME NEW a \in Addresses, NEW t \in Tokens, NEW n \in WithdrawAmounts,
                 withdraw(a, t, n)
          PROVE  UsageInv'
      <4>1. n \in Nat
        BY <3>1, CustodyAssumption DEF withdraw
      <4> QED
        BY <3>0, <3>1, <4>1, EnforcedUsage DEF withdraw
    <3>2. ASSUME NEW a \in Addresses, NEW t \in Tokens, withdraw_all(t, a)
          PROVE  UsageInv'
      <4>1. UNCHANGED limitVars
        BY <3>2 DEF withdraw_all, Drain
      <4>2. CASE UNCHANGED usageVars
        BY <2>0, <3>0, <4>1, <4>2
      <4>3. CASE held[t] > 0 /\ enforce_withdrawal_limit(a, held[t])
        <5>1. held[t] \in Nat
          BY <4>3 DEF BookInv, BookTypes
        <5> QED
          BY <3>0, <4>1, <4>3, <5>1, EnforcedUsage
      <4> QED
        BY <3>2, <4>2, <4>3 DEF withdraw_all
    <3>3. ASSUME NEW l \in Limits, NEW secs \in Windows, set_withdrawal_limit(l, secs)
          PROVE  UsageInv'
      BY <3>0, <3>3, NewLimitUsage
    <3>4. ASSUME NEW a \in Addresses, NEW list \in DepositLists, NEW ref,
                 batch_deposit(a, list, ref)
          PROVE  UsageInv'
      BY <2>0, <3>0, <3>4 DEF batch_deposit
    <3>5. ASSUME NEW signed, NEW t \in Tokens, emergency_withdraw(signed, t)
          PROVE  UsageInv'
      BY <2>0, <3>0, <3>5 DEF emergency_withdraw, Drain
    <3>6. ASSUME NEW p, set_paused(p)
          PROVE  UsageInv'
      BY <2>0, <3>0, <3>6 DEF set_paused
    <3>7. ASSUME NEW t, add_allowed_token(t)
          PROVE  UsageInv'
      BY <2>0, <3>0, <3>7 DEF add_allowed_token
    <3>8. ASSUME NEW t, NEW p, remove_allowed_token(t, p)
          PROVE  UsageInv'
      BY <2>0, <3>0, <3>8 DEF remove_allowed_token
    <3>9. ASSUME NEW t, NEW n,
                 pay_settlement(t, n) \/ partially_pay_settlement(t, n) \/ pay_split(t, n)
          PROVE  UsageInv'
      BY <2>0, <3>0, <3>9 DEF pay_settlement, partially_pay_settlement, pay_split, Payout
    <3> QED
      BY <2>1, <3>1, <3>2, <3>3, <3>4, <3>5, <3>6, <3>7, <3>8, <3>9 DEF MoneyNext
  <2>2. ASSUME GovernanceNext, UNCHANGED custodyVars PROVE UsageInv'
    <3>1. UNCHANGED <<limit, windowSecs, windowStart, usedInWindow, withdrawn>>
      BY <2>2 DEF custodyVars, limitVars, usageVars
    <3>2. now \in Times /\ now' \in Times /\ now <= now'
      BY <2>2, GovernanceClock DEF UsageInv, UsageTypes
    <3>3. ASSUME NEW a \in Addresses PROVE windowStart[a] <= now'
      <4>1. windowStart[a] \in Times /\ windowStart[a] <= now
        BY DEF UsageInv, UsageTypes
      <4> QED
        BY <3>2, <4>1 DEF Times
    <3> QED
      BY <3>1, <3>2, <3>3 DEF UsageInv, UsageTypes
  <2>3. CASE UNCHANGED allVars
    BY <2>0, <2>3 DEF allVars, custodyVars, governanceVars
  <2> QED
    BY <2>1, <2>2, <2>3 DEF CustodyNext
<1> QED
  BY <1>1, <1>2, BooksInvariant, PTL DEF CustodySpec

(* Under one setting of the limit an address takes out at most twice the    *)
(* limit in any stretch as long as the window: the fixed windows of         *)
(* enforce_withdrawal_limit let a stretch meet two of them and no third,    *)
(* whatever limits and windows the admin sets in between.                   *)
THEOREM WithdrawalsStayBounded == CustodySpec => []WithdrawalsBounded
<1>1. UsageInv => WithdrawalsBounded
  <2> SUFFICES ASSUME UsageInv, limit > 0, NEW a \in Addresses, NEW from \in Times
               PROVE  WithdrawnBetween(a, from, Min({from + windowSecs - 1, MaxTime}))
                        <= 2 * limit
    BY DEF WithdrawalsBounded
  <2> DEFINE end == Min({from + windowSecs - 1, MaxTime})
  <2>0. windowSecs \in Nat /\ limit \in Nat /\ from \in Nat /\ from <= MaxTime
        /\ MaxTime \in Nat
    BY RegistryAssumption DEF UsageInv, UsageTypes, Times
  <2>1. end = IF from + windowSecs - 1 <= MaxTime THEN from + windowSecs - 1 ELSE MaxTime
    <3> DEFINE x == from + windowSecs - 1
    <3>1. x \in Int
      BY <2>0
    <3> HIDE DEF x
    <3>2. Min({x, MaxTime}) = IF x <= MaxTime THEN x ELSE MaxTime
      <4> DEFINE m == IF x <= MaxTime THEN x ELSE MaxTime
      <4>1. m \in {x, MaxTime} /\ \A y \in {x, MaxTime} : m <= y
        BY <2>0, <3>1
      <4>2. \A z \in {x, MaxTime} : (\A y \in {x, MaxTime} : z <= y) => z = m
        BY <2>0, <3>1
      <4> HIDE DEF m
      <4>3. Min({x, MaxTime}) = m
        BY <4>1, <4>2 DEF Min
      <4> QED
        BY <4>3 DEF m
    <3> QED
      BY <3>2 DEF x
  <2> HIDE DEF end
  <2>2. from .. end = Stretch(from, windowSecs)
    BY <2>0, <2>1 DEF Stretch, Times
  <2>3. WithdrawnBetween(a, from, end) = SumOver(withdrawn[a], Stretch(from, windowSecs))
    BY <2>2 DEF WithdrawnBetween
  <2>4. CASE windowSecs = 0
    <3>1. Stretch(from, windowSecs) = {}
      BY <2>0, <2>4 DEF Stretch, Times
    <3> QED
      BY <2>0, <2>3, <3>1, SumEmpty DEF end
  <2>5. CASE windowSecs > 0
    <3>1. Bounded(withdrawn[a], windowStart[a], usedInWindow[a], limit, windowSecs)
      BY <2>5 DEF UsageInv
    <3> QED
      BY <2>3, <3>1 DEF Bounded, end
  <2> QED
    BY <2>0, <2>4, <2>5
<1> QED
  BY <1>1, UsageInvariant, PTL
=============================================================================
