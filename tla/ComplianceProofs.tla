-------------------------- MODULE ComplianceProofs --------------------------
(***************************************************************************)
(* Proofs about the compliance contract, for any number of addresses,      *)
(* accounts, operators and instants. Every address call replaces the       *)
(* records of some addresses by one of six forms of their old ones; the    *)
(* theorems are read off from that.                                        *)
(***************************************************************************)
EXTENDS Compliance, AggregateProofs

(* The forms a call of c may give the record e.                             *)
Form(c, e, new) ==
  \/ new = e
  \/ /\ require_admin(c)
     /\ \/ new = Allowing(e)
        \/ \E t \in Expiries : new = AllowingUntil(e, t)
        \/ new = Swept(e)
  \/ require_admin_or_operator(c) /\ new = Blocking(e, c)
  \/ /\ require_admin_or_operator(c)
     /\ \E t \in Expiries : new = BlockingUntil(e, c, t)
  \/ /\ require_admin(c) \/ e.blocked
     /\ new = Cleared(e)
  \/ require_admin_or_operator(c) /\ new = Swept(e)

(* A call only ever gives a record one of these forms.                      *)
LEMMA CallForm ==
  ASSUME entries \in [Addresses -> Entry], admin \in Accounts,
         NEW c \in Accounts, Call(c), NEW a \in Addresses
  PROVE  Form(c, entries[a], entries'[a])
<1>1. CASE RoleCall(c)
  BY <1>1 DEF RoleCall, pause, unpause, transfer_admin, cancel_admin_transfer,
     accept_admin, set_operator, add_operator, remove_operator, addressVars, Form
<1>2. ASSUME NEW x \in Addresses, allow_address(c, x)
      PROVE  Form(c, entries[a], entries'[a])
  BY <1>2 DEF allow_address, write, Form
<1>3. ASSUME NEW x \in Addresses, NEW t \in Expiries, allow_address_until(c, x, t)
      PROVE  Form(c, entries[a], entries'[a])
  BY <1>3 DEF allow_address_until, write, Form
<1>4. ASSUME NEW as \in Batches, bulk_allow_addresses(c, as)
      PROVE  Form(c, entries[a], entries'[a])
  BY <1>4 DEF bulk_allow_addresses, write, Form
<1>5. ASSUME NEW x \in Addresses, revoke_allow(c, x)
      PROVE  Form(c, entries[a], entries'[a])
  BY <1>5 DEF revoke_allow, write, Form, Swept
<1>6. ASSUME NEW x \in Addresses, block_address(c, x)
      PROVE  Form(c, entries[a], entries'[a])
  BY <1>6 DEF block_address, write, Form
<1>7. ASSUME NEW x \in Addresses, NEW t \in Expiries, block_address_until(c, x, t)
      PROVE  Form(c, entries[a], entries'[a])
  BY <1>7 DEF block_address_until, write, Form
<1>8. ASSUME NEW as \in Batches, bulk_block_addresses(c, as)
      PROVE  Form(c, entries[a], entries'[a])
  BY <1>8 DEF bulk_block_addresses, write, Form, require_admin,
     require_admin_or_operator
<1>9. ASSUME NEW x \in Addresses, clear_address(c, x)
      PROVE  Form(c, entries[a], entries'[a])
  <2>1. CASE a \in ToSet(<<x>>)
    <3>1. a = x
      BY <2>1 DEF ToSet
    <3>2. require_admin(c) \/ entries[x].blocked
      BY <1>9, ComplianceAssumption DEF clear_address, require_admin,
         require_operator_placed_block, block_placer, NoAccount
    <3> QED BY <1>9, <2>1, <3>1, <3>2 DEF clear_address, write, Form
  <2>2. CASE a \notin ToSet(<<x>>)
    BY <1>9, <2>2 DEF clear_address, write, Form
  <2> QED BY <2>1, <2>2
<1>10. ASSUME NEW limit \in 0 .. 1, sweep_expired(c, limit)
       PROVE  Form(c, entries[a], entries'[a])
  BY <1>10 DEF sweep_expired, Form
<1> QED
  BY <1>1, <1>2, <1>3, <1>4, <1>5, <1>6, <1>7, <1>8, <1>9, <1>10
  DEF Call, AddressCall, allow_address_with_tier

(* The inductive invariant: who placed a block is an account, so no block   *)
(* can be taken for one without a placer.                                   *)
Paired(e) ==
  IF e.blocked THEN e.blocked_by # NoAccount
               ELSE e.blocked_by = NoAccount /\ e.blocked_until = NoTime

RecordInv ==
  /\ entries \in [Addresses -> Entry]
  /\ admin \in Accounts
  /\ BlockRecordsPaired

(* Every form keeps a record typed and its block fields paired.             *)
LEMMA FormKeepsRecord ==
  ASSUME NEW c \in Accounts, NEW e \in Entry, Paired(e), NEW new, Form(c, e, new)
  PROVE  new \in Entry /\ Paired(new)
<1>0. /\ \A t \in Expiries : t \in Moments
      /\ NoTime \in Moments /\ NoAccount \in Roles /\ c \in Roles
      /\ c # NoAccount
  BY ComplianceAssumption DEF Moments, Roles, NoAccount
<1>1. CASE new = e
  BY <1>1
<1>2. CASE new = Allowing(e)
  BY <1>0, <1>2 DEF Allowing, Entry, Paired
<1>3. ASSUME NEW t \in Expiries, new = AllowingUntil(e, t)
      PROVE  new \in Entry /\ Paired(new)
  BY <1>0, <1>3 DEF AllowingUntil, Entry, Paired
<1>4. CASE new = Swept(e)
  BY <1>0, <1>4 DEF Swept, Entry, Paired
<1>5. CASE new = Blocking(e, c)
  BY <1>0, <1>5 DEF Blocking, Entry, Paired
<1>6. ASSUME NEW t \in Expiries, new = BlockingUntil(e, c, t)
      PROVE  new \in Entry /\ Paired(new)
  BY <1>0, <1>6 DEF BlockingUntil, Blocking, Entry, Paired
<1>7. CASE new = Cleared(e)
  BY <1>0, <1>7 DEF Cleared, NoEntry, Entry, Paired
<1> QED BY <1>1, <1>2, <1>3, <1>4, <1>5, <1>6, <1>7 DEF Form

(* A call writes entries as a function on the addresses, and hands the      *)
(* admin role to an account only.                                           *)
LEMMA CallDomain ==
  ASSUME RecordInv, NEW c \in Accounts, Call(c)
  PROVE  entries' = [a \in Addresses |-> entries'[a]] /\ admin' \in Accounts
<1>0. entries = [a \in Addresses |-> entries[a]]
  BY DEF RecordInv
<1>1. CASE RoleCall(c)
  BY <1>0, <1>1 DEF RecordInv, RoleCall, pause, unpause, transfer_admin,
     cancel_admin_transfer, accept_admin, set_operator, add_operator,
     remove_operator, addressVars, roleVars
<1>2. CASE AddressCall(c)
  <2>1. UNCHANGED admin
    BY <1>2 DEF AddressCall, allow_address_with_tier, allow_address,
       allow_address_until, bulk_allow_addresses, revoke_allow, block_address,
       block_address_until, bulk_block_addresses, clear_address, sweep_expired,
       roleVars
  <2>2. ASSUME NEW as, NEW new, write(as, new)
        PROVE  entries' = [a \in Addresses |-> entries'[a]]
    BY <2>2 DEF write
  <2>3. ASSUME NEW limit \in 0 .. 1, sweep_expired(c, limit)
        PROVE  entries' = [a \in Addresses |-> entries'[a]]
    BY <2>3 DEF sweep_expired
  <2>4. entries' = [a \in Addresses |-> entries'[a]]
    BY <1>2, <2>2, <2>3 DEF AddressCall, allow_address_with_tier, allow_address,
       allow_address_until, bulk_allow_addresses, revoke_allow, block_address,
       block_address_until, bulk_block_addresses, clear_address
  <2> QED BY <2>1, <2>4 DEF RecordInv
<1> QED BY <1>1, <1>2 DEF Call

(* RecordInv holds in every reachable state.                                *)
LEMMA RecordInvariant == Spec => []RecordInv
<1>1. Init => RecordInv
  <2> SUFFICES ASSUME Init PROVE RecordInv
    OBVIOUS
  <2>1. NoEntry \in Entry
    BY DEF NoEntry, Entry, Moments, Roles
  <2> QED BY <2>1, ComplianceAssumption DEF Init, RecordInv, BlockRecordsPaired,
             NoEntry
<1>2. RecordInv /\ [Next]_vars => RecordInv'
  <2> SUFFICES ASSUME RecordInv, [Next]_vars PROVE RecordInv'
    OBVIOUS
  <2>1. CASE UNCHANGED <<entries, admin>>
    BY <2>1 DEF RecordInv, BlockRecordsPaired
  <2>2. ASSUME NEW c \in Accounts, Call(c) PROVE RecordInv'
    <3>1. \A a \in Addresses : entries'[a] \in Entry /\ Paired(entries'[a])
      <4> TAKE a \in Addresses
      <4>1. entries[a] \in Entry /\ Paired(entries[a])
        BY DEF RecordInv, BlockRecordsPaired, Paired
      <4>2. Form(c, entries[a], entries'[a])
        BY <2>2, CallForm DEF RecordInv
      <4> QED BY <4>1, <4>2, FormKeepsRecord
    <3>2. entries' = [a \in Addresses |-> entries'[a]] /\ admin' \in Accounts
      BY <2>2, CallDomain
    <3>3. entries' \in [Addresses -> Entry]
      BY <3>1, <3>2
    <3>4. BlockRecordsPaired'
      BY <3>1 DEF BlockRecordsPaired, Paired
    <3> QED BY <3>2, <3>3, <3>4 DEF RecordInv
  <2>3. CASE Tick
    BY <2>1, <2>3 DEF Tick, addressVars, roleVars
  <2>4. CASE UNCHANGED vars
    BY <2>1, <2>4 DEF vars, addressVars, roleVars
  <2> QED BY <2>2, <2>3, <2>4 DEF Next
<1> QED BY <1>1, <1>2, PTL DEF Spec

(* The placer and the expiry of a block live exactly as long as the block.  *)
THEOREM BlockRecordsArePaired == Spec => []BlockRecordsPaired
<1>1. RecordInv => BlockRecordsPaired
  BY DEF RecordInv
<1> QED BY <1>1, RecordInvariant, PTL

(***************************************************************************)
(* The paged index. Slot i of it is on page i \div PageSize.               *)
(***************************************************************************)
PageSize == ADDR_INDEX_PAGE_SIZE

SlotAt(pages, i) == pages[(i \div PageSize) + 1][(i % PageSize) + 1]

IndexType == [pages : Seq(Seq(Addresses)), count : Nat, tracked : SUBSET Addresses]

(* All pages but the last are full, the last holds the rest, and the slots  *)
(* hold the tracked addresses, each once.                                   *)
PagesFilled(pages, count) ==
  /\ count <= Len(pages) * PageSize
  /\ Len(pages) * PageSize < count + PageSize
  /\ \A p \in 1 .. Len(pages) :
       Len(pages[p]) = IF p * PageSize <= count THEN PageSize ELSE count - (p - 1) * PageSize

SlotsHold(pages, count, S) ==
  /\ \A i, j \in 0 .. count - 1 : SlotAt(pages, i) = SlotAt(pages, j) => i = j
  /\ \A i \in 0 .. count - 1 : SlotAt(pages, i) \in S
  /\ \A a \in S : \E i \in 0 .. count - 1 : SlotAt(pages, i) = a

SoundIndexes == {idx \in IndexType : /\ PagesFilled(idx.pages, idx.count)
                                     /\ SlotsHold(idx.pages, idx.count, idx.tracked)}

(* Page and slot of a position, and back.                                   *)
LEMMA DivisionFacts ==
  ASSUME NEW n \in Nat, NEW k \in Nat \ {0}
  PROVE  n \div k \in Nat /\ n % k \in Nat /\ n % k < k /\ n = (n \div k) * k + (n % k)
OBVIOUS

(* The quotient and the rest are the only ones.                             *)
LEMMA DivisionUnique ==
  ASSUME NEW q \in Nat, NEW r \in Nat, NEW k \in Nat \ {0}, r < k
  PROVE  (q * k + r) \div k = q /\ (q * k + r) % k = r
OBVIOUS

(* Multiples of the page size are ordered as their factors are.             *)
LEMMA TimesOrder ==
  ASSUME NEW a \in Int, NEW b \in Int, NEW k \in Nat \ {0}
  PROVE  (a * k < b * k <=> a < b) /\ (a * k <= b * k <=> a <= b)
         /\ (a + 1) * k = a * k + k /\ (a - 1) * k = a * k - k
OBVIOUS

(* A page holds at least one address.                                       *)
LEMMA PageSizeType == PageSize \in Nat \ {0}
BY ComplianceAssumption DEF PageSize

(* The page the next address goes to is the last one unless that is full.   *)
LEMMA LastPage ==
  ASSUME NEW c \in Nat, NEW len \in Nat, NEW k \in Nat \ {0},
         len * k < c + k, c <= len * k
  PROVE  len = (c \div k) + (IF c % k = 0 THEN 0 ELSE 1)
<1>1. PICK q \in Nat, r \in Nat : q = c \div k /\ r = c % k
  BY DivisionFacts
<1>2. len * k < q * k + r + k /\ q * k + r <= len * k /\ r < k
  BY <1>1, DivisionFacts
<1>3. (q + 1) * k = q * k + k /\ (q + 2) * k = q * k + k + k
  OBVIOUS
<1>4. len < q + 2
  BY <1>2, <1>3
<1>5. q <= len /\ (r > 0 => q < len) /\ (r = 0 => len < q + 1)
  BY <1>2, <1>3
<1> QED
  BY <1>1, <1>4, <1>5

(* Each position below the count has its slot.                              *)
LEMMA SlotExists ==
  ASSUME NEW pages \in Seq(Seq(Addresses)), NEW count \in Nat, PagesFilled(pages, count),
         NEW i \in 0 .. count - 1
  PROVE  /\ (i \div PageSize) + 1 \in 1 .. Len(pages)
         /\ (i % PageSize) + 1 \in 1 .. Len(pages[(i \div PageSize) + 1])
         /\ SlotAt(pages, i) \in Addresses
<1>0. PageSize \in Nat \ {0} /\ Len(pages) \in Nat /\ i \in Nat
  BY PageSizeType
<1>1. PICK q \in Nat, r \in Nat : /\ q = i \div PageSize /\ r = i % PageSize
                                  /\ r < PageSize /\ i = q * PageSize + r
  BY <1>0, DivisionFacts
<1>2. q < Len(pages)
  <2>1. count <= Len(pages) * PageSize
    BY DEF PagesFilled
  <2>2. q * PageSize < Len(pages) * PageSize
    <3>1. q * PageSize \in Int /\ Len(pages) * PageSize \in Int /\ i < count
      BY <1>0
    <3> QED
      BY <1>1, <2>1, <3>1
  <2>3. PICK len \in Nat : len = Len(pages)
    BY <1>0
  <2>4. q * PageSize < len * PageSize
    BY <2>2, <2>3
  <2>5. q < len
    BY <1>0, <2>4, TimesOrder
  <2> QED
    BY <2>3, <2>5
<1>3. q + 1 \in 1 .. Len(pages)
  BY <1>0, <1>2
<1>4. pages[q + 1] \in Seq(Addresses)
  BY <1>3, ElementOfSeq
<1>5. r + 1 \in 1 .. Len(pages[q + 1])
  <2>1. Len(pages[q + 1]) = IF (q + 1) * PageSize <= count THEN PageSize
                            ELSE count - ((q + 1) - 1) * PageSize
    BY <1>3 DEF PagesFilled
  <2>2. ((q + 1) - 1) * PageSize = q * PageSize /\ q * PageSize \in Nat
    BY <1>0
  <2> QED
    BY <1>0, <1>1, <2>1, <2>2
<1>6. pages[q + 1][r + 1] \in Addresses
  BY <1>4, <1>5, ElementOfSeq
<1> QED
  BY <1>1, <1>3, <1>5, <1>6 DEF SlotAt

(* What one more address, in slot r of page q + 1, makes of filled pages.   *)
Extends(pages, new, a, q, r) ==
  /\ new \in Seq(Seq(Addresses))
  /\ Len(new) = q + 1
  /\ \A p \in 1 .. q : new[p] = pages[p]
  /\ Len(new[q + 1]) = r + 1
  /\ new[q + 1][r + 1] = a
  /\ r > 0 => \A j \in 1 .. r : new[q + 1][j] = pages[q + 1][j]

(* The pages track_address writes.                                          *)
NewPages(pages, count, a) ==
  LET p == (count \div ADDR_INDEX_PAGE_SIZE) + 1
      room == IF p > Len(pages) THEN Append(pages, << >>) ELSE pages
  IN  [room EXCEPT ![p] = Append(@, a)]

(* track_address adds a page when the last one is full, and otherwise a     *)
(* slot to the last page.                                                   *)
LEMMA TrackExtends ==
  ASSUME NEW pages \in Seq(Seq(Addresses)), NEW count \in Nat, PagesFilled(pages, count),
         NEW a \in Addresses
  PROVE  /\ Extends(pages, NewPages(pages, count, a), a, count \div PageSize, count % PageSize)
         /\ Len(pages) = (count \div PageSize) + (IF count % PageSize = 0 THEN 0 ELSE 1)
<1>0. PageSize \in Nat \ {0} /\ Len(pages) \in Nat
  BY PageSizeType
<1>1. PICK q \in Nat, r \in Nat : /\ q = count \div PageSize /\ r = count % PageSize
                                  /\ r < PageSize /\ count = q * PageSize + r
  BY <1>0, DivisionFacts
<1>2. Len(pages) = q + (IF r = 0 THEN 0 ELSE 1)
  BY <1>0, <1>1, LastPage DEF PagesFilled
<1> DEFINE room == IF q + 1 > Len(pages) THEN Append(pages, << >>) ELSE pages
           new == [room EXCEPT ![q + 1] = Append(@, a)]
<1>3. NewPages(pages, count, a) = new
  BY <1>1 DEF NewPages, PageSize
<1>4. /\ room \in Seq(Seq(Addresses)) /\ Len(room) = q + 1
      /\ \A p \in 1 .. q : room[p] = pages[p]
      /\ room[q + 1] \in Seq(Addresses) /\ Len(room[q + 1]) = r
      /\ r > 0 => room[q + 1] = pages[q + 1]
  <2>1. CASE r = 0
    <3>1. Len(pages) = q /\ room = Append(pages, << >>)
      BY <1>2, <2>1
    <3>2. << >> \in Seq(Addresses) /\ Len(<< >>) = 0
      OBVIOUS
    <3>3. /\ room \in Seq(Seq(Addresses)) /\ Len(room) = q + 1
          /\ \A p \in 1 .. q : room[p] = pages[p]
          /\ room[q + 1] = << >>
      BY <3>1, <3>2, AppendProperties
    <3> QED
      BY <2>1, <3>2, <3>3
  <2>2. CASE r # 0
    <3>1. Len(pages) = q + 1 /\ room = pages /\ q + 1 \in 1 .. Len(pages)
      BY <1>2, <2>2
    <3>2. pages[q + 1] \in Seq(Addresses)
      BY <3>1, ElementOfSeq
    <3>3. Len(pages[q + 1]) = r
      <4>1. Len(pages[q + 1]) = IF (q + 1) * PageSize <= count THEN PageSize
                                ELSE count - ((q + 1) - 1) * PageSize
        BY <3>1 DEF PagesFilled
      <4>2. (q + 1) * PageSize = q * PageSize + PageSize /\ q * PageSize \in Nat
        BY <1>0
      <4>3. ((q + 1) - 1) * PageSize = q * PageSize
        BY <1>0
      <4> QED
        BY <1>0, <1>1, <4>1, <4>2, <4>3
    <3> QED
      BY <3>1, <3>2, <3>3
  <2> QED
    BY <2>1, <2>2
<1> HIDE DEF room
<1> DEFINE last == Append(room[q + 1], a)
<1>5. /\ last \in Seq(Addresses) /\ Len(last) = r + 1 /\ last[r + 1] = a
      /\ \A j \in 1 .. r : last[j] = room[q + 1][j]
  BY <1>4, AppendProperties
<1>6. q + 1 \in 1 .. Len(room)
  BY <1>4
<1>7. new = [room EXCEPT ![q + 1] = last]
  OBVIOUS
<1> HIDE DEF last, new
<1>8. /\ new \in Seq(Seq(Addresses)) /\ Len(new) = q + 1
      /\ \A p \in 1 .. q + 1 : new[p] = IF p = q + 1 THEN last ELSE room[p]
  BY <1>4, <1>5, <1>6, <1>7, ExceptSeq
<1>9. Extends(pages, new, a, q, r)
  <2>1. new[q + 1] = last
    BY <1>8
  <2>2. \A p \in 1 .. q : new[p] = pages[p]
    BY <1>4, <1>8
  <2> QED
    BY <1>4, <1>5, <1>8, <2>1, <2>2 DEF Extends
<1> QED
  BY <1>1, <1>2, <1>3, <1>9

(* Pages so extended are filled with one address more.                      *)
LEMMA ExtendedIsFilled ==
  ASSUME NEW pages \in Seq(Seq(Addresses)), NEW count \in Nat, PagesFilled(pages, count),
         NEW a \in Addresses, NEW new,
         Extends(pages, new, a, count \div PageSize, count % PageSize),
         Len(pages) = (count \div PageSize) + (IF count % PageSize = 0 THEN 0 ELSE 1)
  PROVE  PagesFilled(new, count + 1)
<1>0. PageSize \in Nat \ {0}
  BY PageSizeType
<1>1. PICK q \in Nat, r \in Nat : /\ q = count \div PageSize /\ r = count % PageSize
                                  /\ r < PageSize /\ count = q * PageSize + r
  BY <1>0, DivisionFacts
<1>2. /\ q * PageSize \in Nat /\ (q + 1) * PageSize = q * PageSize + PageSize
      /\ ((q + 1) - 1) * PageSize = q * PageSize
  BY <1>0
<1>3. /\ Len(new) = q + 1 /\ Len(new[q + 1]) = r + 1
      /\ \A p \in 1 .. q : new[p] = pages[p]
  BY <1>1 DEF Extends
<1>4. ASSUME NEW p \in 1 .. q
      PROVE  Len(new[p]) = PageSize /\ p * PageSize <= count + 1
  <2>1. p * PageSize <= q * PageSize /\ p * PageSize \in Int
    BY <1>0, TimesOrder
  <2>2. p * PageSize <= count
    BY <1>1, <1>2, <2>1
  <2>3. Len(pages[p]) = PageSize
    <3>1. p \in 1 .. Len(pages)
      BY <1>1
    <3> QED
      BY <2>2, <3>1 DEF PagesFilled
  <2> QED
    BY <1>3, <2>1, <2>2, <2>3
<1>5. Len(new[q + 1]) = IF (q + 1) * PageSize <= count + 1 THEN PageSize
                        ELSE (count + 1) - ((q + 1) - 1) * PageSize
  <2> DEFINE qs == q * PageSize
  <2>1. /\ qs \in Nat /\ (q + 1) * PageSize = qs + PageSize
        /\ ((q + 1) - 1) * PageSize = qs /\ count = qs + r /\ r < PageSize
    BY <1>1, <1>2
  <2> HIDE DEF qs
  <2>2. CASE qs + PageSize <= count + 1
    BY <1>0, <1>3, <2>1, <2>2
  <2>3. CASE ~ (qs + PageSize <= count + 1)
    BY <1>0, <1>3, <2>1, <2>3
  <2> QED
    BY <2>1, <2>2, <2>3
<1>6. \A p \in 1 .. q + 1 :
        Len(new[p]) = IF p * PageSize <= count + 1 THEN PageSize
                      ELSE (count + 1) - (p - 1) * PageSize
  <2> TAKE p \in 1 .. q + 1
  <2>1. CASE p \in 1 .. q
    BY <1>4, <2>1
  <2>2. CASE p = q + 1
    BY <1>5, <2>2
  <2> QED
    BY <2>1, <2>2
<1>7. /\ count + 1 <= (q + 1) * PageSize
      /\ (q + 1) * PageSize < count + 1 + PageSize
  BY <1>0, <1>1, <1>2
<1> QED
  BY <1>3, <1>6, <1>7 DEF PagesFilled

(* The slots in use keep their addresses and the next one gets the new one. *)
LEMMA ExtendedSlots ==
  ASSUME NEW pages \in Seq(Seq(Addresses)), NEW count \in Nat, PagesFilled(pages, count),
         NEW a \in Addresses, NEW new,
         Extends(pages, new, a, count \div PageSize, count % PageSize),
         Len(pages) = (count \div PageSize) + (IF count % PageSize = 0 THEN 0 ELSE 1)
  PROVE  /\ \A i \in 0 .. count - 1 : SlotAt(new, i) = SlotAt(pages, i)
         /\ SlotAt(new, count) = a
<1>0. PageSize \in Nat \ {0}
  BY PageSizeType
<1>1. PICK q \in Nat, r \in Nat : q = count \div PageSize /\ r = count % PageSize
  BY <1>0, DivisionFacts
<1>2. SlotAt(new, count) = a
  BY <1>1 DEF Extends, SlotAt
<1>3. ASSUME NEW i \in 0 .. count - 1
      PROVE  SlotAt(new, i) = SlotAt(pages, i)
  <2>1. PICK p \in Nat, j \in Nat : p = (i \div PageSize) + 1 /\ j = (i % PageSize) + 1
    <3>1. i \in Nat
      OBVIOUS
    <3> QED
      <4>1. i \div PageSize \in Nat /\ i % PageSize \in Nat
        BY <1>0, <3>1, DivisionFacts
      <4> QED
        BY <4>1
  <2>2. p \in 1 .. Len(pages) /\ j \in 1 .. Len(pages[p])
    BY <2>1, SlotExists
  <2>3. SlotAt(new, i) = new[p][j] /\ SlotAt(pages, i) = pages[p][j]
    BY <2>1 DEF SlotAt
  <2>4. CASE p \in 1 .. q
    BY <1>1, <2>3, <2>4 DEF Extends
  <2>5. CASE p \notin 1 .. q
    <3>1. r > 0 /\ p = q + 1
      BY <1>1, <2>2, <2>5
    <3>2. Len(pages[q + 1]) = r
      <4>1. q + 1 \in 1 .. Len(pages)
        BY <2>2, <3>1
      <4>2. Len(pages[q + 1]) = IF (q + 1) * PageSize <= count THEN PageSize
                                ELSE count - ((q + 1) - 1) * PageSize
        BY <4>1 DEF PagesFilled
      <4>3. (q + 1) * PageSize = q * PageSize + PageSize /\ q * PageSize \in Nat
        BY <1>0
      <4>4. ((q + 1) - 1) * PageSize = q * PageSize
        BY <1>0
      <4>5. r < PageSize /\ count = q * PageSize + r
        BY <1>0, <1>1, DivisionFacts
      <4> QED
        BY <1>0, <4>2, <4>3, <4>4, <4>5
    <3>3. \A k \in 1 .. r : new[q + 1][k] = pages[q + 1][k]
      BY <1>1, <3>1 DEF Extends
    <3> QED
      BY <2>2, <2>3, <3>1, <3>2, <3>3
  <2> QED
    BY <2>4, <2>5
<1> QED
  BY <1>2, <1>3

(* Tracking an address keeps the index in order and adds the address.       *)
LEMMA TrackIsSound ==
  ASSUME NEW idx \in SoundIndexes, NEW a \in Addresses
  PROVE  /\ track_address(idx, a) \in SoundIndexes
         /\ track_address(idx, a).tracked = idx.tracked \cup {a}
<1>1. CASE a \in idx.tracked
  BY <1>1 DEF track_address
<1>2. CASE a \notin idx.tracked
  <2> DEFINE pages == idx.pages
             count == idx.count
             S == idx.tracked
             new == NewPages(pages, count, a)
             T == S \cup {a}
  <2>1. /\ pages \in Seq(Seq(Addresses)) /\ count \in Nat /\ S \in SUBSET Addresses
        /\ PagesFilled(pages, count) /\ SlotsHold(pages, count, S)
    BY DEF SoundIndexes, IndexType
  <2>2. track_address(idx, a) = [pages |-> new, count |-> count + 1, tracked |-> T]
    BY <1>2 DEF track_address, NewPages
  <2> HIDE DEF pages, count, S, new
  <2>3. /\ Extends(pages, new, a, count \div PageSize, count % PageSize)
        /\ Len(pages) = (count \div PageSize) + (IF count % PageSize = 0 THEN 0 ELSE 1)
    BY <2>1, TrackExtends DEF new
  <2>4. PagesFilled(new, count + 1)
    BY <2>1, <2>3, ExtendedIsFilled
  <2>5. /\ \A i \in 0 .. count - 1 : SlotAt(new, i) = SlotAt(pages, i)
        /\ SlotAt(new, count) = a
    BY <2>1, <2>3, ExtendedSlots
  <2>6. new \in Seq(Seq(Addresses))
    BY <2>3 DEF Extends
  <2>7. a \notin S
    BY <1>2 DEF S
  <2>8. SlotsHold(new, count + 1, T)
    <3>0. 0 .. (count + 1) - 1 = (0 .. count - 1) \cup {count}
      BY <2>1
    <3>1. \A i \in 0 .. count - 1 : SlotAt(new, i) \in S
      BY <2>1, <2>5 DEF SlotsHold
    <3>2. \A i \in 0 .. (count + 1) - 1 : SlotAt(new, i) \in T
      BY <2>5, <3>0, <3>1
    <3>3. \A x \in T : \E i \in 0 .. (count + 1) - 1 : SlotAt(new, i) = x
      BY <2>1, <2>5, <3>0 DEF SlotsHold
    <3>4. \A i, j \in 0 .. (count + 1) - 1 : SlotAt(new, i) = SlotAt(new, j) => i = j
      <4> TAKE i, j \in 0 .. (count + 1) - 1
      <4>1. CASE i \in 0 .. count - 1 /\ j \in 0 .. count - 1
        BY <2>1, <2>5, <4>1 DEF SlotsHold
      <4>2. CASE i = count \/ j = count
        BY <2>5, <2>7, <3>0, <3>1, <4>2
      <4> QED
        BY <3>0, <4>1, <4>2
    <3> QED
      BY <3>2, <3>3, <3>4 DEF SlotsHold
  <2>9. T \in SUBSET Addresses /\ count + 1 \in Nat
    BY <2>1
  <2> HIDE DEF T
  <2>10. [pages |-> new, count |-> count + 1, tracked |-> T] \in SoundIndexes
    BY <2>4, <2>6, <2>8, <2>9 DEF SoundIndexes, IndexType
  <2> QED
    BY <2>2, <2>10 DEF T, S
<1> QED
  BY <1>1, <1>2

(* h[k] is the index after the first k addresses of the list.               *)
TrackSteps(list, base, h) ==
  /\ h[0] = base
  /\ \A k \in 1 .. Len(list) : h[k] = track_address(h[k - 1], list[k])

(* Tracking a list of addresses, one after the other.                       *)
LEMMA TrackLoop ==
  ASSUME NEW base \in SoundIndexes, NEW list \in Seq(Addresses)
  PROVE  \E h \in [0 .. Len(list) -> SoundIndexes] :
           TrackSteps(list, base, h) /\ FoldLeft(track_address, base, list) = h[Len(list)]
<1> DEFINE n == Len(list)
           V == SoundIndexes
           Round(F, B) == IF B = {} THEN base
                          ELSE track_address(F[B \ {Max(B)}], list[Max(B)])
           step == [p \in (1 .. n) \X V |-> track_address(p[2], list[p[1]])]
           g == CHOOSE F : F = [B \in SUBSET (1 .. n) |-> Round(F, B)]
<1>1. n \in Nat /\ DOMAIN list = 1 .. n /\ \A k \in 1 .. n : list[k] \in Addresses
  BY LenProperties
<1>2. FoldLeft(track_address, base, list) = g[1 .. n]
  <2>1. FoldLeft(track_address, base, list)
          = (CHOOSE F : F = [B \in SUBSET (DOMAIN list) |-> Round(F, B)])[DOMAIN list]
    BY DEF FoldLeft, MapThenFoldSet
  <2> QED
    BY <1>1, <2>1
<1>3. g = [B \in SUBSET (1 .. n) |-> Round(g, B)]
  <2>1. step \in [(1 .. n) \X V -> V]
    BY <1>1, TrackIsSound
  <2>2. PICK F \in [SUBSET (1 .. n) -> V] : IsLoop(n, step, base, F)
    <3> HIDE DEF step, n
    <3> QED
      BY <1>1, <2>1, LoopExists
  <2>3. ASSUME NEW B \in SUBSET (1 .. n)
        PROVE  LoopStep(step, base, F, B) = Round(F, B)
    <3>1. CASE B = {}
      BY <3>1 DEF LoopStep
    <3>2. CASE B # {}
      <4>1. Max(B) \in 1 .. n
        BY <1>1, <3>2, MaxIsIn
      <4>2. F[B \ {Max(B)}] \in V
        OBVIOUS
      <4> HIDE DEF V, n
      <4>3. step[<<Max(B), F[B \ {Max(B)}]>>]
              = track_address(F[B \ {Max(B)}], list[Max(B)])
        BY <4>1, <4>2
      <4> HIDE DEF step
      <4> QED
        BY <3>2, <4>3 DEF LoopStep
    <3> QED
      BY <3>1, <3>2
  <2>4. F = [B \in SUBSET (1 .. n) |-> Round(F, B)]
    <3> DEFINE H == [B \in SUBSET (1 .. n) |-> Round(F, B)]
    <3>1. \A B \in SUBSET (1 .. n) : F[B] = LoopStep(step, base, F, B) /\ H[B] = Round(F, B)
      <4> HIDE DEF Round, step, n
      <4> QED
        BY <2>2 DEF IsLoop
    <3>2. DOMAIN F = SUBSET (1 .. n) /\ DOMAIN H = SUBSET (1 .. n)
          /\ F = [B \in DOMAIN F |-> F[B]] /\ H = [B \in DOMAIN H |-> H[B]]
      <4> HIDE DEF Round, step, n
      <4> QED
        BY <2>2
    <3> HIDE DEF Round, step, n, H
    <3>3. F = H
      BY <2>3, <3>1, <3>2
    <3> QED
      BY <3>3 DEF H
  <2> HIDE DEF Round, n
  <2> QED
    BY <2>4
<1> HIDE DEF g
<1> DEFINE h == [k \in 0 .. n |-> g[1 .. k]]
<1>h. \A k \in 0 .. n : h[k] = g[1 .. k]
  OBVIOUS
<1> HIDE DEF h
<1>n. 0 \in 0 .. n /\ n \in 0 .. n
  <2> HIDE DEF n
  <2>1. n \in Nat
    BY <1>1
  <2> QED
    BY <2>1
<1>4. h[0] = base
  <2>1. {} \in SUBSET (1 .. n) /\ 1 .. 0 = {} /\ 0 \in 0 .. n
    BY <1>n
  <2>2. g[{}] = base
    BY <1>3, <2>1
  <2> QED
    BY <1>h, <2>1, <2>2
<1>5. ASSUME NEW k \in 1 .. n
      PROVE  h[k] = track_address(h[k - 1], list[k])
  <2>1. /\ 1 .. k \in SUBSET (1 .. n) /\ 1 .. k # {} /\ (1 .. k) \ {k} = 1 .. k - 1
        /\ k \in 1 .. k /\ k \in Nat /\ k \in 0 .. n /\ k - 1 \in 0 .. n
    <3> HIDE DEF n
    <3> QED
      BY <1>1, UpTo
  <2>2. Max(1 .. k) = k
    BY <2>1, MaxIsLast
  <2>3. g[1 .. k] = Round(g, 1 .. k)
    <3> HIDE DEF Round, n
    <3> QED
      BY <1>3, <2>1
  <2>4. Round(g, 1 .. k) = track_address(g[1 .. k - 1], list[k])
    <3> HIDE DEF n
    <3> QED
      BY <2>1, <2>2
  <2> HIDE DEF Round, n
  <2> QED
    BY <1>h, <2>1, <2>3, <2>4
<1>6. h \in [0 .. n -> V]
  <2> DEFINE Good == {k \in 0 .. n : h[k] \in V}
  <2> HIDE DEF n, V
  <2>0. base \in V /\ \A k \in 1 .. n : h[k - 1] \in V => h[k] \in V
    BY <1>1, <1>5, TrackIsSound DEF V
  <2>1. 0 \in Good
    BY <1>1, <1>4, <2>0
  <2>2. ASSUME NEW k \in 1 .. n, k - 1 \in Good PROVE k \in Good
    BY <1>1, <2>0, <2>2
  <2>3. ASSUME NEW k \in 0 .. n PROVE h[k] \in V
    <3>1. k \in Nat /\ \A j \in 1 .. k : j \in 1 .. n
      BY <1>1
    <3>2. k \in Good
      <4> HIDE DEF Good
      <4> QED
        BY <2>1, <2>2, <3>1, CountUp
    <3> QED
      BY <3>2
  <2> QED
    BY <2>3 DEF h
<1>7. FoldLeft(track_address, base, list) = h[n]
  <2> HIDE DEF n
  <2> QED
    BY <1>h, <1>n, <1>2
<1> QED
  BY <1>4, <1>5, <1>6, <1>7 DEF TrackSteps

(* Tracking a list keeps the index in order and adds the listed addresses.  *)
LEMMA TrackAll ==
  ASSUME NEW base \in SoundIndexes, NEW list \in Seq(Addresses)
  PROVE  /\ FoldLeft(track_address, base, list) \in SoundIndexes
         /\ FoldLeft(track_address, base, list).tracked = base.tracked \cup ToSet(list)
<1> DEFINE n == Len(list)
<1>1. n \in Nat /\ DOMAIN list = 1 .. n /\ \A k \in 1 .. n : list[k] \in Addresses
  BY LenProperties
<1>2. PICK h \in [0 .. n -> SoundIndexes] :
        TrackSteps(list, base, h) /\ FoldLeft(track_address, base, list) = h[n]
  BY TrackLoop
<1> HIDE DEF n
<1> DEFINE Good == {k \in 0 .. n : h[k].tracked = base.tracked \cup {list[j] : j \in 1 .. k}}
<1>3. 0 \in Good
  <2>1. 1 .. 0 = {} /\ 0 \in 0 .. n /\ h[0] = base
    BY <1>1, <1>2 DEF TrackSteps
  <2>2. {list[j] : j \in 1 .. 0} = {}
    BY <2>1
  <2> QED
    BY <2>1, <2>2
<1>4. ASSUME NEW k \in 1 .. n, k - 1 \in Good PROVE k \in Good
  <2>1. k \in 0 .. n /\ k - 1 \in 0 .. n /\ 1 .. k = (1 .. k - 1) \cup {k}
    BY <1>1
  <2>2. h[k] = track_address(h[k - 1], list[k])
    BY <1>2 DEF TrackSteps, n
  <2>3. h[k].tracked = h[k - 1].tracked \cup {list[k]}
    BY <1>1, <1>2, <2>1, <2>2, TrackIsSound
  <2>4. {list[j] : j \in 1 .. k} = {list[j] : j \in 1 .. k - 1} \cup {list[k]}
    BY <2>1
  <2>5. h[k - 1].tracked = base.tracked \cup {list[j] : j \in 1 .. k - 1}
    BY <1>4
  <2> QED
    BY <2>1, <2>3, <2>4, <2>5
<1>5. n \in Good
  <2> HIDE DEF Good
  <2> QED
    BY <1>1, <1>3, <1>4, CountUp
<1>6. {list[j] : j \in 1 .. n} = ToSet(list)
  BY <1>1 DEF ToSet
<1>7. n \in 0 .. n
  BY <1>1
<1> QED
  BY <1>2, <1>5, <1>6, <1>7

(* The slots in order.                                                      *)
Slots(pages, count) == [i \in 1 .. count |-> SlotAt(pages, i - 1)]

(* How many slots the first p pages hold.                                   *)
SlotsTo(count, p) == IF p * PageSize <= count THEN p * PageSize ELSE count

(* Where a page begins, and what it adds to the slots before it.            *)
LEMMA PageBounds ==
  ASSUME NEW pages \in Seq(Seq(Addresses)), NEW count \in Nat, PagesFilled(pages, count),
         NEW p \in 1 .. Len(pages)
  PROVE  /\ SlotsTo(count, p) \in Nat /\ SlotsTo(count, p) <= count
         /\ pages[p] \in Seq(Addresses) /\ Len(pages[p]) \in Nat /\ Len(pages[p]) <= PageSize
         /\ SlotsTo(count, p) = (p - 1) * PageSize + Len(pages[p])
         /\ (p - 1) * PageSize \in Nat
         /\ p > 1 => SlotsTo(count, p - 1) = (p - 1) * PageSize
         /\ p = Len(pages) => SlotsTo(count, p) = count
<1>0. PageSize \in Nat \ {0}
  BY PageSizeType
<1>1. PICK len \in Nat : len = Len(pages)
  OBVIOUS
<1>2. p \in Nat /\ p >= 1 /\ p <= len
  BY <1>1
<1>3. pages[p] \in Seq(Addresses) /\ Len(pages[p]) \in Nat
  BY ElementOfSeq
<1>4. Len(pages[p]) = IF p * PageSize <= count THEN PageSize ELSE count - (p - 1) * PageSize
  BY DEF PagesFilled
<1>5. /\ count <= len * PageSize /\ len * PageSize < count + PageSize
  BY <1>1 DEF PagesFilled
<1>6. /\ p * PageSize \in Nat /\ len * PageSize \in Nat
      /\ (p - 1) * PageSize = p * PageSize - PageSize
      /\ p * PageSize <= len * PageSize
      /\ (p - 1) * PageSize \in Nat
  <2>1. p - 1 \in Nat
    BY <1>2
  <2>2. p * PageSize \in Nat /\ len * PageSize \in Nat /\ (p - 1) * PageSize \in Nat
    BY <1>0, <1>2, <2>1
  <2>3. (p - 1) * PageSize = p * PageSize - PageSize
    BY <1>0, <1>2, TimesOrder
  <2>4. p * PageSize <= len * PageSize
    BY <1>0, <1>2, TimesOrder
  <2> QED
    BY <2>2, <2>3, <2>4
<1> DEFINE pp == p * PageSize
           before == (p - 1) * PageSize
           all == len * PageSize
<1>7. /\ pp \in Nat /\ all \in Nat /\ before \in Nat /\ before = pp - PageSize /\ pp <= all
      /\ count <= all /\ all < count + PageSize
  BY <1>5, <1>6
<1>8. before < count
  <2> HIDE DEF pp, before, all
  <2> QED
    BY <1>0, <1>7
<1>9. SlotsTo(count, p) = IF pp <= count THEN pp ELSE count
  BY DEF SlotsTo
<1>10. SlotsTo(count, p - 1) = before
  <2>1. SlotsTo(count, p - 1) = IF before <= count THEN before ELSE count
    BY DEF SlotsTo
  <2> HIDE DEF before, pp, all
  <2> QED
    BY <1>7, <1>8, <2>1
<1>11. Len(pages[p]) = IF pp <= count THEN PageSize ELSE count - before
  BY <1>4
<1>12. p = Len(pages) => pp = all
  BY <1>1
<1> HIDE DEF pp, before, all
<1>13. /\ SlotsTo(count, p) \in Nat /\ SlotsTo(count, p) <= count
       /\ SlotsTo(count, p) = before + Len(pages[p]) /\ Len(pages[p]) <= PageSize
  <2>1. CASE pp <= count
    BY <1>0, <1>7, <1>9, <1>11, <2>1
  <2>2. CASE ~ (pp <= count)
    BY <1>0, <1>7, <1>8, <1>9, <1>11, <2>2
  <2> QED
    BY <2>1, <2>2
<1>14. p = Len(pages) => SlotsTo(count, p) = count
  BY <1>7, <1>9, <1>12
<1> QED
  BY <1>3, <1>7, <1>10, <1>13, <1>14 DEF before

(* A slot of page p, found from its position.                               *)
LEMMA SlotOfPage ==
  ASSUME NEW pages, NEW p \in Nat \ {0}, NEW j \in Nat, j < PageSize
  PROVE  SlotAt(pages, (p - 1) * PageSize + j) = pages[p][j + 1]
<1>0. PageSize \in Nat \ {0} /\ p - 1 \in Nat
  BY PageSizeType
<1>1. /\ ((p - 1) * PageSize + j) \div PageSize = p - 1
      /\ ((p - 1) * PageSize + j) % PageSize = j
  BY <1>0, DivisionUnique
<1>2. (p - 1) + 1 = p
  OBVIOUS
<1> QED
  BY <1>1, <1>2 DEF SlotAt

(* The slots of the first p pages: those of the pages before, then page p.  *)
LEMMA NextPage ==
  ASSUME NEW pages \in Seq(Seq(Addresses)), NEW count \in Nat, PagesFilled(pages, count),
         NEW p \in 1 .. Len(pages)
  PROVE  /\ Slots(pages, SlotsTo(count, p)) \in Seq(Addresses)
         /\ p = 1 => Slots(pages, SlotsTo(count, p)) = pages[p]
         /\ p > 1 => Slots(pages, SlotsTo(count, p))
                       = Slots(pages, SlotsTo(count, p - 1)) \o pages[p]
<1>0. PageSize \in Nat \ {0} /\ p \in Nat \ {0}
  BY PageSizeType
<1> DEFINE m == SlotsTo(count, p)
           b == (p - 1) * PageSize
           page == pages[p]
<1>1. /\ m \in Nat /\ m <= count /\ b \in Nat
      /\ page \in Seq(Addresses) /\ Len(page) \in Nat /\ Len(page) <= PageSize
      /\ m = b + Len(page)
      /\ p > 1 => SlotsTo(count, p - 1) = b
  BY PageBounds
<1>2. \A j \in Nat : j < PageSize => SlotAt(pages, b + j) = page[j + 1]
  BY <1>0, SlotOfPage
<1>3. p = 1 => b = 0
  BY <1>0
<1> HIDE DEF m, b, page
<1>4. ASSUME NEW k \in Nat, k <= count
      PROVE  /\ Slots(pages, k) \in Seq(Addresses) /\ Len(Slots(pages, k)) = k
             /\ \A i \in 1 .. k : Slots(pages, k)[i] = SlotAt(pages, i - 1)
  <2>1. \A i \in 1 .. k : SlotAt(pages, i - 1) \in Addresses
    <3> TAKE i \in 1 .. k
    <3>1. i - 1 \in 0 .. count - 1
      BY <1>4
    <3> QED
      BY <3>1, SlotExists
  <2> QED
    BY <1>4, <2>1 DEF Slots
<1>5. /\ Slots(pages, m) \in Seq(Addresses) /\ Len(Slots(pages, m)) = m
      /\ \A i \in 1 .. m : Slots(pages, m)[i] = SlotAt(pages, i - 1)
  BY <1>1, <1>4
<1>6. \A i \in 1 .. m : i > b => SlotAt(pages, i - 1) = page[i - b]
  <2> TAKE i \in 1 .. m
  <2>1. HAVE i > b
  <2>2. /\ (i - 1) - b \in Nat /\ (i - 1) - b < PageSize
        /\ b + ((i - 1) - b) = i - 1 /\ ((i - 1) - b) + 1 = i - b
    BY <1>0, <1>1, <2>1
  <2> QED
    BY <1>2, <2>2
<1>7. CASE p = 1
  <2>1. b = 0 /\ m = Len(page)
    BY <1>1, <1>3, <1>7
  <2>2. \A i \in 1 .. m : Slots(pages, m)[i] = page[i]
    BY <1>1, <1>5, <1>6, <2>1
  <2>3. Slots(pages, m) = page
    BY <1>1, <1>5, <2>1, <2>2, SeqEqual
  <2> QED
    BY <1>5, <1>7, <2>3 DEF m, page
<1>8. CASE p > 1
  <2>1. SlotsTo(count, p - 1) = b
    BY <1>1, <1>8
  <2>2. b <= count
    BY <1>1
  <2> DEFINE s == Slots(pages, b)
             t == s \o page
  <2>3. /\ s \in Seq(Addresses) /\ Len(s) = b
        /\ \A i \in 1 .. b : s[i] = SlotAt(pages, i - 1)
    BY <1>1, <1>4, <2>2
  <2> HIDE DEF s
  <2>4. /\ t \in Seq(Addresses) /\ Len(t) = m
        /\ \A i \in 1 .. m : t[i] = IF i <= b THEN s[i] ELSE page[i - b]
    BY <1>1, <2>3, ConcatProperties
  <2> HIDE DEF t
  <2>5. \A i \in 1 .. m : Slots(pages, m)[i] = t[i]
    <3> TAKE i \in 1 .. m
    <3>1. CASE i <= b
      BY <1>1, <1>5, <2>3, <2>4, <3>1
    <3>2. CASE i > b
      BY <1>1, <1>5, <1>6, <2>4, <3>2
    <3> QED
      BY <1>1, <3>1, <3>2
  <2>6. Slots(pages, m) = t
    BY <1>5, <2>4, <2>5, SeqEqual
  <2>7. Slots(pages, SlotsTo(count, p)) = Slots(pages, SlotsTo(count, p - 1)) \o pages[p]
    BY <2>1, <2>6 DEF m, page, s, t
  <2>8. p # 1
    BY <1>8
  <2> QED
    BY <1>5, <2>7, <2>8 DEF m
<1>9. p = 1 \/ p > 1
  BY <1>0
<1> QED
  BY <1>7, <1>8, <1>9

(* The pages put end to end are the slots in order.                         *)
LEMMA FlattenIsSlots ==
  ASSUME NEW pages \in Seq(Seq(Addresses)), NEW count \in Nat, PagesFilled(pages, count)
  PROVE  FlattenSeq(pages) = Slots(pages, count)
<1> DEFINE n == Len(pages)
<1>0. n \in Nat /\ PageSize \in Nat \ {0} /\ count <= n * PageSize
  BY PageSizeType DEF PagesFilled
<1>1. CASE n = 0
  <2>1. count = 0
    <3>1. n * PageSize = 0
      BY <1>0, <1>1
    <3> QED
      BY <1>0, <3>1
  <2>2. pages = << >>
    BY <1>1
  <2>3. Slots(pages, count) = << >>
    <3>1. Slots(pages, count) = [i \in 1 .. 0 |-> SlotAt(pages, i - 1)]
      BY <2>1 DEF Slots
    <3> QED
      BY <3>1
  <2>4. FlattenSeq(pages) = pages
    BY <1>1 DEF FlattenSeq
  <2> QED
    BY <2>2, <2>3, <2>4
<1>2. CASE n # 0
  <2> DEFINE E == [p \in 1 .. n |-> Slots(pages, SlotsTo(count, p))]
             Joined(f, p) == IF p = 1 THEN pages[p] ELSE f[p - 1] \o pages[p]
             g == CHOOSE f : f = [p \in 1 .. n |-> Joined(f, p)]
  <2>1. FlattenSeq(pages) = g[n]
    BY <1>2 DEF FlattenSeq
  <2>e. \A p \in 1 .. n : E[p] = Slots(pages, SlotsTo(count, p))
    OBVIOUS
  <2>2. \A p \in 1 .. n : E[p] = Joined(E, p)
    <3> TAKE p \in 1 .. n
    <3>1. CASE p = 1
      BY <2>e, <3>1, NextPage
    <3>2. CASE p # 1
      <4>1. p > 1 /\ p - 1 \in 1 .. n
        <5> HIDE DEF n
        <5> QED
          BY <1>0, <3>2
      <4>2. E[p] = Slots(pages, SlotsTo(count, p - 1)) \o pages[p]
        <5> HIDE DEF E
        <5> QED
          BY <2>e, <4>1, NextPage
      <4>3. E[p - 1] = Slots(pages, SlotsTo(count, p - 1))
        <5> HIDE DEF E
        <5> QED
          BY <2>e, <4>1
      <4> HIDE DEF E, n
      <4> QED
        BY <3>2, <4>2, <4>3
    <3> QED
      BY <3>1, <3>2
  <2>3. E = [p \in 1 .. n |-> Joined(E, p)]
    <3> DEFINE H == [p \in 1 .. n |-> Joined(E, p)]
    <3>1. \A p \in 1 .. n : E[p] = H[p]
      <4> HIDE DEF E, Joined, n
      <4> QED
        BY <2>2
    <3>2. DOMAIN E = 1 .. n /\ DOMAIN H = 1 .. n
          /\ E = [p \in DOMAIN E |-> E[p]] /\ H = [p \in DOMAIN H |-> H[p]]
      <4> HIDE DEF Joined, n
      <4> QED
        OBVIOUS
    <3> HIDE DEF E, Joined, n, H
    <3>3. E = H
      BY <3>1, <3>2
    <3> QED
      BY <3>3 DEF H
  <2>4. g = [p \in 1 .. n |-> Joined(g, p)]
    <3> HIDE DEF E, Joined, n
    <3> QED
      BY <2>3
  <2> HIDE DEF g
  <2>5. g[n] = E[n]
    <3> DEFINE Good == {k \in Nat : k \in 1 .. n => g[k] = E[k]}
    <3>1. 0 \in Good
      OBVIOUS
    <3>2. ASSUME NEW k \in 1 .. n, k - 1 \in Good PROVE k \in Good
      <4>1. g[k] = Joined(g, k) /\ E[k] = Joined(E, k)
        <5> HIDE DEF E, Joined, n
        <5> QED
          BY <2>2, <2>4
      <4> HIDE DEF E
      <4>2. CASE k = 1
        BY <4>1, <4>2
      <4>3. CASE k # 1
        <5> HIDE DEF n
        <5>1. k - 1 \in 1 .. n /\ k \in Nat
          BY <1>0, <4>3
        <5>2. g[k - 1] = E[k - 1]
          BY <3>2, <5>1
        <5> QED
          BY <4>1, <4>3, <5>1, <5>2
      <4> QED
        BY <4>2, <4>3
    <3> HIDE DEF Good, E, n
    <3>3. n \in Good
      BY <1>0, <3>1, <3>2, CountUp
    <3>4. n \in 1 .. n
      BY <1>0, <1>2
    <3> QED
      BY <3>3, <3>4 DEF Good
  <2>6. n \in 1 .. n
    <3> HIDE DEF n
    <3> QED
      BY <1>0, <1>2
  <2>7. SlotsTo(count, n) = count
    BY <2>6, PageBounds
  <2> HIDE DEF E
  <2> QED
    BY <2>e, <2>1, <2>5, <2>6, <2>7
<1> QED
  BY <1>1, <1>2

(***************************************************************************)
(* The index in every reachable state.                                     *)
(***************************************************************************)

(* The inductive invariant: the pages are in order and whoever has a record *)
(* is tracked. The clock is in it for the comparison with an expiry.        *)
IndexInv ==
  /\ index \in SoundIndexes
  /\ now \in Nat
  /\ \A a \in Addresses : entries[a] # NoEntry => a \in index.tracked

(* Every batch is a list of addresses.                                      *)
LEMMA BatchIsList ==
  ASSUME NEW list \in Batches
  PROVE  list \in Seq(Addresses)
<1>1. Cardinality(Addresses) \in Nat
  BY ComplianceAssumption, FS_CardinalityType
<1>2. PICK m \in 0 .. Cardinality(Addresses) : list \in [1 .. m -> Addresses]
  BY DEF Batches, BoundedSeq, SeqOf
<1>3. m \in Nat
  BY <1>1
<1> QED
  BY <1>2, <1>3

(* A write tracks what it touches.                                          *)
LEMMA WriteTracks ==
  ASSUME IndexInv, NEW list \in Seq(Addresses), NEW new, write(list, new),
         now' = now
  PROVE  IndexInv'
<1>1. /\ FoldLeft(track_address, index, list) \in SoundIndexes
      /\ FoldLeft(track_address, index, list).tracked = index.tracked \cup ToSet(list)
  BY TrackAll DEF IndexInv
<1>2. /\ index' = FoldLeft(track_address, index, list)
      /\ entries' = [a \in Addresses |-> IF a \in ToSet(list) THEN new[a] ELSE entries[a]]
  BY DEF write
<1>3. index' \in SoundIndexes /\ index'.tracked = index.tracked \cup ToSet(list)
  BY <1>1, <1>2
<1>4. ASSUME NEW a \in Addresses, entries'[a] # NoEntry
      PROVE  a \in index'.tracked
  <2>1. CASE a \in ToSet(list)
    BY <1>3, <2>1
  <2>2. CASE a \notin ToSet(list)
    <3>1. entries'[a] = entries[a]
      BY <1>2, <2>2
    <3> QED
      BY <1>3, <1>4, <3>1 DEF IndexInv
  <2> QED
    BY <2>1, <2>2
<1> QED
  BY <1>3, <1>4 DEF IndexInv

(* Put end to end the pages list the tracked addresses, each once.          *)
LEMMA IndexIsSlots ==
  ASSUME IndexInv
  PROVE  /\ address_index = Slots(index.pages, index.count)
         /\ address_index \in Seq(Addresses) /\ Len(address_index) = index.count
         /\ \A i \in 1 .. index.count : address_index[i] = SlotAt(index.pages, i - 1)
         /\ index.count \in Nat
<1>1. /\ index.pages \in Seq(Seq(Addresses)) /\ index.count \in Nat
      /\ PagesFilled(index.pages, index.count)
  BY DEF IndexInv, SoundIndexes, IndexType
<1>2. address_index = Slots(index.pages, index.count)
  BY <1>1, FlattenIsSlots DEF address_index
<1>3. \A i \in 1 .. index.count : SlotAt(index.pages, i - 1) \in Addresses
  <2> TAKE i \in 1 .. index.count
  <2>1. i - 1 \in 0 .. index.count - 1
    BY <1>1
  <2> QED
    BY <1>1, <2>1, SlotExists
<1>4. /\ Slots(index.pages, index.count) \in Seq(Addresses)
      /\ Len(Slots(index.pages, index.count)) = index.count
      /\ \A i \in 1 .. index.count :
           Slots(index.pages, index.count)[i] = SlotAt(index.pages, i - 1)
  BY <1>1, <1>3 DEF Slots
<1> QED
  BY <1>1, <1>2, <1>4

(* A sweep touches only allows that have lapsed.                            *)
LEMMA SweepsLapsed ==
  ASSUME IndexInv, NEW c \in Accounts, NEW limit \in 0 .. 1, sweep_expired(c, limit),
         NEW a \in Addresses
  PROVE  \/ entries'[a] = entries[a]
         \/ lapsed(a) /\ entries'[a] = Swept(entries[a])
<1> DEFINE L == {x \in Addresses : lapsed(x)}
           due == Only(address_index, L)
           swept == IF limit = 0 \/ limit >= Len(due) THEN due ELSE SubSeq(due, 1, limit)
<1>1. entries' = [x \in Addresses |->
        IF x \in ToSet(swept) THEN Swept(entries[x]) ELSE entries[x]]
  BY DEF sweep_expired
<1>2. due \in Seq(Addresses \cap L)
  BY IndexIsSlots, OnlyPassed
<1> HIDE DEF due
<1>3. \A x \in ToSet(swept) : x \in L
  <2>1. \A k \in 1 .. Len(due) : due[k] \in L
    BY <1>2, ElementOfSeq
  <2>2. \A x \in ToSet(due) : x \in L
    BY <1>2, <2>1 DEF ToSet
  <2>3. CASE limit = 0 \/ limit >= Len(due)
    BY <2>2, <2>3
  <2>4. CASE ~ (limit = 0 \/ limit >= Len(due))
    <3>1. limit \in Int /\ \A k \in 1 .. limit : k \in 1 .. Len(due)
      BY <1>2, <2>4
    <3>2. SubSeq(due, 1, limit) \in Seq(L)
      BY <2>1, <3>1, SubSeqProperties
    <3> HIDE DEF L
    <3>3. \A x \in ToSet(SubSeq(due, 1, limit)) : x \in L
      BY <3>2, ElementOfSeq DEF ToSet
    <3> QED
      BY <2>4, <3>3
  <2> QED
    BY <2>3, <2>4
<1> HIDE DEF swept
<1> QED
  BY <1>1, <1>3

(* IndexInv holds in every reachable state.                                 *)
LEMMA IndexInvariant == Spec => []IndexInv
<1>1. Init => IndexInv
  <2> SUFFICES ASSUME Init PROVE IndexInv
    OBVIOUS
  <2>1. index = [pages |-> << >>, count |-> 0, tracked |-> {}]
    BY DEF Init, NoIndex
  <2>2. index \in IndexType
    BY <2>1 DEF IndexType
  <2>3. PagesFilled(<< >>, 0)
    <3>0. PageSize \in Nat \ {0} /\ Len(<< >>) = 0
      BY PageSizeType
    <3>1. 0 <= Len(<< >>) * PageSize /\ Len(<< >>) * PageSize < 0 + PageSize
      BY <3>0
    <3>2. 1 .. Len(<< >>) = {}
      BY <3>0
    <3> QED
      BY <3>1, <3>2 DEF PagesFilled
  <2>4. SlotsHold(<< >>, 0, {})
    <3>1. 0 .. 0 - 1 = {}
      OBVIOUS
    <3> QED
      BY <3>1 DEF SlotsHold
  <2>5. index \in SoundIndexes
    BY <2>1, <2>2, <2>3, <2>4 DEF SoundIndexes
  <2> QED
    BY <2>5 DEF Init, IndexInv
<1>2. RecordInv /\ IndexInv /\ [Next]_vars => IndexInv'
  <2> SUFFICES ASSUME RecordInv, IndexInv, [Next]_vars PROVE IndexInv'
    OBVIOUS
  <2>1. CASE UNCHANGED <<addressVars, now>>
    BY <2>1 DEF IndexInv, addressVars
  <2>2. ASSUME NEW x \in Addresses, NEW new, write(<<x>>, new), now' = now
        PROVE  IndexInv'
    <3>1. <<x>> \in Seq(Addresses)
      OBVIOUS
    <3> QED
      BY <2>2, <3>1, WriteTracks
  <2>3. ASSUME NEW list \in Batches, NEW new, write(list, new), now' = now
        PROVE  IndexInv'
    BY <2>3, WriteTracks, BatchIsList
  <2>4. ASSUME NEW c \in Accounts, NEW limit \in 0 .. 1, sweep_expired(c, limit)
        PROVE  IndexInv'
    <3>1. index' = index /\ now' = now
      BY <2>4 DEF sweep_expired
    <3>2. \A a \in Addresses : lapsed(a) => entries[a] # NoEntry
      BY DEF lapsed, NoEntry
    <3>3. \A a \in Addresses : entries'[a] # NoEntry => entries[a] # NoEntry
      BY <2>4, <3>2, SweepsLapsed
    <3> QED
      BY <3>1, <3>3 DEF IndexInv
  <2>5. CASE Tick
    BY <2>5 DEF Tick, IndexInv, addressVars
  <2>6. ASSUME NEW c \in Accounts, RoleCall(c) PROVE IndexInv'
    <3>1. UNCHANGED <<addressVars, now>>
      BY <2>6 DEF RoleCall, pause, unpause, transfer_admin, cancel_admin_transfer,
         accept_admin, set_operator, add_operator, remove_operator
    <3> QED
      BY <2>1, <3>1
  <2>7. ASSUME NEW c \in Accounts, AddressCall(c) PROVE IndexInv'
    BY <2>2, <2>3, <2>4, <2>7
    DEF AddressCall, allow_address_with_tier, allow_address, allow_address_until,
        bulk_allow_addresses, revoke_allow, block_address, block_address_until,
        bulk_block_addresses, clear_address
  <2> QED
    BY <2>1, <2>5, <2>6, <2>7 DEF Next, Call, vars
<1> QED
  BY <1>1, <1>2, RecordInvariant, PTL DEF Spec

(* The window that export_snapshot_page reads page by page is the slice of  *)
(* the list of addresses, whatever the page size.                           *)
LEMMA WindowIsSlice ==
  ASSUME IndexInv, NEW start \in 0 .. index.count, NEW limit \in 1 .. index.count
  PROVE  export_snapshot_page(start, limit) =
           SubSeq(address_index, start + 1,
                  IF start + limit <= index.count THEN start + limit ELSE index.count)
<1> DEFINE n == index.count
           end == IF start + limit <= n THEN start + limit ELSE n
           window == [k \in 1 .. end - start |-> SlotAt(index.pages, start + k - 1)]
<1>1. /\ address_index \in Seq(Addresses) /\ Len(address_index) = n /\ n \in Nat
      /\ \A i \in 1 .. n : address_index[i] = SlotAt(index.pages, i - 1)
  BY IndexIsSlots
<1>2. /\ end \in Nat /\ end <= n /\ start \in Nat /\ start <= end /\ limit \in Nat /\ limit # 0
  BY <1>1
<1>3. export_snapshot_page(start, limit) = IF start >= n THEN << >> ELSE window
  BY <1>2 DEF export_snapshot_page, SlotAt, PageSize
<1>4. \A i \in start + 1 .. end : address_index[i] \in Addresses
  BY <1>1, <1>2, ElementOfSeq
<1>5. /\ SubSeq(address_index, start + 1, end) \in Seq(Addresses)
      /\ Len(SubSeq(address_index, start + 1, end))
           = IF start + 1 <= end THEN end - (start + 1) + 1 ELSE 0
      /\ \A i \in 1 .. end - (start + 1) + 1 :
           SubSeq(address_index, start + 1, end)[i] = address_index[(start + 1) + i - 1]
  BY <1>2, <1>4, SubSeqProperties
<1>6. CASE start >= n
  <2>1. end < start + 1
    BY <1>1, <1>2, <1>6
  <2>2. SubSeq(address_index, start + 1, end) = << >>
    BY <1>2, <2>1, SubSeqEmpty
  <2> QED
    BY <1>3, <1>6, <2>2
<1>7. CASE ~ (start >= n)
  <2>1. start + 1 <= end /\ end - start \in Nat
    BY <1>1, <1>2, <1>7
  <2> HIDE DEF n, end
  <2>2. ASSUME NEW k \in 1 .. end - start
        PROVE  /\ address_index[start + k] = SlotAt(index.pages, start + k - 1)
               /\ address_index[start + k] \in Addresses
               /\ SubSeq(address_index, start + 1, end)[k] = address_index[start + k]
    <3>1. start + k \in 1 .. n /\ start + k \in start + 1 .. end
      BY <1>1, <1>2, <2>1
    <3>2. /\ k \in 1 .. end - (start + 1) + 1 /\ (start + 1) + k - 1 = start + k
          /\ (start + k) - 1 = start + k - 1
      BY <1>2, <2>1
    <3> QED
      BY <1>1, <1>4, <1>5, <3>1, <3>2
  <2>3. /\ window \in Seq(Addresses) /\ Len(window) = end - start
        /\ \A k \in 1 .. end - start : window[k] = address_index[start + k]
    <3> DEFINE m == end - start
               slot(k) == SlotAt(index.pages, start + k - 1)
    <3>1. m \in Nat /\ \A k \in 1 .. m : slot(k) \in Addresses /\ slot(k) = address_index[start + k]
      BY <2>1, <2>2
    <3>2. window = [k \in 1 .. m |-> slot(k)]
      OBVIOUS
    <3> HIDE DEF m, slot, window
    <3> QED
      BY <3>1, <3>2 DEF m
  <2>4. Len(SubSeq(address_index, start + 1, end)) = end - start
    BY <1>2, <1>5, <2>1
  <2> HIDE DEF window
  <2>5. window = SubSeq(address_index, start + 1, end)
    BY <1>5, <2>2, <2>3, <2>4, SeqEqual
  <2> QED
    BY <1>3, <1>7, <2>5 DEF end, n
<1> QED
  BY <1>6, <1>7

(* Whatever the page size and the batches, the pages list every address     *)
(* that ever had a record, once, and every exported window is a slice of    *)
(* that list.                                                               *)
THEOREM IndexIsComplete == Spec => []IndexListsEveryTouchedAddress
<1>1. IndexInv => IndexListsEveryTouchedAddress
  <2> SUFFICES ASSUME IndexInv PROVE IndexListsEveryTouchedAddress
    OBVIOUS
  <2>1. /\ address_index \in Seq(Addresses) /\ Len(address_index) = index.count
        /\ index.count \in Nat /\ DOMAIN address_index = 1 .. index.count
        /\ \A i \in 1 .. index.count : address_index[i] = SlotAt(index.pages, i - 1)
    BY IndexIsSlots, LenProperties
  <2>2. SlotsHold(index.pages, index.count, index.tracked)
    BY DEF IndexInv, SoundIndexes
  <2>3. IsInjective(address_index)
    <3> SUFFICES ASSUME NEW i \in 1 .. index.count, NEW j \in 1 .. index.count,
                        address_index[i] = address_index[j]
                 PROVE  i = j
      BY <2>1 DEF IsInjective
    <3>1. i - 1 \in 0 .. index.count - 1 /\ j - 1 \in 0 .. index.count - 1
      BY <2>1
    <3>2. i - 1 = j - 1
      BY <2>1, <2>2, <3>1 DEF SlotsHold
    <3> QED
      BY <3>2
  <2>4. ASSUME NEW a \in Addresses, entries[a] # NoEntry
        PROVE  a \in ToSet(address_index)
    <3>1. PICK i \in 0 .. index.count - 1 : SlotAt(index.pages, i) = a
      BY <2>2, <2>4 DEF IndexInv, SlotsHold
    <3>2. i + 1 \in 1 .. index.count /\ (i + 1) - 1 = i
      BY <2>1
    <3>3. address_index[i + 1] = a
      BY <2>1, <3>1, <3>2
    <3> QED
      BY <2>1, <3>2, <3>3 DEF ToSet
  <2> QED
    BY <2>1, <2>3, <2>4, WindowIsSlice DEF IndexListsEveryTouchedAddress
<1> QED
  BY <1>1, IndexInvariant, PTL

(* address_state never reports Allowed for an address that is_allowed       *)
(* refuses, although the one reads the block flag and the other its expiry. *)
THEOREM StatesNeverOverstate == Spec => []StateNeverOverstates
<1>1. RecordInv /\ IndexInv => StateNeverOverstates
  <2> SUFFICES ASSUME RecordInv, NEW a \in Addresses, address_state(a) = "Allowed"
               PROVE  is_allowed(a)
    BY DEF StateNeverOverstates
  <2>1. entries[a].allowed /\ ~entries[a].blocked
    BY DEF address_state
  <2>2. entries[a].allowed_until = NoTime \/ now < entries[a].allowed_until
    BY DEF address_state
  <2> QED
    BY <2>1, <2>2 DEF is_allowed, is_allowed_at
<1> QED
  BY <1>1, RecordInvariant, IndexInvariant, PTL

(* A sweep touches only allows that had lapsed, so nobody's answer from     *)
(* is_allowed changes.                                                      *)
THEOREM SweepsAreBookkeeping == Spec => SweepIsBookkeeping
<1>1. RecordInv /\ IndexInv /\ [Next]_vars =>
        [\/ \A a \in Addresses : is_allowed(a)' = is_allowed(a)
         \/ ~ \E c \in Accounts, limit \in 0 .. 1 : sweep_expired(c, limit)]_vars
  <2> SUFFICES ASSUME RecordInv, IndexInv, NEW c \in Accounts, NEW limit \in 0 .. 1,
                      sweep_expired(c, limit), NEW a \in Addresses
               PROVE  is_allowed(a)' = is_allowed(a)
    OBVIOUS
  <2>1. now' = now
    BY DEF sweep_expired
  <2>2. CASE entries'[a] = entries[a]
    BY <2>1, <2>2 DEF is_allowed
  <2>3. CASE lapsed(a) /\ entries'[a] = Swept(entries[a])
    <3>1. entries[a] \in Entry /\ now \in Nat
      BY DEF RecordInv, IndexInv
    <3>2. ~is_allowed(a)
      <4>1. /\ entries[a].allowed_until # NoTime /\ now >= entries[a].allowed_until
            /\ entries[a].allowed_until \in Nat
        BY <2>3, <3>1 DEF lapsed, Entry, Moments
      <4> QED
        BY <3>1, <4>1 DEF is_allowed, is_allowed_at
    <3>3. ~entries'[a].allowed
      BY <2>3, <3>1 DEF Swept, Entry
    <3>4. ~is_allowed(a)'
      BY <3>3 DEF is_allowed, is_allowed_at
    <3>5. is_allowed(a) \in BOOLEAN /\ is_allowed(a)' \in BOOLEAN
      BY DEF is_allowed, is_allowed_at
    <3> QED
      BY <3>2, <3>4, <3>5
  <2> QED
    BY <2>2, <2>3, SweepsLapsed
<1> QED
  BY <1>1, RecordInvariant, IndexInvariant, PTL DEF Spec, SweepIsBookkeeping

(***************************************************************************)
(* Types and the bound on the operators.                                   *)
(***************************************************************************)
(* What the types of the roles, the pause, the cooldowns and the clock are; *)
(* the operators are finitely many, or their number would mean nothing.     *)
RolesOK ==
  /\ admin \in Accounts
  /\ pendingAdmin \in Roles /\ operator \in Roles
  /\ operators \subseteq Accounts /\ IsFiniteSet(operators)
  /\ Cardinality(operators) <= MAX_OPERATORS

ClocksOK ==
  /\ paused \in BOOLEAN
  /\ lastBulkAllow \in [Accounts -> Moments]
  /\ lastBulkBlock \in [Accounts -> Moments]
  /\ now \in Nat

(* Adding an operator respects MAX_OPERATORS, removing one lowers it.       *)
LEMMA OperatorsBounded ==
  ASSUME RolesOK, NEW c, NEW op \in OperatorKeys,
         add_operator(c, op) \/ remove_operator(c, op)
  PROVE  RolesOK'
<1>0. op \in Accounts /\ MAX_OPERATORS \in Nat /\ Cardinality(operators) \in Nat
  BY ComplianceAssumption, FS_CardinalityType DEF RolesOK
<1>1. admin' \in Accounts /\ pendingAdmin' \in Roles /\ operator' \in Roles
  BY DEF RolesOK, add_operator, remove_operator
<1>2. CASE add_operator(c, op) /\ op \in operators
  <2>1. operators' = operators
    BY <1>2 DEF add_operator
  <2> QED BY <1>1, <2>1 DEF RolesOK
<1>3. CASE add_operator(c, op) /\ op \notin operators
  <2>1. operators' = operators \cup {op} /\ Cardinality(operators) < MAX_OPERATORS
    BY <1>3 DEF add_operator
  <2>2. /\ IsFiniteSet(operators \cup {op})
        /\ Cardinality(operators \cup {op}) = Cardinality(operators) + 1
    BY <1>3, FS_AddElement DEF RolesOK
  <2>3. operators' \subseteq Accounts
    BY <1>0, <2>1 DEF RolesOK
  <2>4. Cardinality(operators) + 1 <= MAX_OPERATORS
    BY <1>0, <2>1
  <2> QED BY <1>1, <2>1, <2>2, <2>3, <2>4 DEF RolesOK
<1>4. CASE remove_operator(c, op)
  <2>1. operators' = operators \ {op}
    BY <1>4 DEF remove_operator
  <2>2. /\ IsFiniteSet(operators \ {op})
        /\ Cardinality(operators \ {op}) <= Cardinality(operators)
    BY FS_Subset DEF RolesOK
  <2>3. Cardinality(operators \ {op}) \in Nat
    BY <2>2, FS_CardinalityType
  <2>4. Cardinality(operators \ {op}) <= MAX_OPERATORS
    BY <1>0, <2>2, <2>3 DEF RolesOK
  <2> QED BY <1>1, <2>1, <2>2, <2>4 DEF RolesOK
<1> QED BY <1>2, <1>3, <1>4

(* Every step keeps the roles typed and the operators bounded.              *)
LEMMA RolesStep ==
  ASSUME RolesOK, [Next]_vars
  PROVE  RolesOK'
<1>1. CASE UNCHANGED roleVars
  BY <1>1 DEF RolesOK, roleVars
<1>2. ASSUME NEW c \in Accounts, RoleCall(c) PROVE RolesOK'
  <2>1. CASE pause(c) \/ unpause(c)
    BY <1>1, <2>1 DEF pause, unpause
  <2>2. CASE \/ \E new \in Nominees : transfer_admin(c, new)
             \/ cancel_admin_transfer(c) \/ accept_admin(c)
             \/ \E op \in OperatorKeys : set_operator(c, op)
    <3>1. Nominees \subseteq Roles /\ OperatorKeys \subseteq Roles /\ NoAccount \in Roles
      BY ComplianceAssumption DEF Roles
    <3>2. admin' \in Accounts /\ pendingAdmin' \in Roles /\ operator' \in Roles
      BY <1>2, <2>2, <3>1
      DEF RolesOK, transfer_admin, cancel_admin_transfer, accept_admin, set_operator
    <3>3. operators' = operators
      BY <2>2 DEF transfer_admin, cancel_admin_transfer, accept_admin, set_operator
    <3> QED BY <3>2, <3>3 DEF RolesOK
  <2>3. CASE \E op \in OperatorKeys : add_operator(c, op) \/ remove_operator(c, op)
    BY <2>3, OperatorsBounded
  <2> QED BY <1>2, <2>1, <2>2, <2>3 DEF RoleCall
<1>3. ASSUME NEW c \in Accounts, AddressCall(c) PROVE UNCHANGED roleVars
  BY <1>3
  DEF AddressCall, allow_address_with_tier, allow_address, allow_address_until,
      bulk_allow_addresses, revoke_allow, block_address, block_address_until,
      bulk_block_addresses, clear_address, sweep_expired
<1>4. CASE Tick
  BY <1>1, <1>4 DEF Tick
<1>5. CASE UNCHANGED vars
  BY <1>1, <1>5 DEF vars
<1> QED BY <1>1, <1>2, <1>3, <1>4, <1>5 DEF Next, Call

(* Every step keeps the clock, the cooldowns and the pause typed.           *)
LEMMA ClocksStep ==
  ASSUME ClocksOK, [Next]_vars
  PROVE  ClocksOK'
<1>0. now \in Moments
  BY DEF ClocksOK, Moments
<1>1. CASE UNCHANGED <<bulkVars, paused, now>>
  BY <1>1 DEF ClocksOK, bulkVars
<1>2. ASSUME NEW c \in Accounts, RoleCall(c) PROVE ClocksOK'
  BY <1>2 DEF ClocksOK, bulkVars, RoleCall, pause, unpause, transfer_admin,
     cancel_admin_transfer, accept_admin, set_operator, add_operator, remove_operator
<1>3. ASSUME NEW c \in Accounts, NEW list,
             bulk_allow_addresses(c, list) \/ bulk_block_addresses(c, list)
      PROVE  ClocksOK'
  BY <1>0, <1>3 DEF ClocksOK, bulk_allow_addresses, bulk_block_addresses
<1>4. ASSUME NEW c \in Accounts, AddressCall(c) PROVE ClocksOK'
  BY <1>1, <1>3, <1>4
  DEF AddressCall, allow_address_with_tier, allow_address, allow_address_until,
      revoke_allow, block_address, block_address_until, clear_address, sweep_expired
<1>5. CASE Tick
  BY <1>5 DEF Tick, ClocksOK, bulkVars
<1>6. CASE UNCHANGED vars
  BY <1>1, <1>6 DEF vars
<1> QED BY <1>2, <1>4, <1>5, <1>6 DEF Next, Call

(* Every storage entry of the compliance contract keeps its type, the admin *)
(* is always an account, through every handover, and add_operator never     *)
(* exceeds MAX_OPERATORS.                                                   *)
THEOREM ComplianceTypeCorrect == Spec => []ComplianceTypeOK
<1>1. Init => RolesOK /\ ClocksOK
  <2> SUFFICES ASSUME Init PROVE RolesOK /\ ClocksOK
    OBVIOUS
  <2>1. IsFiniteSet({}) /\ Cardinality({}) = 0 /\ 0 <= MAX_OPERATORS
    BY FS_EmptySet, ComplianceAssumption
  <2>2. RolesOK
    BY <2>1, ComplianceAssumption DEF Init, RolesOK, Roles
  <2>3. ClocksOK
    BY DEF Init, ClocksOK, Moments
  <2> QED BY <2>2, <2>3
<1>2. RolesOK /\ ClocksOK /\ [Next]_vars => (RolesOK /\ ClocksOK)'
  BY RolesStep, ClocksStep
<1>3. RecordInv /\ RolesOK /\ ClocksOK => ComplianceTypeOK
  BY DEF RecordInv, RolesOK, ClocksOK, ComplianceTypeOK
<1> QED
  BY <1>1, <1>2, <1>3, RecordInvariant, PTL DEF Spec
=============================================================================
