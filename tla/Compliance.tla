----------------------------- MODULE Compliance -----------------------------
(***************************************************************************)
(* The compliance contract (contracts/compliance/src/lib.rs): the allow    *)
(* and block records of every screened address, who may change them, and   *)
(* the paged index of the addresses ever touched.                          *)
(*                                                                         *)
(* A call that returns an error is rolled back and is no step. Left out,   *)
(* as data no call that changes state reads: tiers and tier limits, block  *)
(* and pause reasons, jurisdictions, the status history, the two           *)
(* write-only counters, the schema version and the Merkle root.            *)
(***************************************************************************)
EXTENDS Integers, SequencesExt, Aggregates

CONSTANTS
  Addresses,             \* the screened addresses
  Accounts,              \* the keys that may hold a role
  FirstAdmin,            \* the admin passed to initialize
  Nominees,              \* the accounts transfer_admin names
  OperatorKeys,          \* the accounts made operators
  Expiries,              \* values of expires_at and unblock_at
  MAX_TRACKED_ADDRESSES,
  ADDR_INDEX_PAGE_SIZE,
  MAX_OPERATORS,
  BULK_OP_COOLDOWN_SECS,
  MaxTime                \* bound on the ledger timestamp

ASSUME ComplianceAssumption ==
  /\ IsFiniteSet(Addresses)
  /\ FirstAdmin \in Accounts
  /\ "none" \notin Accounts
  /\ Nominees \subseteq Accounts /\ OperatorKeys \subseteq Accounts
  /\ Expiries \subseteq Nat
  /\ MAX_TRACKED_ADDRESSES \in Nat
  /\ ADDR_INDEX_PAGE_SIZE \in Nat \ {0}
  /\ MAX_OPERATORS \in Nat
  /\ BULK_OP_COOLDOWN_SECS \in Nat
  /\ MaxTime \in Nat \ {0}

VARIABLES
  entries,        \* Allowed, AllowedUntil, Blocked, BlockedUntil, BlockedBy
  index,          \* AddrIndexPage, AddrIndexCount and AddrTracked
  admin,          \* DataKey::Admin
  pendingAdmin,   \* DataKey::PendingAdmin
  operators,      \* DataKey::Operators
  operator,       \* DataKey::Operator, the legacy single operator
  paused,         \* DataKey::Paused
  lastBulkAllow,  \* DataKey::LastBulkAllow(_)
  lastBulkBlock,  \* DataKey::LastBulkBlock(_)
  now             \* the ledger timestamp

addressVars == <<entries, index>>
roleVars    == <<admin, pendingAdmin, operators, operator>>
bulkVars    == <<lastBulkAllow, lastBulkBlock>>
vars == <<addressVars, roleVars, bulkVars, paused, now>>

(* The None of an Option.                                                   *)
NoTime    == -1
NoAccount == "none"
Roles     == Accounts \cup {NoAccount}
Moments   == Nat \cup {NoTime}

Entry == [allowed : BOOLEAN, allowed_until : Moments, blocked : BOOLEAN,
          blocked_until : Moments, blocked_by : Roles]

(* Absent keys read as false, None.                                         *)
NoEntry == [allowed |-> FALSE, allowed_until |-> NoTime, blocked |-> FALSE,
            blocked_until |-> NoTime, blocked_by |-> NoAccount]

(***************************************************************************)
(* Reading.                                                                *)
(***************************************************************************)
is_allowed_at(e, t) ==
  /\ e.allowed
  /\ e.blocked => e.blocked_until # NoTime /\ t >= e.blocked_until
  /\ e.allowed_until # NoTime => t < e.allowed_until

is_allowed(a) == is_allowed_at(entries[a], now)

(* Mutant: an allow that has lapsed is still reported.                      *)
StateWithoutExpiry(a) ==
  IF entries[a].blocked \/ ~entries[a].allowed THEN "Blocked" ELSE "Allowed"

address_state(a) ==
  LET e == entries[a] IN
  IF e.blocked \/ ~e.allowed THEN "Blocked"
  ELSE IF e.allowed_until = NoTime \/ now < e.allowed_until THEN "Allowed"
  ELSE "Expired"

(***************************************************************************)
(* The paged address index.                                                *)
(***************************************************************************)
NoIndex == [pages |-> << >>, count |-> 0, tracked |-> {}]

(* Mutant: no AddrTracked lookup.                                           *)
TrackAgain(idx, a) ==
  LET p == (idx.count \div ADDR_INDEX_PAGE_SIZE) + 1
      pages == IF p > Len(idx.pages) THEN Append(idx.pages, << >>) ELSE idx.pages
  IN  [pages |-> [pages EXCEPT ![p] = Append(@, a)],
       count |-> idx.count + 1, tracked |-> idx.tracked \cup {a}]

(* Page p of the code is element p + 1 of the sequence; a page comes into   *)
(* being with its first address. The caller checks MAX_TRACKED_ADDRESSES.   *)
track_address(idx, a) ==
  IF a \in idx.tracked THEN idx
  ELSE LET p == (idx.count \div ADDR_INDEX_PAGE_SIZE) + 1
           pages == IF p > Len(idx.pages) THEN Append(idx.pages, << >>) ELSE idx.pages
       IN  [pages |-> [pages EXCEPT ![p] = Append(@, a)],
            count |-> idx.count + 1, tracked |-> idx.tracked \cup {a}]

address_index == FlattenSeq(index.pages)

(* The window [start, start + limit) read page by page, slot by slot.       *)
export_snapshot_page(start, limit) ==
  LET end == IF start + limit <= index.count THEN start + limit ELSE index.count
      slot(i) == index.pages[(i \div ADDR_INDEX_PAGE_SIZE) + 1]
                            [(i % ADDR_INDEX_PAGE_SIZE) + 1]
  IN  IF limit = 0 \/ start >= index.count THEN << >>
      ELSE [k \in 1 .. end - start |-> slot(start + k - 1)]

(***************************************************************************)
(* Roles.                                                                  *)
(***************************************************************************)
require_admin(c) == c = admin

require_admin_or_operator(c) == c = admin \/ c \in operators \/ c = operator

require_not_paused == ~paused

(* The recorded placer of a block; one without a record is the admin's.     *)
block_placer(a) ==
  IF ~entries[a].blocked THEN NoAccount
  ELSE IF entries[a].blocked_by = NoAccount THEN admin
  ELSE entries[a].blocked_by

require_operator_placed_block(c, a) == block_placer(a) = c

check_bulk_op_cooldown(last, c) ==
  last[c] # NoTime => now >= last[c] + BULK_OP_COOLDOWN_SECS

(***************************************************************************)
(* Every change of an address ends by tracking it.                         *)
(***************************************************************************)
write(as, new) ==
  LET idx == FoldLeft(track_address, index, as) IN
  /\ idx.count <= MAX_TRACKED_ADDRESSES
  /\ index' = idx
  /\ entries' = [a \in Addresses |->
       IF a \in ToSet(as) THEN new[a] ELSE entries[a]]

Allowing(e)            == [e EXCEPT !.allowed = TRUE, !.allowed_until = NoTime]
AllowingUntil(e, t)    == [e EXCEPT !.allowed = TRUE, !.allowed_until = t]
Blocking(e, c)         == [e EXCEPT !.blocked = TRUE, !.blocked_by = c]
BlockingUntil(e, c, t) == [Blocking(e, c) EXCEPT !.blocked_until = t]

(***************************************************************************)
(* Entry points, each called by c.                                         *)
(***************************************************************************)
allow_address(c, a) ==
  /\ require_admin(c) /\ require_not_paused
  /\ write(<<a>>, [x \in Addresses |-> Allowing(entries[x])])
  /\ UNCHANGED <<roleVars, bulkVars, paused, now>>

(* The tier it records besides is left out.                                 *)
allow_address_with_tier(c, a) == allow_address(c, a)

allow_address_until(c, a, expires_at) ==
  /\ require_admin(c) /\ require_not_paused
  /\ write(<<a>>, [x \in Addresses |-> AllowingUntil(entries[x], expires_at)])
  /\ UNCHANGED <<roleVars, bulkVars, paused, now>>

bulk_allow_addresses(c, as) ==
  /\ require_admin(c) /\ require_not_paused
  /\ check_bulk_op_cooldown(lastBulkAllow, c)
  /\ lastBulkAllow' = [lastBulkAllow EXCEPT ![c] = now]
  /\ write(as, [x \in Addresses |-> Allowing(entries[x])])
  /\ UNCHANGED <<roleVars, lastBulkBlock, paused, now>>

revoke_allow(c, a) ==
  /\ require_admin(c) /\ require_not_paused
  /\ write(<<a>>, [x \in Addresses |->
       [entries[x] EXCEPT !.allowed = FALSE, !.allowed_until = NoTime]])
  /\ UNCHANGED <<roleVars, bulkVars, paused, now>>

(* Blocking is open to operators and while paused; it overwrites the placer *)
(* of an earlier block and leaves an earlier BlockedUntil in place.         *)
block_address(c, a) ==
  /\ require_admin_or_operator(c)
  /\ write(<<a>>, [x \in Addresses |-> Blocking(entries[x], c)])
  /\ UNCHANGED <<roleVars, bulkVars, paused, now>>

block_address_until(c, a, unblock_at) ==
  /\ require_admin_or_operator(c)
  /\ write(<<a>>, [x \in Addresses |-> BlockingUntil(entries[x], c, unblock_at)])
  /\ UNCHANGED <<roleVars, bulkVars, paused, now>>

bulk_block_addresses(c, as) ==
  /\ require_admin(c)
  /\ check_bulk_op_cooldown(lastBulkBlock, c)
  /\ lastBulkBlock' = [lastBulkBlock EXCEPT ![c] = now]
  /\ write(as, [x \in Addresses |-> Blocking(entries[x], c)])
  /\ UNCHANGED <<roleVars, lastBulkAllow, paused, now>>

(* Mutant: the placer of the block is kept.                                 *)
ClearedKeepingPlacer(e) ==
  [NoEntry EXCEPT !.allowed = TRUE, !.blocked_by = e.blocked_by]

(* What clear_address leaves: allowed without expiry or block.              *)
Cleared(e) == [NoEntry EXCEPT !.allowed = TRUE]

clear_address(c, a) ==
  /\ require_admin_or_operator(c)
  /\ c # admin => require_operator_placed_block(c, a)
  /\ write(<<a>>, [x \in Addresses |-> Cleared(entries[x])])
  /\ UNCHANGED <<roleVars, bulkVars, paused, now>>

(* Mutant: the expiry is dropped and the allow kept.                        *)
SweptKeepingAllow(e) == [e EXCEPT !.allowed_until = NoTime]

Swept(e) == [e EXCEPT !.allowed = FALSE, !.allowed_until = NoTime]

lapsed(a) == /\ entries[a].allowed
             /\ entries[a].allowed_until # NoTime
             /\ now >= entries[a].allowed_until

(* The first "limit" lapsed allows in index order; limit 0 is all of them.  *)
sweep_expired(c, limit) ==
  LET due == Only(address_index, {a \in Addresses : lapsed(a)})
      swept == IF limit = 0 \/ limit >= Len(due) THEN due ELSE SubSeq(due, 1, limit)
  IN  /\ require_admin_or_operator(c)
      /\ entries' = [a \in Addresses |->
           IF a \in ToSet(swept) THEN Swept(entries[a]) ELSE entries[a]]
      /\ UNCHANGED <<index, roleVars, bulkVars, paused, now>>

pause(c) ==
  /\ require_admin(c)
  /\ paused' = TRUE
  /\ UNCHANGED <<addressVars, roleVars, bulkVars, now>>

unpause(c) ==
  /\ require_admin(c)
  /\ paused' = FALSE
  /\ UNCHANGED <<addressVars, roleVars, bulkVars, now>>

transfer_admin(c, new) ==
  /\ require_admin(c)
  /\ pendingAdmin' = new
  /\ UNCHANGED <<addressVars, admin, operators, operator, bulkVars, paused, now>>

cancel_admin_transfer(c) ==
  /\ require_admin(c)
  /\ pendingAdmin # NoAccount
  /\ pendingAdmin' = NoAccount
  /\ UNCHANGED <<addressVars, admin, operators, operator, bulkVars, paused, now>>

accept_admin(c) ==
  /\ pendingAdmin = c
  /\ admin' = c
  /\ pendingAdmin' = NoAccount
  /\ UNCHANGED <<addressVars, operators, operator, bulkVars, paused, now>>

set_operator(c, op) ==
  /\ require_admin(c)
  /\ operator' = op
  /\ UNCHANGED <<addressVars, admin, pendingAdmin, operators, bulkVars, paused, now>>

add_operator(c, op) ==
  /\ require_admin(c)
  /\ op \in operators \/ Cardinality(operators) < MAX_OPERATORS
  /\ operators' = operators \cup {op}
  /\ UNCHANGED <<addressVars, admin, pendingAdmin, operator, bulkVars, paused, now>>

remove_operator(c, op) ==
  /\ require_admin(c)
  /\ operators' = operators \ {op}
  /\ UNCHANGED <<addressVars, admin, pendingAdmin, operator, bulkVars, paused, now>>

(* An address repeated in a batch is written alike twice: left out.         *)
Batches == {as \in BoundedSeq(Addresses, Cardinality(Addresses)) : IsInjective(as)}

AddressCall(c) ==
  \/ \E a \in Addresses : allow_address(c, a)
  \/ \E a \in Addresses : allow_address_with_tier(c, a)
  \/ \E a \in Addresses, t \in Expiries : allow_address_until(c, a, t)
  \/ \E as \in Batches : bulk_allow_addresses(c, as)
  \/ \E a \in Addresses : revoke_allow(c, a)
  \/ \E a \in Addresses : block_address(c, a)
  \/ \E a \in Addresses, t \in Expiries : block_address_until(c, a, t)
  \/ \E as \in Batches : bulk_block_addresses(c, as)
  \/ \E a \in Addresses : clear_address(c, a)
  \/ \E limit \in 0 .. 1 : sweep_expired(c, limit)

RoleCall(c) ==
  \/ pause(c) \/ unpause(c)
  \/ \E new \in Nominees : transfer_admin(c, new)
  \/ cancel_admin_transfer(c)
  \/ accept_admin(c)
  \/ \E op \in OperatorKeys : set_operator(c, op)
  \/ \E op \in OperatorKeys : add_operator(c, op)
  \/ \E op \in OperatorKeys : remove_operator(c, op)

Call(c) == AddressCall(c) \/ RoleCall(c)

Tick ==
  /\ now < MaxTime
  /\ now' = now + 1
  /\ UNCHANGED <<addressVars, roleVars, bulkVars, paused>>

Init ==
  /\ entries = [a \in Addresses |-> NoEntry]
  /\ index = NoIndex
  /\ admin = FirstAdmin
  /\ pendingAdmin = NoAccount
  /\ operators = {}
  /\ operator = NoAccount
  /\ paused = FALSE
  /\ lastBulkAllow = [c \in Accounts |-> NoTime]
  /\ lastBulkBlock = [c \in Accounts |-> NoTime]
  /\ now = 1

Next == (\E c \in Accounts : Call(c)) \/ Tick

Spec == Init /\ [][Next]_vars

(***************************************************************************)
(* Properties.                                                             *)
(***************************************************************************)
(* Every storage entry keeps its type, and the operator set its bound.      *)
ComplianceTypeOK ==
  /\ entries \in [Addresses -> Entry]
  /\ admin \in Accounts
  /\ pendingAdmin \in Roles /\ operator \in Roles
  /\ operators \subseteq Accounts /\ Cardinality(operators) <= MAX_OPERATORS
  /\ paused \in BOOLEAN
  /\ lastBulkAllow \in [Accounts -> Moments]
  /\ lastBulkBlock \in [Accounts -> Moments]
  /\ now \in Nat

(* The pages, put end to end, list every address ever touched exactly once, *)
(* so sweeps and exports miss nobody; every window export_snapshot_page     *)
(* returns is the matching slice of that list, wherever it crosses a page.  *)
IndexListsEveryTouchedAddress ==
  /\ Len(address_index) = index.count /\ IsInjective(address_index)
  /\ \A a \in Addresses : entries[a] # NoEntry => a \in ToSet(address_index)
  /\ \A start \in 0 .. index.count, limit \in 1 .. index.count :
       export_snapshot_page(start, limit) =
         SubSeq(address_index, start + 1,
                IF start + limit <= index.count THEN start + limit ELSE index.count)

(* address_state, which exports and audits read, never reports Allowed for  *)
(* an address the gate would refuse.                                        *)
StateNeverOverstates ==
  \A a \in Addresses : address_state(a) = "Allowed" => is_allowed(a)

(* A block's provenance and expiry live exactly as long as the block: a     *)
(* cleared address leaves nothing that a later block could be charged to.   *)
BlockRecordsPaired ==
  \A a \in Addresses :
    LET e == entries[a] IN
    IF e.blocked THEN e.blocked_by # NoAccount
                 ELSE e.blocked_by = NoAccount /\ e.blocked_until = NoTime

(* Sweeping is bookkeeping: it may run at any time, paused or not, by any   *)
(* operator, and changes nobody's answer from is_allowed.                   *)
SweepIsBookkeeping ==
  [][\/ \A a \in Addresses : is_allowed(a)' = is_allowed(a)
     \/ ~ \E c \in Accounts, limit \in 0 .. 1 : sweep_expired(c, limit)]_vars
=============================================================================
