\* Two screened addresses, an admin and an operator, two instants.
CONSTANTS
  Addresses = {x, y}
  Accounts = {adm, op}
  FirstAdmin = adm
  Nominees = {op}
  OperatorKeys = {op}
  Expiries = {2}
  MAX_TRACKED_ADDRESSES = 2
  ADDR_INDEX_PAGE_SIZE = 1
  MAX_OPERATORS = 1
  BULK_OP_COOLDOWN_SECS = 1
  MaxTime = 2
SYMMETRY MCSymmetry
SPECIFICATION Spec
INVARIANTS
  IndexListsEveryTouchedAddress
  StateNeverOverstates
  BlockRecordsPaired
PROPERTIES
  SweepIsBookkeeping
