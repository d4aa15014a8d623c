\* One settlement under holds and expiry, with two disputes that two signers
\* vote on while the registry changes.
CONSTANTS
  Signers = {a, b}
  Admin = a
  Weights = {1}
  Thresholds = {2}
  MaxWeight = 4
  MaxTime = 2
  MaxSettlements = 1
  MAX_MERCHANT_SETTLEMENTS = 1
  Merchants = {m}
  Tokens = {t}
  TokenAllowlist = {}
  Funds = 6
  Amounts = {1}
  Deadlines = {0}
  HoldExpiries <- MCNeverOrTwo
  HoldReasons = {AdminHold}
  ExpiryWindows = {1}
  TierLimit = 2
  MaxDisputes = 2
  DisputeAmounts = {3}
  DisputeExpiries = {2}
  Bps = {3333, 10001}
SPECIFICATION Spec
INVARIANTS
  FundsAccounted
  PendingHasNoHoldReason
  WeightCountsSigners
PROPERTIES
  HoldEndsWithLastDispute
  LastDisputeLiftsHold
  ImplementsLifecycle
  VotesDecide
