\* Approvals, revocations, signer changes and payouts; no disputes, no time.
CONSTANTS
  Signers = {a, b}
  Admin = a
  Weights = {1}
  Thresholds = {1, 2}
  MaxWeight = 4
  MaxTime = 1
  MaxSettlements = 2
  MAX_MERCHANT_SETTLEMENTS = 1
  Merchants = {m}
  Tokens = {t}
  TokenAllowlist = {t}
  Funds = 3
  Amounts = {2}
  Deadlines = {0}
  HoldExpiries <- MCNever
  HoldReasons = {}
  ExpiryWindows = {0}
  TierLimit = 2
  MaxDisputes = 0
  DisputeAmounts = {}
  DisputeExpiries = {}
  Bps = {}
SPECIFICATION Spec
INVARIANTS
  TypeOK
  PaidMatchesStatus
  FundsAccounted
  PendingAlwaysIndexed
  MerchantIndexIsLatest
  WeightCountsSigners
PROPERTIES
  SettledStaysSettled
  QuorumOfDistinctSigners
  PauseFreezesCallers
  ImplementsLifecycle
