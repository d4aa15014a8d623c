SPECIFICATION CustodySpec
CONSTANTS
  Signers = {a}
  Admin = a
  Weights = {1}
  Thresholds = {1}
  MaxWeight = 2
  MaxTime = 3
  RotationCooldown = 1
  MinTimelockDelay = 1
  MaxTimelockDelay = 2
  SignerChangeDelay = 1
  QueuedWeights = {}
  QueuedThresholds = {}
  QueuedDelays = {}
  Nominees = {m}
  HandoverPeriods = {1}
  MaxRotations = 0
  MaxChanges = 0
  Tokens = {t}
  Addresses = {x, y}
  DepositLists <- MCDepositLists
  WithdrawAmounts = {0, 1}
  PayoutAmounts = {1}
  InitialPools = {0}
  Limits = {2}
  Windows = {2}
  References = {r}
  NoReference = NoReference
  ReferenceTTL = 1
  MAX_ALLOWED_TOKENS = 1
  MaxDeposited = 2
INVARIANTS
  BooksAgree
  WithdrawalsBounded
PROPERTIES
  DelistingHidesNothing
SYMMETRY MCSymmetry
