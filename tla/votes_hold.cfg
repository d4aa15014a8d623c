\* The only dispute on a settlement, decided by its signer's vote.
CONSTANTS
  Signers = {a}
  Admin = a
  Weights = {1}
  Thresholds = {1}
  MaxWeight = 4
  MaxTime = 3
  MaxSettlements = 1
  MAX_MERCHANT_SETTLEMENTS = 1
  Merchants = {m}
  Tokens = {t}
  TokenAllowlist = {}
  Funds = 6
  Amounts = {2}
  Deadlines = {2}
  HoldExpiries <- MCNeverOrTwo
  HoldReasons = {AdminHold}
  ExpiryWindows = {1}
  TierLimit = 2
  MaxDisputes = 1
  DisputeAmounts = {3}
  DisputeExpiries = {2}
  Bps = {3333, 10001}
SPECIFICATION Spec
PROPERTY
  VotesLiftHold
