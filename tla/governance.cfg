SPECIFICATION GovernanceSpec
CONSTANTS
  Signers = {a, b}
  Admin = a
  Weights = {1}
  Thresholds = {2}
  MaxWeight = 3
  MaxTime = 3
  RotationCooldown = 1
  MinTimelockDelay = 1
  MaxTimelockDelay = 2
  SignerChangeDelay = 1
  QueuedWeights = {0}
  QueuedThresholds = {1}
  QueuedDelays = {0, 2}
  Nominees = {}
  HandoverPeriods = {1}
  MaxRotations = 1
  MaxChanges = 2
INVARIANTS
  GovernanceTypeOK
  UnlistedComesFromRotation
PROPERTIES
  ChangesWaited
  ProposalsApplyOnce
