SPECIFICATION WorkflowSpec
CONSTANTS
  m = m
  n = n
  other = other
  Callers = {k, l}
  Deployer = k
  Merchants = {m, n}
  SettlementIds = {1, 2}
  MerchantOf <- MCMerchantOf
  AmountOf <- MCAmountOf
  IdLists <- MCIdLists
  Targets = {trs, other}
  Treasury = trs
  Workflow = wfl
  TargetLists <- MCTargetLists
  MAX_PAUSE_TARGETS = 2
  MinDelays = {0, 2}
  Funds = 3
  MaxTime = 3
PROPERTY
  ResumeSparesOthers
