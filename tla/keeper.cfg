\* One template, two invoices, a keeper and an expiry job over three instants.
CONSTANTS
  Merchants = {m}
  Payers = {p}
  FirstAdmin = adm
  Nominees = {adm}
  Tokens = {None}
  None = None
  Prices <- MCPrices
  Lifetimes = {1}
  Nonces = {}
  GraceWindows = {1}
  RefundWindows = {}
  NetworkFees = {}
  FeeBps = {}
  REFUND_NETWORK_FEE = 1
  BPS_DENOMINATOR = 4
  MAX_PAYER_INDEX_ENTRIES = 1
  MAX_BATCH_SIZE = 1
  MAX_BATCH_EXPIRE = 1
  MaxInvoices = 2
  MaxTransitions = 1
  MaxFunds = 0
  MaxTime = 3
  MaxExpiry = 3
  Periods = {1}
  MaxTemplates = 1
SPECIFICATION TemplateSpec
INVARIANTS
  PeriodInvoicedOnce
PROPERTIES
  DueTemplatesAreInvoiced
  OverdueInvoicesExpire
