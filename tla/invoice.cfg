\* Two invoices of one merchant from creation to refund, two instants.
CONSTANTS
  Merchants = {m}
  Payers = {p}
  FirstAdmin = adm
  Nominees = {}
  Tokens = {t}
  None = None
  Prices <- MCPrices
  Lifetimes = {1}
  Nonces = {1}
  GraceWindows = {}
  RefundWindows = {1}
  NetworkFees = {9}
  FeeBps = {3}
  REFUND_NETWORK_FEE = 1
  BPS_DENOMINATOR = 4
  MAX_PAYER_INDEX_ENTRIES = 1
  MAX_BATCH_SIZE = 2
  MAX_BATCH_EXPIRE = 1
  MaxInvoices = 2
  MaxTransitions = 5
  MaxFunds = 7
  MaxTime = 2
  MaxExpiry = 3
SPECIFICATION InvoiceSpec
INVARIANTS
  InvoiceTypeOK
  ListingsAgree
  HistoryReplays
  RefundsReconcile
PROPERTIES
  TerminalIsFinal
