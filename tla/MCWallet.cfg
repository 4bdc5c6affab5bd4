CONSTANTS
  a = a
  b = b
  Users = {a, b}
  Requests = {r1, r2}
  NoRequest = NoRequest
  NoUser = NoUser
  Opening <- Uneven
  MinAmount = 2
  MaxAmount = 2
  MaxTokens = 2
  Reader = a
  PerPage = 4
  PageKeys = {1, 2, 3}
SPECIFICATION SiteSpec
SYMMETRY Symmetry
INVARIANTS TypeOK OneTransferPerKey TruthfulAnswer Books IntentPaidOnce BalanceExplained
PROPERTY ImplementsLedger
