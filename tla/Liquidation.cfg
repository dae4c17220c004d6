SPECIFICATION ExpirySpec
CONSTANTS
  Base = 10
  Max128 = 8
  Max96 = 1000
  Addresses <- DueAddresses
  Accounts <- AllAccounts
  Markets <- MCMarkets
  MarginRatio = 3
  MinBorrowedValue = 20
  MarginPremium <- None
  Self = "self"
  Owner <- AllOwners
  GlobalOperators <- DueOperators
  SpecialTraders <- ExpiryOnly
  Token <- MCToken
  Recyclable = {}
  LiquidationSpread = 2
  SpreadPremium <- None
  EarningsRate = 9
  Requests <- DueRequests
  Grants = {}
  ExternalAmounts = {0}
  OutputAmounts <- WeiAnswers
  ExpiryAddress = "expiry"
  ExpiryCalls <- DueCalls
  Approvals <- KeeperByOne
  MaxExpiries = {1, 2}
  RampTimes = {0, 2}
  Max32 = 2
  Prices <- CrashPrices
  Rates = {3}
  Closable = {}
  WeiCaps = {}
  MarketMaxima = {2}
  Gifted = {}
  TokenSupply <- DueTokens
  InitialVault <- OneExcess
  MaxTime = 2
  OperationSlack = 2
  AccrualSlack = 1
INVARIANTS
  VaporOwesOnly
PROPERTIES
  AccrualCovered
  OnlyDueChanges
  ExcessNotOverspent
  CloseOutTowardsZero
  ExpiryClearedWithDebt
  CloseOutFair
