SPECIFICATION Spec
CHECK_DEADLOCK FALSE
CONSTANTS
  Owners = {"alice", "bob", "carol"}
  Contracts = {"callee", "trader", "expiry"}
  Mapped <- NoOrders
  Expiry = "expiry"
  Spread = 1
  ExpiryRampTime = 2
  PremiumBase = 20
  Places = 10
  Networks = {1, 2}
  Proxy <- MCProxy
  Wallet <- MCWallet
  LocalOperators <- MCLocalOperators
  GlobalOperators = {"bob"}
  SpecialTraders = {"trader"}
  Relayers = {"bob"}
  Offers <- MCOffers
  Methods = {"Compatibility"}
  OwnItems <- MCOwnItems
  FirstNetwork = 1
  MaxTime = 2
  MaxSigned = 2
  MaxActions = 2
  MaxPending = 2
INVARIANTS
  ValidMeansAccepted
  CancelsWhatWasSigned
  SignaturesVerify
PROPERTIES
  RunsAtMostOnce
  OnlyAuthorizedRuns
