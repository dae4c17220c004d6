SPECIFICATION DelayedSpec
CONSTANTS
  Addresses = {"ann", "bob", "cat"}
  AddressZero = "zero"
  Wallet = "wallet"
  Calls <- Menu
  MaxOwnerCount = 3
  MaxTransactions = 2
  MaxDepth = 2
  InitialOwners <- TwoOwners
  InitialRequired = 2
  InitialTimeLock = 2
  InitialInstantData <- InstantReplacement
  NoSelector = "short"
  MaxTime = 3
CHECK_DEADLOCK FALSE
PROPERTIES
  LockServed
