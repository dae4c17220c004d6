SPECIFICATION Spec
CONSTANTS
  Addresses = {"ann", "bob", "cat"}
  AddressZero = "zero"
  Wallet = "wallet"
  Calls <- Menu
  MaxOwnerCount = 3
  MaxTransactions = 3
  MaxDepth = 2
  InitialOwners <- TwoOwners
  InitialRequired = 2
CHECK_DEADLOCK FALSE
INVARIANTS
  OwnersAgree
  RunsOnce
  QuorumBehind
