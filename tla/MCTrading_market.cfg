\* No faults, but clients may send a signed transaction again.
CONSTANTS
  n1 = n1
  u1 = u1
  u2 = u2
  Names = {n1}
  Users = {u1, u2}
  Named = {u1}
  FirstOwner <- OwnedByFirst
  EtchingFee <- CheapEtching
  Prices = {55000, 69300}
  Actions = {"List", "Delist", "BuyAndRelist", "BuyAndDelist"}
  Handlers = {h1, h2}
  Faults = {"resubmit"}
  Progress = {}
  BatchLimit = 2
  MaxTxs = 3
  MaxRecords = 3
  MaxCrashes = 0
  NoListing = NoListing
  NoRecord = NoRecord
SYMMETRY TaskSymmetry
SPECIFICATION Spec
INVARIANTS TypeOK RowsFollowCanister NoOrphanRecords PricesFollowCanister
PROPERTIES ImplementsMarket
CHECK_DEADLOCK FALSE
