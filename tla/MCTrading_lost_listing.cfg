\* A name listed again while its delisting is executed and not yet applied.
CONSTANTS
  n1 = n1
  u1 = u1
  u2 = u2
  Names = {n1}
  Users = {u1, u2}
  Named = {u1}
  FirstOwner <- OwnedByFirst
  EtchingFee <- CheapEtching
  Prices = {55000}
  Actions = {"List", "Delist", "BuyAndRelist", "BuyAndDelist"}
  Handlers = {h1, h2}
  Faults = {}
  Progress = {"Finalized"}
  BatchLimit = 2
  MaxTxs = 3
  MaxRecords = 3
  MaxCrashes = 0
  NoListing = NoListing
  NoRecord = NoRecord
SYMMETRY TaskSymmetry
SPECIFICATION Spec
INVARIANTS OffersAreShown
CHECK_DEADLOCK FALSE
