\* A price change racing a purchase.
CONSTANTS
  n1 = n1
  u1 = u1
  u2 = u2
  Names = {n1}
  Users = {u1, u2}
  Named = {u1}
  FirstOwner <- OwnedByFirst
  EtchingFee <- CheapEtching
  Prices = {55000}
  Actions = {"List", "Relist", "BuyAndRelist"}
  Handlers = {h1, h2}
  Faults = {}
  Progress = {"Finalized"}
  BatchLimit = 2
  MaxTxs = 2
  MaxRecords = 3
  MaxCrashes = 0
  NoListing = NoListing
  NoRecord = NoRecord
SYMMETRY TaskSymmetry
SPECIFICATION Spec
PROPERTIES RelistsOwnListing
CHECK_DEADLOCK FALSE
