\* A crash between the canister's answer and the write of the table.
CONSTANTS
  n1 = n1
  u1 = u1
  u2 = u2
  Names = {n1}
  Users = {u1, u2}
  Named = {u1}
  FirstOwner <- OwnedByFirst
  EtchingFee <- CheapEtching
  Prices = {55000}
  Actions = {"List", "Delist", "BuyAndRelist", "BuyAndDelist"}
  Handlers = {h1, h2}
  Faults = {"crash"}
  Progress = {"Finalized"}
  BatchLimit = 2
  MaxTxs = 2
  MaxRecords = 2
  MaxCrashes = 1
  NoListing = NoListing
  NoRecord = NoRecord
SYMMETRY TaskSymmetry
SPECIFICATION Spec
INVARIANTS OnlyListedNamesHaveRows
CHECK_DEADLOCK FALSE
