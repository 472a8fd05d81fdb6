\* A signed transaction sent again: its failure deletes the first one's record.
CONSTANTS
  n1 = n1
  u1 = u1
  u2 = u2
  Names = {n1}
  Users = {u1, u2}
  Named = {u1}
  FirstOwner <- OwnedByFirst
  EtchingFee <- CheapEtching
  Prices = {55000}
  Actions = {"List", "Delist", "BuyAndRelist", "BuyAndDelist"}
  Handlers = {h1, h2}
  Faults = {"resubmit"}
  Progress = {"Finalized"}
  BatchLimit = 2
  MaxTxs = 2
  MaxRecords = 3
  MaxCrashes = 0
  NoListing = NoListing
  NoRecord = NoRecord
SYMMETRY TaskSymmetry
SPECIFICATION Spec
INVARIANTS ExecutedTradesAreRecorded
CHECK_DEADLOCK FALSE
