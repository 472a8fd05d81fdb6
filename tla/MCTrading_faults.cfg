\* Rejections and crashes, under fairness.
CONSTANTS
  n1 = n1
  u1 = u1
  u2 = u2
  Names = {n1}
  Users = {u1, u2}
  Named = {u1}
  FirstOwner <- OwnedByFirst
  EtchingFee <- CheapEtching
  Prices = {55000}
  Actions = {"List", "BuyAndRelist", "BuyAndDelist"}
  Handlers = {h1, h2}
  Faults = {"reject", "crash"}
  Progress = {"Finalized", "Confirmed"}
  BatchLimit = 2
  MaxTxs = 2
  MaxRecords = 2
  MaxCrashes = 1
  NoListing = NoListing
  NoRecord = NoRecord
SPECIFICATION FairSpec
INVARIANTS ExecutedTradesAreRecorded StatusesCatchUp
PROPERTIES FinalityReachesHistory
CHECK_DEADLOCK FALSE
