\* Everything goes wrong.
CONSTANTS
  n1 = n1
  u1 = u1
  u2 = u2
  Names = {n1}
  Users = {u1, u2}
  Named = {u1}
  FirstOwner <- OwnedByFirst
  EtchingFee <- CheapEtching
  Prices = {55000}
  Actions = {"List", "Delist", "BuyAndRelist", "BuyAndDelist", "Relist"}
  Handlers = {h1, h2}
  Faults = {"reject", "crash", "lostReply", "outage", "resubmit"}
  Progress = {"Finalized"}
  BatchLimit = 2
  MaxTxs = 2
  MaxRecords = 2
  MaxCrashes = 1
  NoListing = NoListing
  NoRecord = NoRecord
SYMMETRY TaskSymmetry
SPECIFICATION Spec
INVARIANTS OnlyExecutedTradesShow
PROPERTIES StatusesDelivered
CHECK_DEADLOCK FALSE
