\* Prices on both sides of the bounds a name meets in two purchases, etching
\* fees below and above both caps, points just below the first level and in
\* the last one.  Rankings of one and two entries, a channel of two events.
CONSTANTS
  Users = {u1, u2}
  Fees = {500, 7000, 90000}
  Prices = {54999, 55000, 69300, 69301, 87318, 126000}
  InitialPoints = {49500, 500000000}
  MaxPurchases = 2

  FeedNames = {1, 2}
  NoItem = noitem
  Requests = {q1}
  Deals <- ChangingDeals
  Keep = 1
  Capacity = 2
  MaxJobs = 3
  MaxFailing = 1

  SaleNames = {n1, n2}
  Sellers = {s1}
  Limit = 2
  MaxSales = 3
  MaxBuying = 2
  MaxRestarts = 1
  MaxFaulty = 1

SPECIFICATION RankingsSpec
SYMMETRY SoldNames
CHECK_DEADLOCK FALSE

INVARIANTS
  RankingsTypeOK
  PriceCeiling AlwaysSellable FeeShare
  EntriesMatchListings NewestAreKept FeedIsTrue FeedIsWhole
  CountsAreExact RecentSalesShown
