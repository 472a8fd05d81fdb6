CONSTANTS
  Users = {a1, a2}
  NoUser = nobody
  Logins = {m1, m2, m3}
  Ttl = 2
  LoginMayFail = TRUE
  MaxNow = 2

  Conns = {a1, a2}
  Public = {"new-listings"}
  MaxChanges = 6

  CheckInterval = 1
  RefreshAge = 3
  Lifetime = 12
  Latency = 2
  MaxAge = 15

  PoolNames = {a1, a2}
  NoPool = nopool
  PoolAddresses = {d1, d2}
  Asking = {m1, m2, m3}
  PoolFaults = TRUE
  MaxAsked = 4

  AdTxs = {m1, m2, m3}
  Paying = {a1, a2}
  Batch = 2
  ShoutFaults = TRUE
  MaxPaid = 4

SPECIFICATION ServicesSpec
SYMMETRY ServicesSymmetry
CHECK_DEADLOCK FALSE

INVARIANTS
  ServicesTypeOK
  ReloginInvalidates ValidAreIndexed OnlyLoginStays LogoutIsFinal OneFirstLogin
  OnlineIsExact SubscribedListens LastTotalIsCurrent
  CredentialsOutliveFailures
  PoolsAreReachable
  PaidIsPublished ConfirmedIsMined
PROPERTY StatusNeverBack
