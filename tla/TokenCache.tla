----------------------------- MODULE TokenCache -----------------------------
(***************************************************************************)
(* The IAM token with which every Redis connection authenticates           *)
(* (infra/redis.rs).  A loop wakes up every 10 seconds and, when the token  *)
(* is old enough, asks the metadata server for another; connections refuse  *)
(* a token past its lifetime.  Time is counted in Ticks of 10 seconds.      *)
(***************************************************************************)
EXTENDS Integers

CONSTANTS
  CheckInterval,        \* CHECK_TOKEN_EXPIRY_INTERVAL
  RefreshAge,           \* TOKEN_REFRESH_DURATION
  Lifetime,             \* TOKEN_LIFETIME
  Latency,              \* how long retrieve_token takes at most: the HTTP client
                        \* has no timeout, so this is the network's to keep
  MaxAge                \* bound: age of the token

ASSUME TokenAssumption ==
  /\ CheckInterval \in Nat \ {0} /\ RefreshAge \in Nat \ {0}
  /\ Lifetime \in Nat /\ Latency \in Nat /\ MaxAge \in Nat

VARIABLES
  age,                  \* last_refresh_instant.elapsed()
  loop,                 \* what refresh_token_loop awaits: a sleep or a token
  waited,               \* for how long
  failures              \* refreshes failed since the last that did not

tokenVars == <<age, loop, waited, failures>>

TokenTypeOK ==
  /\ age \in Nat /\ failures \in Nat
  /\ \/ loop = "sleep" /\ waited \in 0 .. CheckInterval
     \/ loop = "retrieve" /\ waited \in 0 .. Latency

\* The first token is retrieved before the loop starts.
TokenInit == age = 0 /\ loop = "sleep" /\ waited = 0 /\ failures = 0

Elapse ==
  /\ age < MaxAge
  /\ waited < IF loop = "sleep" THEN CheckInterval ELSE Latency
  /\ age' = age + 1
  /\ waited' = waited + 1
  /\ UNCHANGED <<loop, failures>>

\* Mutant of WakeUp: the token is refreshed when it has expired.
WakeUpLate ==
  /\ loop = "sleep" /\ waited = CheckInterval
  /\ loop' = IF age >= Lifetime THEN "retrieve" ELSE "sleep"
  /\ waited' = 0
  /\ UNCHANGED <<age, failures>>

WakeUp ==
  /\ loop = "sleep" /\ waited = CheckInterval
  /\ loop' = IF age >= RefreshAge THEN "retrieve" ELSE "sleep"
  /\ waited' = 0
  /\ UNCHANGED <<age, failures>>

\* The new token's age counts from its arrival.
Refreshed ==
  /\ loop = "retrieve"
  /\ age' = 0 /\ failures' = 0
  /\ loop' = "sleep" /\ waited' = 0

\* Mutant of RefreshFailed: the sleep counts from the last one.
RefreshFailedKeepsTime ==
  /\ loop = "retrieve"
  /\ failures' = failures + 1
  /\ loop' = "sleep"
  /\ UNCHANGED <<age, waited>>

\* The error is noted, and the loop sleeps as long as ever.
RefreshFailed ==
  /\ loop = "retrieve"
  /\ failures' = failures + 1
  /\ loop' = "sleep" /\ waited' = 0
  /\ UNCHANGED age

TokenNext == Elapse \/ WakeUp \/ Refreshed \/ RefreshFailed

TokenSpec == TokenInit /\ [][TokenNext]_tokenVars

-----------------------------------------------------------------------------
\* retrieve_credentials hands the token out.
CredentialsAvailable == age < Lifetime

\* Connections find credentials until so many refreshes have failed in a row that
\* their cycles fill the time between the refresh age and the lifetime: 164
\* failures, at a latency of 10 seconds (redis.rs:21-28, 350-386, 426).
CredentialsOutliveFailures ==
  ~ CredentialsAvailable =>
    RefreshAge + (failures + 1) * (CheckInterval + Latency) > Lifetime
=============================================================================
