----------------------------- MODULE PoolCache ------------------------------
(***************************************************************************)
(* get_pool of service/trading.rs: the pool address of a name, from the    *)
(* table name_pools or, for its owner, from the canister's create_pool.     *)
(* The read, the creation and the save are three steps, and requests for    *)
(* one name run at the same time.                                           *)
(***************************************************************************)
EXTENDS Integers

CONSTANTS
  PoolNames, NoPool,    \* names; null
  PoolAddresses,        \* addresses the canister may give a pool
  Asking,               \* tasks of get_pool requests
  PoolFaults,           \* may a save or a reply be lost, or the server stop?
  MaxAsked              \* bound: requests

ASSUME PoolAssumption ==
  /\ NoPool \notin PoolNames \cup PoolAddresses
  /\ PoolFaults \in BOOLEAN /\ MaxAsked \in Nat

VARIABLES
  pools,                \* the pools of the canister
  namePools,            \* table name_pools
  ask,                  \* where each request stands, and its locals
  refused,              \* names a request was told PoolAlreadyExists for
  asked,                \* requests so far, for the bound
  orphaned              \* history: names whose new pool a fault kept from the table

poolVars == <<pools, namePools, ask, refused, asked, orphaned>>

AskSteps == {"idle", "verify", "create", "save"}
NotAsking == [at |-> "idle", name |-> NoPool, address |-> NoPool]

PoolTypeOK ==
  /\ pools \in [PoolNames -> PoolAddresses \cup {NoPool}]
  /\ namePools \in [PoolNames -> PoolAddresses \cup {NoPool}]
  /\ ask \in [Asking -> [at : AskSteps, name : PoolNames \cup {NoPool},
                         address : PoolAddresses \cup {NoPool}]]
  /\ \A a \in Asking : ask[a].at # "idle" => ask[a].name \in PoolNames
  /\ refused \subseteq PoolNames /\ asked \in 0 .. MaxAsked
  /\ orphaned \subseteq PoolNames

PoolInit ==
  /\ pools = [n \in PoolNames |-> NoPool]
  /\ namePools = [n \in PoolNames |-> NoPool]
  /\ ask = [a \in Asking |-> NotAsking]
  /\ refused = {} /\ asked = 0 /\ orphaned = {}

Ends(a) == ask' = [ask EXCEPT ![a] = NotAsking]

\* get_pool_address: a known pool is given to anybody.
AskPool(a, n) ==
  /\ ask[a].at = "idle"
  /\ asked < MaxAsked
  /\ asked' = asked + 1
  /\ ask' = IF namePools[n] # NoPool THEN ask
            ELSE [ask EXCEPT ![a] = [at |-> "verify", name |-> n, address |-> NoPool]]
  /\ UNCHANGED <<pools, namePools, refused, orphaned>>

\* verify_name_ownership: the name exists, is the caller's and is confirmed;
\* otherwise, or if the indexer does not answer, the request fails.
VerifyOwner(a) ==
  /\ ask[a].at = "verify"
  /\ ask' = [ask EXCEPT ![a].at = "create"] \/ Ends(a)
  /\ UNCHANGED <<pools, namePools, refused, asked, orphaned>>

\* create_pool: a new pool; or "already exists"; or a call that failed, before or
\* after the canister created the pool.
CreatePool(a) ==
  LET n == ask[a].name IN
    /\ ask[a].at = "create"
    /\ \/ /\ pools[n] # NoPool
          /\ refused' = refused \cup {n}
          /\ Ends(a)
          /\ UNCHANGED <<pools, orphaned>>
       \/ /\ pools[n] = NoPool
          /\ \E address \in PoolAddresses :
               /\ pools' = [pools EXCEPT ![n] = address]
               /\ \/ /\ ask' = [ask EXCEPT ![a].at = "save", ![a].address = address]
                     /\ UNCHANGED orphaned
                  \/ PoolFaults /\ Ends(a) /\ orphaned' = orphaned \cup {n}
          /\ UNCHANGED refused
       \/ PoolFaults /\ Ends(a) /\ UNCHANGED <<pools, refused, orphaned>>
    /\ UNCHANGED <<namePools, asked>>

\* Mutant of SavePool: nothing is saved.
SavePoolNot(a) ==
  /\ ask[a].at = "save"
  /\ Ends(a)
  /\ UNCHANGED <<pools, namePools, refused, asked, orphaned>>

\* save_pool_address: an upsert whose failure is only logged; then the answer.
SavePool(a) ==
  LET n == ask[a].name IN
    /\ ask[a].at = "save"
    /\ \/ /\ namePools' = [namePools EXCEPT ![n] = ask[a].address]
          /\ UNCHANGED orphaned
       \/ PoolFaults /\ orphaned' = orphaned \cup {n} /\ UNCHANGED namePools
    /\ Ends(a)
    /\ UNCHANGED <<pools, refused, asked>>

\* The server stops and starts again.
PoolCrash ==
  /\ PoolFaults
  /\ \E a \in Asking : ask[a].at # "idle"
  /\ ask' = [a \in Asking |-> NotAsking]
  /\ orphaned' = orphaned \cup {ask[a].name : a \in {b \in Asking : ask[b].at = "save"}}
  /\ UNCHANGED <<pools, namePools, refused, asked>>

PoolNext ==
  \/ \E a \in Asking, n \in PoolNames : AskPool(a, n)
  \/ \E a \in Asking : VerifyOwner(a) \/ CreatePool(a) \/ SavePool(a)
  \/ PoolCrash

PoolSpec == PoolInit /\ [][PoolNext]_poolVars

-----------------------------------------------------------------------------
\* No request for a name is refused for good: its pool is in the table, or about
\* to be put there by the one request that created it, unless a fault came between
\* the canister and the table (trading.rs:99-120; the canister is not asked for
\* the address of a pool it has).
PoolsAreReachable ==
  \A n \in PoolNames \ orphaned :
    pools[n] # NoPool \/ n \in refused =>
      \/ namePools[n] = pools[n]
      \/ \E a \in Asking : ask[a] = [at |-> "save", name |-> n, address |-> pools[n]]
=============================================================================
