# A verification project for bns-server

bns-server is the HTTP and WebSocket server of a marketplace for Bitcoin names
(Runes). It keeps a table of listings and a trade history in PostgreSQL,
rankings and sessions in Redis, and has trades executed by a canister on the
Internet Computer (the BNS canister, reached through an orchestrator), whose
event log it polls. These TLA+ modules model its trading core, the rankings with
the clients that follow them, and the services around the market; TLC checks
them on small instances and TLAPS proves for instances of every size what the runs
show, except liveness and two collections of types.

Paths below are relative to the repository: `src/service/trading.rs` is meant by
`trading.rs`, and so on.

## The system

| Component | State | Operations | Talks to |
|---|---|---|---|
| Trade requests (`trading.rs`) | none of its own; locals across awaits | list, delist, relist, buy_and_relist, buy_and_delist, get_pool | PostgreSQL, ord indexer, canister (invoke, relist_name), event service (handle_pending) |
| Event service (`event.rs`) | offset in memory and in `system_state` | polling_loop, handle_pending, handle_status_change, handle_rejected | canister (get_events), PostgreSQL, Redis, broadcast channel |
| Tables (`postgres.rs`, `schema.sql`) | listings, trade_history, system_state, nft_points, name_pools, users, stars, shout_outs, metadata | single statements, no transactions | - |
| Rankings (`redis.rs`) | six sorted sets of at most 20, with metadata keys | add/remove/trim, one command at a time | - |
| Startup (`main.rs`) | none | rebuilds the rankings, starts the poller | PostgreSQL, Redis |
| Sessions (`auth.rs`, `redis.rs`) | session keys, a set of sessions per user | authenticate, validate, logout | Redis, PostgreSQL |
| WebSocket hub (`ws.rs`, `state.rs`) | broadcast channel (256), online counter, one listener per connection | subscribe, unsubscribe, snapshot, deltas | all services |
| Shout outs (`shout_out.rs`) | shout_outs rows | shout_out, polling_loop | Bitcoin node, PostgreSQL |
| Redis token cache (`redis.rs`) | token and its age | refresh loop, readers | GCP metadata server |
| Stars, users, names, marketing | single rows | single statements, reads | PostgreSQL, ord indexer |

What is hard here:

* a trade touches four stores that share no transaction: a record is inserted,
  the canister is called, the row is written, the rankings are written, each in
  an await of its own, in a task per request;
* the listing is read before those awaits and used after them;
* the canister's later verdict arrives by polling, at least once, and may undo a
  trade that has long been shown;
* a crash stops every task between two awaits; only the poller's work is
  repeated, from the stored offset;
* prices are checked against prices that earlier trades wrote, including trades
  that never took place;
* a ranking entry and its metadata are two keys, a change of a ranking and its
  broadcast two steps, a snapshot as many reads as it has names;
* the rankings of sales are kept up to date one way and rebuilt another;
* logins of one user, connections and requests for one pool share keys, a
  counter and a table without a lock.

## Modules

| Module | What it is | Code |
|---|---|---|
| `EventDelivery` | what the poller promises: events handled in order, none passed over, repetition only of what was handled; `EventPoller` implements it, and so does `Trading` | - |
| `EventPoller` | the poller: load, sleep, fetch a batch, handle, store the offset, crash | `event.rs` 60-133, `postgres.rs` 354-376 |
| `EventPollerProofs` | its theorems | |
| `PriceRules` | the arithmetic of prices, fees and levels | `trading.rs` 889-953, `event.rs` 782-834 |
| `PriceLadder` | one name's price from owner to owner | `trading.rs`, `event.rs` |
| `Canister` | what the server relies on of the canister, Bitcoin and the indexer (external) | `canister.rs`, `bns_canister.rs` |
| `Trading` | the handlers, handle_pending, the status changes and rollbacks, crash and restart; composes `EventPoller`, `Canister` and `PriceRules` | `trading.rs`, `event.rs`, `postgres.rs`, `main.rs` |
| `CanisterProofs` | lemmas about the canister's steps | |
| `TradingProofs` | the theorems about `Trading`: its types and the invariant the others build on | |
| `RecordProofs` | those about its trade history, what rows and credits show, and its poller | |
| `Market` | what the marketplace promises as long as nothing fails: deals on a name one after the other, by those who may make them, on the offers that are shown, each shown later but for one kind; `Trading` implements it | - |
| `MarketProofs` | the theorems about `Trading`'s table and rankings against the canister, and about `Market` | |
| `RankFeed` | the listing rankings, one Redis command per step, their broadcasts, and a client that reads a snapshot and applies the changes | `redis.rs` 474-697, `event.rs` 257-338, 531-562, 707-780, `rankings.rs`, `ws.rs` 154-169, 255-468 |
| `RankingProofs` | its theorems, and the types of `MCRankings` | |
| `SaleRankings` | the rankings of sales, at run time and rebuilt | `event.rs` 629-704, `main.rs` 188-391, `postgres.rs` 511-548 |
| `SaleProofs` | the theorems about `PriceLadder` and `SaleRankings` | |
| `Sessions` | logins, sessions, logout | `auth.rs`, `redis.rs` 797-855 |
| `WsHub` | connections, subscriptions, listeners, the online counter | `ws.rs` |
| `TokenCache` | the loop that refreshes the Redis credentials | `redis.rs` 21-28, 349-465 |
| `PoolCache` | get_pool | `trading.rs` 78-125 |
| `ShoutOuts` | paid advertisements and the loop that confirms them | `shout_out.rs`, `postgres.rs` 707-751 |
| `ServiceProofs` | the theorems of the last five, and the types of `MCServices` | |
| `MCEventPoller`, `MCTrading`, `MCRankings`, `MCServices` | instances for TLC | |

### EventPoller

`dbOffset` is the row of `system_state`; `memOffset` is `last_event_offset`;
`cursor` and `batchEnd` are the progress of the for loop of `poll_once`;
`phase` says where the task stands ("down", "sleeping", "handling", "saving").
`Start` loads the offset, or takes 0 when the load fails (`LoadMayFail`).
`Fetch` gets up to `BatchLimit` events from `memOffset` on; a failed or empty
poll changes nothing and is a stutter. `HandleNext` handles one event,
`FinishBatch` moves the offset in memory, `SaveOffset` and `SaveFails` are the
two outcomes of `set_event_offset`. `Crash` loses all but `dbOffset`. `delivered`
is a history variable: the positions handled so far.

### Trading

* One `Handlers` element is a request task; `pc` says between which awaits it
  stands, `job` is its local `trade_record`.
* The reads before the first write, which change nothing, are one step
  (`Validate`, `RelistRead`): the listing, the last record, the price and the
  indexer are read, the request is validated and the record is built. A refused
  request is no step. Nothing keeps requests apart (`MayRequest`): any user may
  have any number under way, on one name or with one transaction too, as far as
  there are tasks. From there on one step per await: `AddRecord`, `Invoke`,
  `DeleteRecord`; for relist `RelistCall`, `RelistRecord`, `RelistPrice`,
  `RelistRank`.
* `handle_pending` is two steps, the row with the sale rankings (which are
  computed from the row read just before) and the listing rankings with the
  points. The order between them is the code's.
* A signed transaction is a `Psbt` record: who trades which name, the outpoint
  of input 0 (named by the transaction that created it), what is paid and what
  is asked. Users sign any transaction; the validators and the canister sort them out.
* PostgreSQL: `Inserted` honours the primary key and the UNIQUE tx_id,
  `WithoutTx` and `WithStatus` act on every record with the tx_id as the
  statements do, `Outcomes` lets a statement fail when "outage" is among the faults.
* `newListings` and `bestDeals` are the entries of the two listing rankings
  (not their trimming to 20), `sales` the trades counted in the four sale
  rankings, `credited` the trades whose fee was added to the seller's points.
* The poller is `Poller!...`; only the handling of an event is refined into
  `PollStatus`, `PollRejected`, `RollbackListing`, `RollbackRankings`. Events
  other than status changes only advance the offset in the code and are left out.
* `Faults` chooses what can go wrong (see the module); `Progress` which status
  changes the canister reports.
* A Redis failure is not modelled apart: the code logs it and goes on.

### Canister (assumptions about what is not in the repository)

`chain[n]` is the list of a name's executed trades and `log` the published
events. The canister executes an action only if it spends the outpoint of the
name's current state, which is the owner's for a listing and the pool's for the
others (what Bitcoin imposes; prices and fees are left to the server, the weaker
assumption); it publishes Pending then; later publishes Finalized or
Confirmed, or rejects a trade that is not settled together with those built on
it. `relist_name` sets the price of whatever listing the name has: its
arguments are the name and the price (`canister.rs` 182-198).
`OrdEntry` is what the indexer shows: the confirmed holder of a name.

### PriceLadder

One name, one request at a time. `List` and `Relist` are checked against
`BasePrice`, the last purchase record or the etching fee; when the query for the
former fails, against the latter, and a price change falls back on the price it
replaces (`unwrap_or`). A resale is checked against the price paid and records
the price asked. `AbandonPurchase` is a crash between `add_trade_record` and
`invoke`: the record stays. `RejectPurchase` restores the sale and leaves record
and points. `reliable` is a history variable that names the last two and failed
queries.

### RankFeed

The two listing rankings have keys and channels of their own, so one of them,
`ranking`, is followed. `zset` and `meta` are `rank:{ranking}` and the metadata
keys; `listing` is the table as far as a ranking shows it (`listed_at` and the
discount). A job (`ListName`, `DropName`, `Resell`, `RelistName` in a request's
task, the rollbacks of them in the poller's) changes the row and leaves the
commands that `event.rs` then runs in `task[p].todo`: `Add` is ZADD, SET, for
new-listings ZCARD and ZREMRANGEBYRANK, and the broadcast; `Rem` is ZREM, DEL and
the broadcast. Every command is a step, so jobs of different tasks interleave.
`FailCommand` leaves out the rest of a function, as `?` does, but not the
broadcast, which `event.rs` sends whatever became of it. `reader` is one client:
`Listen` subscribes it, `ReadNames` and `ReadItem` are the snapshot,
`Send` puts an event into the bounded channel and drops the oldest when it is
full, `Forward` is the listener, `Update` is the client, which applies one event
after the other. `reader.fetch` is what is left to read of a snapshot: the
first twenty entries, with the scores they had, read in their order. What the
client does with an event is not in `src/`'s code; it is that of API.md
1314-1320, with one change: the client subscribes first (see the findings).
`sloppy` is a history: names whose jobs overlapped or had a failed command
(`raced`, `failed`), names whose last broadcast belongs to the undoing of a
resale (`undone`), names added while a newer listing stood (`late`), and whether
entries were trimmed.

### SaleRankings

`trades` is trade_history's purchases and `byTime` their order by updated_at;
`recent`, `most` and `earners` are the three rankings. A purchase's task goes
through `Record`, `Invoke` (accepted, or refused and its record deleted),
`CountSales`, `AddRecent`, `AddMost`, `SumEarner`, `AddEarner`, an await each; any
of them can fail (`Fails`). `SetStatus` is the poller's. `Restart` loses the
tasks and computes the rankings with the queries of `main.rs`: rows that count by
their status, ordered, limited, grouped. `blurred` names what overlapped or
failed, `rebuilt` the names whose recent sale comes from a rebuild. Prices are
left out, and with them top-sales, which is recent-sales with another score.

### Sessions

A login stands for the session it creates. `login[l]` is its task: SELECT and
INSERT of the user, SMEMBERS, one DEL per session found, DEL of the set, SET EX,
SADD, EXPIRE, each a step. `keys`, `index` and `indexUntil` are what Redis
holds; `Tick` lets it expire. A session has two ends, that of the key's TTL and
that of its own `expires_at`, which differ if time passes before it is stored.
`AbandonLogin` is any failure and any stop of the server; a failed DEL of a
session is ignored by the code (`redis.rs` 844) and is a choice of
`DeleteSession`. `raced` and `spared` name the logins that overlapped and the
sessions such a DEL left.

### WsHub

`conn[c]` holds the locals of a connection's task: the channels it subscribed
to, those it has a listener for, whether its user is known and whether it was
counted. The change of `online` and its telling are two steps; the decrement is a
load and a compare-and-exchange. `Break` and `ListenerEnds` are a socket that
fails under a listener. `crossed` records that two changes awaited their telling
at once.

### TokenCache, PoolCache, ShoutOuts

`TokenCache` counts time in ticks of ten seconds: the loop sleeps
`CheckInterval`, asks for a token when it is `RefreshAge` old, which takes up to
`Latency` and may fail; readers refuse a token of age `Lifetime`.
`PoolCache` is get_pool: read the table (`AskPool`), ask the indexer who owns the
name, ask the canister to create the pool, save it. `ShoutOuts` is the request
(broadcast, then insert), the network, which mines or drops what it has, and the
loop that fetches pending rows, queries each and confirms it. The history
variables `orphaned` and `unpublished` name what a fault kept from its table.

## What the runs show

| Run | Instance | Shows |
|---|---|---|
| `poller` | batch 2, 4 events of two kinds, 2 crashes, failing saves | TypeOK, NoEventSkipped, OffsetNeverRegresses, refinement of EventDelivery, EveryEventHandled (liveness) |
| `market` | 2 tasks, 2 prices, 3 transactions, resubmission | TypeOK, RowsFollowCanister, NoOrphanRecords, PricesFollowCanister, refinement of Market (ImplementsMarket) |
| `faults` | 2 tasks, rejections, a crash | ExecutedTradesAreRecorded, StatusesCatchUp, FinalityReachesHistory (liveness) |
| `everything` | 2 tasks, every fault, a crash | OnlyExecutedTradesShow, refinement of EventDelivery (StatusesDelivered) |
| `rankings` | ladder: 2 users, 3 etching fees, 6 prices at the bounds, 2 purchases | RankingsTypeOK, PriceCeiling, AlwaysSellable, FeeShare |
| | feed: 2 names, one entry kept, a channel of 2 events, 3 jobs in 2 tasks, a failing command | RankingsTypeOK, EntriesMatchListings, NewestAreKept, FeedIsTrue, FeedIsWhole |
| | sales: 2 names, a seller, a limit of 2, 3 purchases, 2 at a time, a failing step, a restart | CountsAreExact, RecentSalesShown |
| `services` | sessions: 2 users, 3 logins, a lifetime of 2 ticks, failures | ServicesTypeOK, ReloginInvalidates, ValidAreIndexed, OnlyLoginStays, LogoutIsFinal, OneFirstLogin |
| | hub: 2 connections, 2 channels, 6 changes of the counter | OnlineIsExact, SubscribedListens, LastTotalIsCurrent |
| | token: checked every tick, refreshed at 3, refused at 12, latency 2 | CredentialsOutliveFailures |
| | pools: 2 names, 3 tasks, 4 requests, faults | PoolsAreReachable |
| | shout outs: 3 transactions, 2 tasks, batches of 2, 4 requests, faults | PaidIsPublished, ConfirmedIsMined, StatusNeverBack |
| `stale_ranks` | 2 tasks, no fault | violated: RankingsFollowTable |
| `lost_record` | resubmission | violated: ExecutedTradesAreRecorded |
| `lost_row` | a crash | violated: OnlyListedNamesHaveRows |
| `rollback` | rejections | violated: RollbackRestoresRow |
| `relist_race` | 2 tasks, relist | violated: RelistsOwnListing |
| `lost_listing` | 2 tasks, 3 transactions, no fault | violated: OffersAreShown |

`rankings` and `services` each hold components that share no state. A behaviour
follows one of them, chosen at its start (`part`), and the others stay where they
begin: their product would be larger and say nothing more, as every property
speaks of one of them.

Bounds. One name is enough for the trading runs because handlers of different
names share no row, no outpoint and no ranking entry (`Inserted` looks at other
names' tx_id, which differ). Two tasks are enough for every race of two
requests; three transactions let a name be listed, sold and sold again, so that
a stale outpoint exists. Two crashes of the poller let a replay be interrupted
by another. The ladder's prices are the bounds a name meets: just below and at
the minimum, 126 percent of it and one more, 126 percent of that, and of the cap.
`MaxRecords` bounds the requests that pass validation.

In `market` three transactions and three requests let a name be listed, delisted
(or sold) and listed again by the same user while the second task has not
written the table, and let a signed transaction be sent again while its first
request is at any of its steps. The canister reports no finality there
(`Progress` is empty), which changes nothing but statuses in the history, what
the indexer shows and the poller's place; a listing is then shown its ownership by
the record of a delisting, the path on which requests of one user meet.
Listings the indexer shows after finality are in `lost_listing` (whose
counterexample needs none), in `faults` and in the theorems.

A ranking of one entry and two names is the smallest in which trimming, a slow
request and a restored resale meet; three jobs list a name, change it and remove
it, or list two and overtake. A channel of two events lags behind at the third.
A purchase, another that overlaps it and a third after a restart are what
the sale rankings can differ by. Three logins of one user are two that overlap
and one that should find both; a lifetime of two ticks lets time pass between any
two steps. Two connections are enough for a lost decrement. The real ratio of
the token's constants is 1 : 30 : 360; the run's is smaller, the theorem covers
both.

What the properties of `RankFeed`, `SaleRankings`, `Sessions`, `WsHub`,
`PoolCache` and `ShoutOuts` except is named by their history variables, and each
exception is a behaviour of the code that the finding list describes; without
the exception TLC shows it. So these properties do not catch the excepted
case, which happens; they say that nothing else does the same harm:

| Property | Does not speak of | Speaks of |
|---|---|---|
| EntriesMatchListings | names whose jobs overlapped or had a failed command | what jobs of other names, trims and re-listings do |
| FeedIsWhole | names whose last broadcast undid a resale | every other sequence of changes, with lag and snapshots |
| ReloginInvalidates, ValidAreIndexed | logins of one user that overlapped, sessions whose DEL failed | logins that failed half-way before this one; the expiry of set and session. A session stored and never indexed has no token that was handed out |
| OnlyLoginStays | users with a second login | other users' logins and failures |
| LastTotalIsCurrent | two changes that awaited their telling at once | one after the other, with breaks and closes |
| PoolsAreReachable | pools a fault kept from the table | requests for one name that overlap |
| PaidIsPublished | transactions a fault kept from the table | retries, second requests and evictions |

Two more limits of the trading runs. PricesFollowCanister is about behaviours
without faults, so the stale price that a failure in the middle of relist leaves
is not caught. OnlyExecutedTradesShow allows the row of a trade that was
executed and then rejected, so a pending change written after the rollback
is not caught. RankingsFollowTable is checked only where it fails; that it holds
for one request at a time is a theorem (`RanksFollow`).

Symmetry: request tasks are interchangeable (`TaskSymmetry`), and so are sold
names (`SoldNames`), logins, users and connections (`ServicesSymmetry`; the
instances share model values, so that one permutation serves them). It is used
only in runs without liveness properties. The names of `RankFeed` are numbers,
because Redis orders equal scores by name, and are not symmetric.

Deadlock is not checked where the canister may have nothing more to publish and
the users nothing more to sign, nor in `rankings` and `services`, where users may
do nothing more within the bounds.

Fairness is assumed in `poller` and `faults` only. The poller is a loop that sleeps a fixed time and whose awaits return:
weak fairness of its steps. A poll that fails is a stutter, so this includes
that the canister does not refuse every poll for ever. Strong fairness is
assumed of nothing. A started request runs to its end: the runtime polls its
task and its calls return or fail. A stopped server is started again. Nothing
is assumed of users, nor of the canister's reports, rejections and crashes,
whose number is bounded; so the liveness properties say "once the crashes stop".

## Findings

1. **Stale rankings.** A listing's handler writes the row, then the rankings.
   The row can be bought in between, and the purchase's handler can remove the
   rankings before the first one adds them: best_deals keeps a name that is not
   for sale (`event.rs` 270; API.md 1165). The next trade of the name or a
   restart repairs it. Run `stale_ranks`; with one request at a time the
   property holds (theorem `RanksFollow`).
2. **Lost record.** A client that submits a signed transaction twice makes two
   records with one tx_id; the refusal of the second deletes both
   (`postgres.rs` 412). The trade then has no status, and its rejection would
   not be rolled back. Run `lost_record`; without resubmission the property
   holds even with crashes and rejections (`faults`).
3. **Lost row.** After a crash between the canister's answer and
   `handle_pending` nothing repeats the latter: the poller ignores Pending
   (`event.rs` 144). A delisted or sold name stays on the market. Run `lost_row`.
4. **Unspendable rollback.** The rolled back row has the rejected transaction's
   id (`event.rs` 537; the comment there admits it for buy_and_relist; the two
   others do the same). Validators demand an input that spends it, so the name
   can be neither bought nor delisted. Run `rollback`.
5. **Relist of another's listing.** The seller is compared before an await and
   `relist_name` carries no seller (`trading.rs` 265-282). Run `relist_race`.
6. **Lost listing.** list takes the last record of the name for proof of
   ownership if it is a delisting or a BuyAndDelist and the transaction spends
   it; the record is there from before the canister is asked (`trading.rs` 619-631),
   and nothing checks that the name's row is gone. If the canister has executed
   the withdrawal and its task has not run `handle_pending`, the owner's new
   listing can be executed too. Its INSERT then meets the old row and is refused by
   the primary key, which is only logged (`event.rs` 268), and the withdrawal's
   DELETE removes that row: the canister has the name for sale, the market
   does not show it, and as every handler reads the row first, it can be neither
   bought nor delisted nor relisted here (API.md 400: "to complete the
   listing"). No fault takes part. Run `lost_listing`; what holds in spite of it
   is in `market`: no row outlives its sale, and no other deal is lost.

Met on the way and not runs of their own.

Failures in the middle of a request: a failure or crash after `relist_name`
leaves the row at the old price until the next trade (`trading.rs` 307). The
poller can see Rejected before the request's task has run `handle_pending`: the
pending change is then written after the rollback, and a rejected trade's row
stays, or a row that was restored is deleted (`event.rs` 194).

Prices: API.md 603 and 627 give 100 sats as the minimum of a price change, the
code 55,000 (`lib.rs` 37).

Listing rankings and their clients (exceptions of FeedIsTrue, FeedIsWhole,
NewestAreKept, EntriesMatchListings):

* The rollback of a resale restores the name's entry and then broadcasts one
  more RemoveNewListing (`event.rs` 561): clients drop a name the store keeps.
* API.md 1316-1317 has the client read the snapshot and then subscribe; a change
  in between reaches it neither way. The model's client subscribes first and
  keeps what comes; the mutant `ReadNamesFirst` is the documented order.
* ZCARD and the trim are two commands: two listings at once can count 22 each
  and trim twice. A trim is not broadcast, and after a removal the entries that
  were trimmed before are not brought back: the ranking shows fewer than 20 though
  more names are listed.
* A trimmed entry's metadata stays until the name is next removed.
* Changes that were in the snapshot already are applied again, and the client's
  own trim can then drop an entry that the store has.

Sale rankings (CountsAreExact, RecentSalesShown; `main.rs` 186 and API.md 1162
promise consistency after a restart):

* The rebuild counts pending records, also one left by a crash before `invoke`,
  and not rejected ones; the running server counts both.
* A name sold twice has its earliest row as recent sale after a rebuild, because
  rows are added latest first and each replaces the one before; a running server
  shows the last. The order is that of updated_at, which a status change moves.
* The limit of 20 counts rows, not names.
* The rebuild takes a record's price_sats, the price asked for a buy-and-relist;
  the running server takes the price paid. top_earners are sums of price minus
  previous price while running, and of prices after a rebuild (`main.rs` 358).
* A failed count leaves 0 in most-traded.

Sessions (ReloginInvalidates, ValidAreIndexed; API.md 256 promises that a login
ends the earlier sessions): two logins at once both stay valid; a DEL that
fails is ignored while the set that names the session is deleted (`redis.rs` 844),
so no later login finds it; a login can delete the set to which another has just
added its session.

WebSocket: two changes of the counter can be told in the wrong order, and the
total shown is then wrong until the next (LastTotalIsCurrent).

Token: the HTTP client has no timeout, so one call that hangs stops the loop (the
theorem takes the latency as a constant); `expires_in` is not read (`redis.rs`
409), though the metadata server may hand out a token that ends earlier than an
hour from its arrival.

Pools: after a save that failed, a reply that was lost or a crash in between, the
owner is told PoolAlreadyExists for ever and the address is never known
(PoolsAreReachable, `orphaned`).

Shout outs: `main.rs` never calls start_confirming, so nothing is ever confirmed;
the loop's batch is the newest 100 pending rows, and older ones can wait for
ever; a crash or failure between broadcast and insert takes the payment and
leaves no row, and a retry helps only until the transaction is mined
(PaidIsPublished, `unpublished`).

Inventory, read and not modelled: while a delisting's record is pending a name
can be in both the listed and the unlisted names of a user (`user.rs` 103-165).

## What is proved

Every invariant and action property the passing runs check has a theorem of the
specification it belongs to. Each proof has the same
shape: an inductive invariant, that the initial states have it, one lemma per
action or kind of step, and that it implies the property.

`EventPollerProofs`, for every event set, batch limit and bound, whether or not
loads and saves fail:

* `TypeCorrectness`, `NothingSkipped` (Spec => []NoEventSkipped),
  `OffsetMonotone` (if the load at start does not fail), `ImplementsDelivery`
  (Spec => DeliverySpec).

  The inductive invariant is `TypeOK /\ Ordered /\ HandledBefore`. NoEventSkipped
  speaks only of the two offsets; in the middle of a batch `cursor` is ahead of
  both, and one needs that everything below `cursor` was handled
  (`HandledBefore`) and that the positions of a batch lie in order between the
  offset and the log's end (`Ordered`). The refinement maps `delivered` and the
  log to the abstract ones and every other step to a stutter.

`SaleProofs`, on `PriceLadder`, for every set of users, fees, prices and points:

* `TypeCorrectness`, `Ceiling`, `Sellable`, `FeeBetween`.

  The inductive invariant is `TypeOK /\ BoughtAboveMinimum /\ PriceCeiling`:
  every record of a purchase, also an abandoned or rejected one, was checked
  against the minimum, so the range based on it contains at least the price
  itself (`RangeContainsBase`); the fee bound rests on six levels
  (`LevelBounds`) and the minimum (`PlatformFeeBounds`). Multiplications do not overflow
  for prices a Bitcoin amount can have; the modules use Nat.

`TradingProofs`, for any names, users, prices, actions and `Faults`, any number of
concurrent requests and crashes:

* `TypeCorrectness` (Spec => []TypeOK), and `Invariance` (Spec => []IInv), on which the
  theorems of the next two modules rest.

  A row's transaction is executed because the task that writes it got its answer
  (`pc` "accepted" or "applied"), or because the poller that rolls a trade back
  read it in the log. Neither is in what a row shows (`ShownExecuted`), so the
  inductive invariant adds `Founded`, which says both, `Signed` (a task about to call the
  canister holds a transaction somebody signed, so the call publishes a
  well-formed event), `CP!ChainOK` (every executed trade is in the log, also
  when a rejection takes it off the chain) and the poller's own invariant
  `PP!IInv`. The last two come from lemmas of `CanisterProofs` and
  `EventPollerProofs`, instantiated: one lemma per canister step says that the log
  only grows and what it speaks of afterwards, and `LogGrowsIInv` that the poller
  keeps its place while it does. Then there is one lemma per action;
  `HandlerMoves` and `PollerPart` collect what those of the handlers and of the
  poller have in common.

`RecordProofs`, on top of that invariant, for every combination of faults:

* `OnlyExecuted` (Spec => []OnlyExecutedTradesShow).

  A row belongs to an executed trade of its name and shows the seller who signed
  it, unless the trade was rejected. A row is written from a record, by the task
  that executed the trade or by the rollback, so records must say what was signed
  (`Told`): those of the running trades and of the history (`AllTold`), and the one
  that is rolled back, whose rejection is in the log (`RollbackTold`). `ToldInv` is
  these and the property. Signed transactions and published statuses stay
  (`Onward`); one lemma per statement says where the rows after it come from
  (`RowSource`).
* `DeliversStatuses` (Spec => StatusesDelivered).

  Beside the poller's own steps there are those of tasks, users and the canister,
  which only make the log longer, several events at once where a transaction is
  rejected with what was built on it (`LogPublished`); the steps of a
  rollback are stutters until its last, which is the delivery (`PollDelivers`).

And with the faults each theorem excludes:

* `NoOrphans` (Spec => []NoOrphanRecords, without crashes and failing statements),
  `Recorded` (ExecutedTradesAreRecorded, without resubmission and lost answers),
  `CatchUp` (StatusesCatchUp, moreover without failing statements).

  One lemma, `StepEffect`, says what any step can do to the tasks, the history and
  the executed trades; each invariant is then a case for each kind of effect.
  `NoOrphans` needs that a price change carries no transaction (`Bare`). `Recorded`
  needs that the transactions of the tasks that wait for the canister are new
  (`Numbered`) and differ (`Apart`): then a refused request deletes no record but
  its own. With resubmission it is false, as the run lost_record shows, and so it
  is with lost answers, where the request that saw the error deletes the record.
  `CatchUp` is about the moment all is handled; its invariant
  `CatchInv` is about every moment: a record shows the last event of its trade or
  the log has one ahead of the poller (`UpToDate`). That survives a crash because
  the poller only falls back (`Behind`), and a Pending event, which the poller
  ignores, because it is the first of its trade (`PendingFirst`). Failing
  statements are excluded for two reasons: an update that fails is not repeated,
  and an offset that fails to load makes the poller start from 0 with the stored
  offset ahead of it, so that a crash in the middle of the replay leaves old
  statuses behind.

`MarketProofs`, on top of those, while nothing fails, crashes or is rejected (clients
may submit again; the runs lost_row and rollback show that the rest is needed).
Requests are not kept apart: the theorems hold for any number of them in any
interleaving, a user's own on one name and those with one transaction included,
except where it is said.

* `FollowsCanister` (Spec => []RowsFollowCanister).

  A row is the canister's sale of its name or of one that has ended, and then
  the task that ended it is about to write the row. `MarketInv` says the same of
  the chain's last action (`Shows`), and of every task whose trade was executed what
  it will find and write (`Ahead`): a withdrawal or purchase finds the row it
  spends and is the only one about to end it; a listing or resale is the last
  action of its name; only of a withdrawal the canister may have gone on, to a
  listing by the new holder, which is finding 6. That no second trade
  ends a row follows from what such a transaction spends, which is executed and
  on the row as long as it is the canister's (`InputsShown`), and from
  `Spent`: what an executed transaction spent is no longer the name's state.
  The INSERT of a listing may meet a row; then the withdrawal of that row is still to
  be applied, and the invariant stays true with the listing lost.
* `PricesFollow` (PricesFollowCanister), if a price change does not run beside
  another request: `PriceInv` adds the prices of the rows that are the canister's
  sale and of what a task will write.
* `RanksFollow` (RankingsFollowTable), for one request at a time: `RankInv` adds
  the task that wrote a row and has yet to rank it. The runs relist_race and
  stale_ranks show the two restrictions to be needed.
* `QuietRowsListed` (OnlyListedNamesHaveRows), for any number of tasks, and
  `RelistsOwn` (RelistsOwnListing), for one request at a time: the scope of the
  findings 3 and 5. The first is `Shows` where no task is about to write; the second
  adds that a price change that has read the seller still has the owner
  (`ReadersOwn`).
* `MarketImplemented` (Spec => ImplementsMarket), price changes included.

  `Market` knows no requests, records or transactions under way: the last deal
  of a name, the deals yet to be shown, what is shown, and the transactions used.
  A holder may offer at any time; who withdraws or buys needs the offer of the last
  deal to be shown (`Visible`); a deal that is shown replaces what is there, but a
  new offer that meets one may change nothing. The mapping takes the last
  entry of a name's chain without its price, the deals of the tasks between the
  canister's answer and the table (`Unshown`), the row without its price and the
  set of executed transactions. An accepted `Invoke` is a deal (`RanIsDeal`), the
  write of the row by `handle_pending` is its showing (`AppliedShows`), and
  everything else stutters. `InputsShown` gives that an offer which is spent is
  the one shown; that the seller, compared two awaits before, is still the seller
  needs one more invariant, `DealInv`: the outpoint the task is about to spend is
  that of the listing it has read.

`RankingProofs`, on `RankFeed`, for any names, requests, discounts, number of
entries kept, capacity of the channel and failing commands:

* `EntriesMatch` (FeedSpec => []EntriesMatchListings).

  `StoreInv` says that what a task has still to run is the rest of a job in the
  order of `redis.rs` (`Scripted`, by `WellFormed`: what follows a ZADD, what
  precedes a DEL, the broadcast at the end), that a name which no two jobs met at has one
  job (`Alone`), and how its keys stand in the middle of it (`Entries`).
* `NewestKept` (NewestAreKept).

  `KeptInv`: no two listings have one time (`Stamped`, `Bounded`); a listed name
  without an entry, which no job is to add, is older than every entry that was
  not added late (`Newer`); and too many entries stand only while a task is
  still to count, or has counted enough to trim (`Short`). The last is where
  counting and trimming in two commands does no harm.
* `FeedTrue` (FeedIsTrue), `FeedWhole` (FeedIsWhole), `FeedTypes`.

  A client's list, its inbox, the channel, the store and the commands under way
  are in one invariant, `FeedInv`: whatever last is said about a name, in the
  channel, or else in the inbox, or else in the list, is what the store has or
  the name's listing (`Told`, in `ReaderInv`), and what a job will still write
  or send is what its listing asks for (`Underway`, in `TellInv`). A trim and a
  snapshot that was cut keep the list from being whole and never from being
  true. `AppendLast` and its like say what is last in a longer and a shorter
  sequence.

  The attempt at `FeedWhole` corrected the property's history: list, resell,
  undo and then relist left a client without a name of new-listings that the
  store keeps, as a relist sends nothing there; `undone` had been cleared by
  every job and is now cleared by jobs that broadcast. It takes four jobs of one name,
  one more than the run has.

`SaleProofs`, on `SaleRankings`, for any finite sets of names and sellers, any
limit, number of purchases, of those at once and of restarts:

* `CountsExact` (SaleSpec => []CountsAreExact).

  `CountInv` treats names and sellers alike: the count shown is the number of
  records, but for the one purchase under way, by the step it is at (`Counted`);
  of a name that is not blurred it is the only one, and the latest (`Single`).
* `RecentShown` (RecentSalesShown).

  `RecentInv` adds that the sale shown of a name is no earlier than any past the
  ranking's step (`Shows`), across a rebuild that reads the records in the
  order of updated_at (`Placed`). That a rebuild shows a row, and which, needs the
  first record of a name in that order; the library's induction cannot be
  instantiated here, its least element of a non-empty set of numbers can
  (`LeastNatural`).
* `SaleRankTypes` (SaleSpec => []SaleTypeOK). Beside types proper it says that the
  sale shown of a name is a trade of that name and that each record keeps one place
  in the order of updated_at, which a status change moves it in (`Updated`).

On the three parts of the run `rankings` side by side, in `RankingProofs`:

* `RankingsTypes` (RankingsSpec => []RankingsTypeOK), from the invariants of the part
  that is followed (`PartInv`).

`ServiceProofs`, on `Sessions`, for any users, any number of logins and logouts at
once, any lifetime and bound of the clock, whether or not commands fail:

* `SessTypes`, `ReloginIsClean` (Spec => []ReloginInvalidates), `SessionsIndexed`
  (ValidAreIndexed), `SoloStays` (OnlyLoginStays), `LogoutStays` (LogoutIsFinal),
  `FirstIsOne` (OneFirstLogin).

  The inductive invariant `SessIInv` has thirteen parts. ReloginInvalidates is
  about granted tokens, but what keeps it is spread over a login's steps: two
  logins of one user that are under way together are in `raced` (`OverlapsKnown`);
  one that is not has the set for itself from the DEL on (`SetIsOwn`); it has
  found every earlier session that still lives (`FoundAll`, from `Indexed`, which
  is ValidAreIndexed without the clock), and once past the deletions none of them
  lives (`ClearedAll`). `IndexNamesOwn` keeps users apart, which is what SoloStays
  needs.

On `WsHub`, for any finite set of connections and any channels:

* `HubTypes`, `CounterIsExact` (OnlineIsExact), `ListensToSubscriptions`
  (SubscribedListens), `TotalIsCurrent` (LastTotalIsCurrent).

  `HubIInv` says where each connection stands at every step of its task
  (`AllPlaced`), that the counter is the cardinality of those counted or leaving
  (`CounterExact`, with the library's facts on adding and removing an element)
  and that without crossing the one that has changed the counter last holds its
  value (`TellerIsLast`).

On the others, for every value of the constants:

* `Outlive` (CredentialsOutliveFailures): the age is at most what the failed
  cycles since RefreshAge can add up to (`AgeBounded`).
* `Reachable` (PoolsAreReachable): a pool that is in no table and not orphaned is
  held by exactly the request that created it (`CreatorSaves`, `KeptOrSaving`).
* `Published` (PaidIsPublished), `Confirmed` (ConfirmedIsMined), `NeverBack`
  (StatusNeverBack): a row found mined stays mined (`FoundMined`).

On the five side by side:

* `ServicesTypes` (ServicesSpec => []ServicesTypeOK), from the invariants of the part
  that is followed. The batch the confirming loop fetches holds only advertisements
  of the table (`FetchedAreRows`): each new row goes to the front, and a row keeps its
  place and its transaction when its status changes (`RowsKept`).

Assumptions are the constants' types (`LadderAssumption`, `TradingAssumption`,
`FeedAssumption`, `SaleAssumption`, `SessAssumption`, `HubAssumption`,
`TokenAssumption`, `PoolAssumption`, `ShoutAssumption`, those of `EventPoller`)
and that the null values are no row, no record and no item (`NullAssumption`,
`NoItemAssumption`) and no sale (`NoSaleAssumption`). Names and sellers are finite, since rankings count them.

Only model-checked:

* liveness (EveryEventHandled, FinalityReachesHistory), which the prover cannot
  treat.

The properties the six violation runs refute have no theorem under the faults of
those runs. Four hold where the fault or the race is excluded, as `RanksFollow`,
`Recorded`, `QuietRowsListed` and `RelistsOwn` say; RollbackRestoresRow fails
at every rejection of a trade on a listing, and OffersAreShown without any fault.

## Not modelled, and the plan

What is left, in order:

1. The sums of prices of the sale rankings, at run time and rebuilt; Redis
   commands that fail during the rebuild.
2. The two lists of a user's inventory against pending records.

Left out for good: BIP-322 and transaction parsing (cryptography and data),
HTTP routing, configuration, metadata and statistics (single statements or
reads), the orchestrator's types. Stars are one INSERT or UPDATE keyed by user
and target, which PostgreSQL serialises; only their broadcasts can come in
another order.
