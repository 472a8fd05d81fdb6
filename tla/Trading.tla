------------------------------- MODULE Trading -------------------------------
(***************************************************************************)
(* The marketplace: the five trade handlers of service/trading.rs, what    *)
(* they and the event poller of service/event.rs do to the listings, the   *)
(* trade history and the rankings, and the canister they talk to.  Every   *)
(* await of a handler ends a step, so that requests, the poller and a      *)
(* crash interleave as they do in the server.                              *)
(***************************************************************************)
EXTENDS Integers, FiniteSets, SequencesExt, PriceRules

CONSTANTS
  Names,                \* the names traded
  Users,                \* authenticated wallet addresses
  Named,                \* users with a primary name, which collects points
  FirstOwner,           \* the holder of each name before any trade
  EtchingFee,           \* the fee each name's etching transaction paid
  Prices,               \* the prices users ask for
  Actions,              \* the actions users request
  Handlers,             \* request tasks that may run at the same time
  Faults,               \* what goes wrong, see FaultKinds
  Progress,             \* status changes the canister reports, see Canister
  BatchLimit,           \* events the poller fetches in one call
  MaxTxs,               \* bound: transactions the users sign
  MaxRecords,           \* bound: no request once clock has reached it
  MaxCrashes,           \* bound: crashes of the server
  NoListing, NoRecord   \* model values: no row, no record

Buys == {"BuyAndRelist", "BuyAndDelist"}
AllActions == {"List", "Delist", "Relist"} \cup Buys

(* reject     the canister rejects an action it had executed
   crash      the server stops between two steps and is started again
   lostReply  a canister call takes effect but reports an error
   outage     a PostgreSQL statement or a query to the indexer fails
   resubmit   a client sends a signed transaction a second time *)
FaultKinds == {"reject", "crash", "lostReply", "outage", "resubmit"}
MayFail == "outage" \in Faults

ASSUME TradingAssumption ==
  /\ FirstOwner \in [Names -> Users]
  /\ Named \subseteq Users
  /\ EtchingFee \in [Names -> Nat]
  /\ Prices \subseteq Nat
  /\ Actions \subseteq AllActions
  /\ Progress \subseteq {"Finalized", "Confirmed"}
  /\ Faults \subseteq FaultKinds
  /\ BatchLimit \in Nat \ {0}
  /\ MaxTxs \in Nat /\ MaxRecords \in Nat /\ MaxCrashes \in Nat

VARIABLES
  \* PostgreSQL
  listings,             \* table listings: name -> row or NoListing
  history,              \* table trade_history: a set of records
  credited,             \* table nft_points: trades whose fee was credited
  \* Redis
  newListings,          \* zset new_listings: the names in it
  bestDeals,            \* zset best_deals: name -> price of its entry or 0
  sales,                \* trades counted in the four sale rankings
  \* request tasks
  pc,                   \* where each task stands
  job,                  \* the trade record each task holds
  rollback,             \* the rejected record the poller is rolling back
  \* clients
  psbts,                \* the transactions signed so far
  clock,                \* creation times given to records
  \* the canister and the poller (Canister, EventPoller)
  chain, log,
  dbOffset, phase, memOffset, cursor, batchEnd, delivered, crashes

Chain == INSTANCE Canister
Poller == INSTANCE EventPoller
  WITH Event <- Chain!StatusEvent,
       LoadMayFail <- MayFail, SaveMayFail <- MayFail,
       MaxEvents <- 0

tables == <<listings, history, credited>>
rankings == <<newListings, bestDeals, sales>>
tasks == <<pc, job>>
clients == <<psbts, clock>>
pollVars ==
  <<dbOffset, phase, memOffset, cursor, batchEnd, delivered, crashes>>
vars == <<tables, rankings, tasks, rollback, clients, chain, log, pollVars>>

NoTx == 0               \* the tx_id of a record without a transaction
NoPrice == 0            \* the price of a name without an entry in best_deals

Listing == [seller : Users, price : Nat, tx : Nat]
TradeStatus == {"Pending", "Finalized", "Confirmed", "Rejected"}
TradeRecord ==
  [at : Nat, name : Names, who : Users, action : AllActions, tx : Nat,
   status : TradeStatus, seller : Users, prev : Nat, price : Nat]
Psbt ==
  [name : Names, who : Users, action : AllActions, input : Nat,
   pay : Nat, price : Nat]

ASSUME NullAssumption == NoListing \notin Listing /\ NoRecord \notin TradeRecord

\* A name's sale: a row, or what the canister has of it, without the price.
SaleType == [seller : Users, tx : Nat]

ASSUME NoSaleAssumption == NoListing \notin SaleType

Stages == {"idle", "validated", "recorded", "accepted", "applied", "refused",
           "relistRead", "relistDone", "relistRecorded", "relistPriced"}

\* Types of the tables, the rankings and the tasks' local state.
TypeOK ==
  /\ listings \in [Names -> Listing \cup {NoListing}]
  /\ history \subseteq TradeRecord
  /\ credited \subseteq Nat
  /\ newListings \subseteq Names
  /\ bestDeals \in [Names -> Nat]
  /\ sales \subseteq Nat
  /\ pc \in [Handlers -> Stages]
  /\ job \in [Handlers -> TradeRecord \cup {NoRecord}]
  /\ \A h \in Handlers : job[h] = NoRecord <=> pc[h] = "idle"
  /\ rollback \in {NoRecord} \cup
       [record : TradeRecord, step : {"listing", "rankings"}]
  /\ psbts \in Seq(Psbt)
  /\ clock \in Nat

Init ==
  /\ listings = [n \in Names |-> NoListing]
  /\ history = {}
  /\ credited = {}
  /\ newListings = {}
  /\ bestDeals = [n \in Names |-> NoPrice]
  /\ sales = {}
  /\ pc = [h \in Handlers |-> "idle"]
  /\ job = [h \in Handlers |-> NoRecord]
  /\ rollback = NoRecord
  /\ psbts = <<>>
  /\ clock = 0
  /\ Chain!CanisterInit
  /\ Poller!PollInit

-----------------------------------------------------------------------------
(* What the statements of infra/postgres.rs compute. *)

\* A statement or query has its effect, or the other one if it fails.
Outcomes(new, old) == {new} \cup (IF MayFail THEN {old} ELSE {})

Listed(n) == listings[n] # NoListing

\* INSERT INTO listings: the primary key and the UNIQUE tx_id may refuse it.
Inserted(n, row) ==
  IF Listed(n) \/ \E m \in Names : Listed(m) /\ listings[m].tx = row.tx
  THEN listings ELSE [listings EXCEPT ![n] = row]

\* UPDATE listings ... WHERE name = n, and DELETE.
Updated(n, row) == IF Listed(n) THEN [listings EXCEPT ![n] = row] ELSE listings
Removed(n) == [listings EXCEPT ![n] = NoListing]

\* Mutants: a failed request's record is deleted by name; only a pending
\* record changes its status.
WithoutName(t) == {r \in history : r.name # psbts[t].name}
WithStatusIfPending(t, s) ==
  {IF r.tx = t /\ r.status = "Pending" THEN [r EXCEPT !.status = s] ELSE r :
     r \in history}

\* DELETE and UPDATE of trade_history WHERE tx_id = t touch every such record.
WithoutTx(t) == {r \in history : r.tx # t}
WithStatus(t, s) ==
  {IF r.tx = t THEN [r EXCEPT !.status = s] ELSE r : r \in history}

\* What ORDER BY created_at DESC LIMIT 1 may return of some records.
Latest(records) == {r \in records : \A q \in records : q.at <= r.at}

\* calculate_previous_price: the price of the last purchase, whatever became
\* of it, else (also when the query fails) the price the etching fee gives.
PreviousPrices(n) ==
  LET bought == {r \in history : r.name = n /\ r.action \in Buys}
      etched == EtchingFeePrice(EtchingFee[n])
  IN {r.price : r \in Latest(bought)}
       \cup (IF bought = {} \/ MayFail THEN {etched} ELSE {})

-----------------------------------------------------------------------------
(* The requests: list, delist, buy_and_relist, buy_and_delist.  A refused   *)
(* validation returns an error and changes nothing, so only requests that   *)
(* pass it are steps.                                                       *)

\* The transactions a user can sign for an action on a name, against any
\* outpoint and for any payment; what an action has no use for is 0.
Signable(u, n, a) ==
  [name : {n}, who : {u}, action : {a}, input : 0 .. Len(psbts),
   pay : IF a \in Buys THEN Prices ELSE {0},
   price : IF a \in {"List", "BuyAndRelist"} THEN Prices ELSE {0}]

\* list: a transaction that spends the output of the name's last delisting is
\* taken at once; any other is checked against the ord indexer.
OwnershipShown(p) ==
  LET records == {r \in history : r.name = p.name}
      ord == Chain!OrdEntry(p.name)
  IN \/ \E last \in Latest(records) :
          last.action \in {"Delist", "BuyAndDelist"} /\ last.tx = p.input
     \/ ord.owner = p.who /\ ord.tx = p.input /\ ~ ord.listed

\* Mutant of SpendsListing: the outpoint is not compared with the row's.
SpendsAnything(p) == Listed(p.name)

\* The input of the transaction is the outpoint of the listing.
SpendsListing(p) == Listed(p.name) /\ listings[p.name].tx = p.input

\* The prices a handler may take for the previous one: of a listing what
\* calculate_previous_price gives, of a name for sale the price of its row.
BasePrices(p) ==
  CASE p.action = "List" -> PreviousPrices(p.name)
    [] p.action # "List" /\ Listed(p.name) -> {listings[p.name].price}
    [] OTHER -> {}

\* The payment and the fee add up to the price of the row.
PaysPrice(p) == listings[p.name].price = p.pay

\* What each handler checks before its first write.
ValidList(p, base) == OwnershipShown(p) /\ PriceAllowed(base, p.price)

\* Mutant of ValidDelist: the caller need not be the seller.
AnyoneDelists(p) == SpendsListing(p)

ValidDelist(p) == SpendsListing(p) /\ listings[p.name].seller = p.who

ValidBuyAndRelist(p, base) ==
  SpendsListing(p) /\ PaysPrice(p) /\ PriceAllowed(base, p.price)

ValidBuyAndDelist(p) == SpendsListing(p) /\ PaysPrice(p)

Valid(p, base) ==
  \/ p.action = "List" /\ ValidList(p, base)
  \/ p.action = "Delist" /\ ValidDelist(p)
  \/ p.action = "BuyAndRelist" /\ ValidBuyAndRelist(p, base)
  \/ p.action = "BuyAndDelist" /\ ValidBuyAndDelist(p)

\* The trade record a handler makes of what it has read.
NewRecord(p, base, t) ==
  LET l == listings[p.name] IN
     [at |-> clock + 1, name |-> p.name, who |-> p.who, action |-> p.action,
      tx |-> t, status |-> "Pending",
      seller |-> IF p.action = "List" THEN p.who ELSE l.seller,
      prev |-> base,
      price |-> IF p.action \in {"List", "BuyAndRelist"} THEN p.price ELSE base]

\* A task is free and the server is up.  Nothing keeps requests apart: not those
\* of one user and name, nor two with the same transaction.
MayRequest(h) ==
  /\ pc[h] = "idle"
  /\ phase # "down"
  /\ clock < MaxRecords

\* A handler reads the name's listing, validates the request and builds the
\* record it is going to insert.
Validate(h, u, n, a) ==
  /\ MayRequest(h)
  /\ \E p \in Signable(u, n, a) : \E base \in BasePrices(p) :
       /\ Valid(p, base)
       /\ \/ /\ Len(psbts) < MaxTxs
             /\ psbts' = Append(psbts, p)
             /\ job' = [job EXCEPT ![h] = NewRecord(p, base, Len(psbts) + 1)]
          \/ /\ "resubmit" \in Faults
             /\ \E t \in 1 .. Len(psbts) :
                  psbts[t] = p /\ job' = [job EXCEPT ![h] = NewRecord(p, base, t)]
             /\ UNCHANGED psbts
  /\ pc' = [pc EXCEPT ![h] = "validated"]
  /\ clock' = clock + 1
  /\ UNCHANGED <<tables, rankings, rollback, chain, log, pollVars>>

\* Mutant of Answer: the task keeps its record.
AnswerKeepsJob(h) == pc' = [pc EXCEPT ![h] = "idle"] /\ UNCHANGED job

\* Task h stands at a stage; it moves on, or answers its request.
At(h, stage) == pc[h] = stage
Goto(h, stage) == pc' = [pc EXCEPT ![h] = stage] /\ UNCHANGED job
Answer(h) ==
  /\ pc' = [pc EXCEPT ![h] = "idle"]
  /\ job' = [job EXCEPT ![h] = NoRecord]

\* add_trade_record; its failure ends the request.
AddRecord(h) ==
  /\ At(h, "validated")
  /\ \/ history' = history \cup {job[h]} /\ Goto(h, "recorded")
     \/ MayFail /\ UNCHANGED history /\ Answer(h)
  /\ UNCHANGED <<listings, credited, rankings, rollback, clients, chain, log,
                 pollVars>>

\* Mutant of Invoke: a refusal is taken for an execution.
InvokeIgnoresError(h) ==
  /\ At(h, "recorded")
  /\ \/ Chain!Execute(psbts[job[h].tx], job[h].tx)
     \/ UNCHANGED <<chain, log>>
  /\ Goto(h, "accepted")
  /\ UNCHANGED <<tables, rankings, rollback, clients, pollVars>>

\* ic_agent.invoke: the canister executes the action, or refuses it, or
\* executes it while the server sees an error.
Invoke(h) ==
  /\ At(h, "recorded")
  /\ \/ Chain!Execute(psbts[job[h].tx], job[h].tx) /\ Goto(h, "accepted")
     \/ UNCHANGED <<chain, log>> /\ Goto(h, "refused")
     \/ /\ "lostReply" \in Faults
        /\ Chain!Execute(psbts[job[h].tx], job[h].tx)
        /\ Goto(h, "refused")
  /\ UNCHANGED <<tables, rankings, rollback, clients, pollVars>>

\* Mutant of DeleteRecord: the record stays.
DeleteRecordForgets(h) ==
  /\ At(h, "refused")
  /\ Answer(h)
  /\ UNCHANGED <<tables, rankings, rollback, clients, chain, log, pollVars>>

\* invoke returned an error: del_trade_record, and the request fails.
DeleteRecord(h) ==
  /\ At(h, "refused")
  /\ history' \in Outcomes(WithoutTx(job[h].tx), history)
  /\ Answer(h)
  /\ UNCHANGED <<listings, credited, rankings, rollback, clients, chain, log,
                 pollVars>>

-----------------------------------------------------------------------------
(* handle_pending, called by the handler once invoke succeeded. *)

\* Mutant of ListingsAfter: a resale keeps the price that was paid.
ListingsAfterOldPrice(r) ==
  LET row(price) == [seller |-> r.who, price |-> price, tx |-> r.tx] IN
    CASE r.action = "List"         -> Inserted(r.name, row(r.price))
      [] r.action = "BuyAndRelist" -> Updated(r.name, row(r.prev))
      [] OTHER                     -> Removed(r.name)

\* What becomes of the listings table.
ListingsAfter(r) ==
  LET row == [seller |-> r.who, price |-> r.price, tx |-> r.tx] IN
    CASE r.action = "List"         -> Inserted(r.name, row)
      [] r.action = "BuyAndRelist" -> Updated(r.name, row)
      [] OTHER                     -> Removed(r.name)

\* update_sale_rankings, for a purchase of a name found in the table.
CountSale(r) ==
  sales' \in IF r.action \in Buys /\ Listed(r.name)
             THEN Outcomes(sales \cup {r.tx}, sales)
             ELSE {sales}

\* add_seller_points: a seller with a primary name is credited with the fee.
CreditSeller(r) ==
  credited' \in IF r.action \in Buys /\ r.seller \in Named
                THEN Outcomes(credited \cup {r.tx}, credited)
                ELSE {credited}

\* The listing is written and the sale rankings follow, from the row as it was.
ApplyListing(h) ==
  /\ At(h, "accepted")
  /\ listings' \in Outcomes(ListingsAfter(job[h]), listings)
  /\ CountSale(job[h])
  /\ Goto(h, "applied")
  /\ UNCHANGED <<history, credited, newListings, bestDeals, rollback, clients,
                 chain, log, pollVars>>

\* remove_listing_rankings.
Unrank(n) ==
  /\ newListings' = newListings \ {n}
  /\ bestDeals' = [bestDeals EXCEPT ![n] = NoPrice]

\* update_listing_rankings, with and without a new listing.
RankAsNew(n, price) ==
  /\ newListings' = newListings \cup {n}
  /\ bestDeals' = [bestDeals EXCEPT ![n] = price]

RankDeal(n, price) ==
  /\ newListings' = newListings
  /\ bestDeals' = [bestDeals EXCEPT ![n] = price]

\* The listing rankings follow, from the local listing for a new one and from
\* the row as it is now for a purchase; the seller is credited with the fee.
ApplyRankings(h) ==
  LET r == job[h] IN
    /\ At(h, "applied")
    /\ \/ r.action = "List" /\ RankAsNew(r.name, r.price)
       \/ /\ r.action # "List"
          /\ r.action = "BuyAndRelist" => MayFail \/ ~ Listed(r.name)
          /\ Unrank(r.name)
       \/ /\ r.action = "BuyAndRelist" /\ Listed(r.name)
          /\ newListings' = newListings \ {r.name}
          /\ bestDeals' = [bestDeals EXCEPT ![r.name] = listings[r.name].price]
    /\ CreditSeller(r)
    /\ Answer(h)
    /\ UNCHANGED <<listings, history, sales, rollback, clients, chain, log,
                   pollVars>>

-----------------------------------------------------------------------------
(* The relist handler. *)

\* The listing is read, the caller must be its seller, the new price is
\* checked against the last purchase, or if that cannot be told the row.
RelistRead(h, u, n) ==
  /\ MayRequest(h)
  /\ Listed(n)
  /\ listings[n].seller = u
  /\ \E p \in Prices :
       /\ \E base \in PreviousPrices(n)
                 \cup (IF MayFail THEN {listings[n].price} ELSE {}) :
            PriceAllowed(base, p)
       /\ job' = [job EXCEPT ![h] =
            [at |-> clock + 1, name |-> n, who |-> u, action |-> "Relist",
             tx |-> NoTx, status |-> "Finalized", seller |-> u,
             prev |-> listings[n].price, price |-> p]]
  /\ pc' = [pc EXCEPT ![h] = "relistRead"]
  /\ clock' = clock + 1
  /\ UNCHANGED <<tables, rankings, rollback, psbts, chain, log, pollVars>>

\* ic_agent.relist_name: done, refused, or done with the answer lost.
RelistCall(h) ==
  /\ At(h, "relistRead")
  /\ \/ Chain!Relist(job[h].name, job[h].price) /\ Goto(h, "relistDone")
     \/ UNCHANGED <<chain, log>> /\ Answer(h)
     \/ /\ "lostReply" \in Faults
        /\ Chain!Relist(job[h].name, job[h].price)
        /\ Answer(h)
  /\ UNCHANGED <<tables, rankings, rollback, clients, pollVars>>

\* The record is created now and added; a failure is only logged.
RelistRecord(h) ==
  LET r == [job[h] EXCEPT !.at = clock + 1] IN
    /\ At(h, "relistDone")
    /\ history' \in Outcomes(history \cup {r}, history)
    /\ clock' = clock + 1
    /\ Goto(h, "relistRecorded")
    /\ UNCHANGED <<listings, credited, rankings, rollback, psbts, chain, log,
                   pollVars>>

\* update_listing_price, on whatever row has the name.
RelistPrice(h) ==
  LET r == job[h]
      row == [listings[r.name] EXCEPT !.price = r.price]
  IN /\ At(h, "relistRecorded")
     /\ listings' \in Outcomes(IF Listed(r.name) THEN Updated(r.name, row)
                               ELSE listings, listings)
     /\ Goto(h, "relistPriced")
     /\ UNCHANGED <<history, credited, rankings, rollback, clients, chain, log,
                    pollVars>>

\* The row is read again and its deal ranked, unless it is not there or the
\* query fails.
RelistRank(h) ==
  LET n == job[h].name IN
    /\ At(h, "relistPriced")
    /\ \/ Listed(n) /\ RankDeal(n, listings[n].price)
       \/ (Listed(n) => MayFail) /\ UNCHANGED <<newListings, bestDeals>>
    /\ Answer(h)
    /\ UNCHANGED <<tables, sales, rollback, clients, chain, log, pollVars>>

-----------------------------------------------------------------------------
(* The poller handles a status change (handle_status_change): Pending is    *)
(* ignored, Finalized and Confirmed update the record, Rejected updates it  *)
(* and rolls its trade back.  An event is done when the last of it is done. *)

\* The status changes, where nothing is left to do but the history.
PollStatus ==
  LET e == Poller!Current IN
    /\ Poller!Handling
    /\ rollback = NoRecord
    /\ \/ e.status = "Pending" /\ UNCHANGED history
       \/ /\ e.status \in {"Finalized", "Confirmed"}
          /\ history' \in Outcomes(WithStatus(e.tx, e.status), history)
       \/ /\ e.status = "Rejected"
          /\ MayFail \/ \A r \in history : r.tx # e.tx
          /\ UNCHANGED history
    /\ Poller!HandleNext
    /\ UNCHANGED <<listings, credited, rankings, tasks, rollback, clients, chain, log>>

\* A rejected trade that has a record: handle_rejected begins.
PollRejected ==
  LET e == Poller!Current IN
    /\ Poller!Handling
    /\ rollback = NoRecord
    /\ e.status = "Rejected"
    /\ history' = WithStatus(e.tx, "Rejected")
    /\ \E r \in history' : r.tx = e.tx
         /\ rollback' = [record |-> r, step |-> "listing"]
    /\ UNCHANGED <<listings, credited, rankings, tasks, clients, chain, log,
                   pollVars>>

\* What the rollback makes of the table: a listing is deleted, a delisting
\* inserts the row again, a resale gives it back to the seller.
ListingsRolledBack(r) ==
  LET row == [seller |-> r.seller, price |-> r.prev, tx |-> r.tx] IN
    CASE r.action = "List"         -> Removed(r.name)
      [] r.action = "BuyAndRelist" -> Updated(r.name, row)
      [] OTHER                     -> Inserted(r.name, row)

RollbackListing ==
  /\ rollback # NoRecord
  /\ rollback.step = "listing"
  /\ listings' \in Outcomes(ListingsRolledBack(rollback.record), listings)
  /\ rollback' = [rollback EXCEPT !.step = "rankings"]
  /\ UNCHANGED <<history, credited, rankings, tasks, clients, chain, log,
                 pollVars>>

\* The listing rankings follow; the sale rankings and the points stay.
RollbackRankings ==
  LET r == rollback.record IN
    /\ rollback # NoRecord
    /\ rollback.step = "rankings"
    /\ \/ r.action \in {"Delist", "BuyAndDelist"} /\ RankAsNew(r.name, r.prev)
       \/ /\ r.action = "BuyAndRelist" /\ Listed(r.name)
          /\ RankAsNew(r.name, listings[r.name].price)
       \/ /\ r.action \notin {"Delist", "BuyAndDelist"}
          /\ r.action = "BuyAndRelist" => MayFail \/ ~ Listed(r.name)
          /\ Unrank(r.name)
    /\ rollback' = NoRecord
    /\ Poller!HandleNext
    /\ UNCHANGED <<tables, sales, tasks, clients, chain, log>>

\* The poller's steps between events.
PollIdle ==
  /\ Poller!Fetch \/ Poller!FinishBatch \/ Poller!SaveOffset \/ Poller!SaveFails
  /\ UNCHANGED <<tables, rankings, tasks, rollback, clients, chain, log>>

-----------------------------------------------------------------------------
(* The canister's own steps, crashes and restarts. *)

CanisterReports ==
  /\ \E n \in Names, s \in Progress : \E i \in 2 .. Len(chain[n]) : Chain!Report(n, i, s)
  /\ UNCHANGED <<tables, rankings, tasks, rollback, clients, pollVars>>

CanisterRejects ==
  /\ "reject" \in Faults
  /\ \E n \in Names : \E i \in 2 .. Len(chain[n]) : Chain!Reject(n, i)
  /\ UNCHANGED <<tables, rankings, tasks, rollback, clients, pollVars>>

\* All that was in memory is gone: the requests and the rollback under way.
Crash ==
  /\ "crash" \in Faults
  /\ Poller!Crash
  /\ pc' = [h \in Handlers |-> "idle"]
  /\ job' = [h \in Handlers |-> NoRecord]
  /\ rollback' = NoRecord
  /\ UNCHANGED <<tables, rankings, clients, chain, log>>

\* The sales rebuild_rankings_from_postgres finds in the history.
RecordedSales == {r.tx : r \in {q \in history : q.action \in Buys /\ q.status # "Rejected"}}

\* main: the rankings are rebuilt from PostgreSQL, then the poller starts.
Restart ==
  /\ Poller!Start
  /\ newListings' = {n \in Names : Listed(n)}
  /\ bestDeals' = [n \in Names |-> IF Listed(n) THEN listings[n].price ELSE NoPrice]
  /\ sales' = RecordedSales
  /\ UNCHANGED <<tables, tasks, rollback, clients, chain, log>>

HandlerStep(h) ==
  \/ AddRecord(h) \/ Invoke(h) \/ DeleteRecord(h)
  \/ ApplyListing(h) \/ ApplyRankings(h)
  \/ RelistCall(h) \/ RelistRecord(h) \/ RelistPrice(h) \/ RelistRank(h)

PollerStep ==
  PollIdle \/ PollStatus \/ PollRejected \/ RollbackListing \/ RollbackRankings

Request(h) ==
  \E u \in Users, n \in Names :
    \/ \E a \in Actions \ {"Relist"} : Validate(h, u, n, a)
    \/ "Relist" \in Actions /\ RelistRead(h, u, n)

Next ==
  \/ \E h \in Handlers : Request(h) \/ HandlerStep(h)
  \/ PollerStep
  \/ CanisterReports
  \/ CanisterRejects
  \/ Crash
  \/ Restart

Spec == Init /\ [][Next]_vars

\* Every task runs on and the canister answers its calls; the poller is a loop;
\* a stopped server is started again.  Users, rejections and crashes are not
\* obliged to happen, and the canister may take its time with its reports.
Fairness ==
  /\ \A h \in Handlers : WF_vars(HandlerStep(h))
  /\ WF_vars(PollerStep)
  /\ WF_vars(Restart)

FairSpec == Spec /\ Fairness

-----------------------------------------------------------------------------
(* Properties. *)

\* The transactions the canister has executed, also those it rejected later.
Accepted == {log[i].tx : i \in 1 .. Len(log)}

\* The name's sale, a SaleType, according to the canister and to the table.
Sale(seller, tx) == [seller |-> seller, tx |-> tx]
CanisterSale(n) ==
  LET e == Chain!Current(n) IN IF e.listed THEN Sale(e.owner, e.tx) ELSE NoListing
TableSale(table, n) ==
  IF table[n] = NoListing THEN NoListing ELSE Sale(table[n].seller, table[n].tx)

\* The handlers whose trade the canister executed and the table does not show.
Unapplied(n) == {h \in Handlers : pc[h] = "accepted" /\ job[h].name = n}

\* Nothing runs and nothing is left to read: no request, no rollback, and the
\* poller has handled the whole log.
Quiet ==
  /\ \A h \in Handlers : pc[h] = "idle"
  /\ phase = "sleeping"
  /\ memOffset = Len(log)

\* A row is the canister's sale of its name, or of one that has ended: a trade that
\* spent the row's outpoint was executed, and its task has been answered and is
\* about to remove or replace the row.  So no row outlives its sale, however the
\* requests on a name interleave, those of one user among them.  It rests on the
\* outpoint check of the validators, read before two awaits and used after them,
\* on the primary key, and on the order invoke, then handle_pending (trading.rs
\* list, delist, buy_*).
RowsFollowCanister ==
  \A n \in Names : Listed(n) =>
    \/ TableSale(listings, n) = CanisterSale(n)
    \/ \E h \in Unapplied(n) : psbts[job[h].tx].input = listings[n].tx

\* The executed trades and the table at rest: a name the canister has for sale is
\* offered, "to complete the listing" (API.md:400).  The listing of a name whose
\* withdrawal is executed and not yet applied breaks it: its INSERT meets the old
\* row, which the withdrawal then deletes.
OffersAreShown ==
  Quiet => \A n \in Names : Chain!Current(n).listed => Listed(n)

\* The market the users see: of the canister the last action on each name, of the
\* tasks the deals they are about to show, of the table who sells and the outpoint,
\* of the transactions the executed ones.
KindOf(t) ==
  IF t = NoTx THEN "etched"
  ELSE CASE psbts[t].action = "List"   -> "list"
         [] psbts[t].action = "Delist" -> "delist"
         [] OTHER                      -> "buy"

LastDeal(n) ==
  LET e == Chain!Current(n) IN
    [kind |-> KindOf(e.tx), owner |-> e.owner, listed |-> e.listed, tx |-> e.tx]

DealOf(r) ==
  [kind |-> KindOf(r.tx), owner |-> r.who,
   listed |-> r.action \in {"List", "BuyAndRelist"}, tx |-> r.tx]

Unshown(n) == {DealOf(job[h]) : h \in Unapplied(n)}

Deals == INSTANCE Market
  WITH held <- [n \in Names |-> LastDeal(n)],
       pending <- [n \in Names |-> Unshown(n)],
       shown <- [n \in Names |-> TableSale(listings, n)],
       done <- Accepted,
       Txs <- 1 .. MaxTxs, Etching <- NoTx, NoOffer <- NoListing

\* The market implements Market: without failures a name is offered by its holder,
\* withdrawn by its seller only and sold on the terms that are shown, although
\* the validators read the table two awaits before the canister is asked; each
\* signed transaction makes one deal, also if it is sent twice; and each deal is
\* shown in the end, unless it is the listing of a name whose withdrawal is not
\* yet applied, which the INSERT may refuse (trading.rs list, delist, buy_*;
\* event.rs handle_pending).
ImplementsMarket == Deals!MarketSpec

\* A row of the listings table belongs to a trade of its name that the canister
\* executed, and shows the seller who signed it for sale, unless the trade was
\* rejected and the row is what the rollback left; a credit of points belongs to a
\* purchase that the canister executed: neither a refused invoke nor any crash, lost
\* answer, failed statement, resubmission or rollback makes it otherwise (trading.rs:
\* handle_pending runs on Ok only; event.rs handle_rejected).
OnlyExecutedTradesShow ==
  /\ \A n \in Names : Listed(n) =>
       LET row == listings[n]
           p == psbts[row.tx]
       IN /\ row.tx \in Accepted
          /\ p.name = n
          /\ \/ p.action \in {"List", "BuyAndRelist"} /\ p.who = row.seller
             \/ Chain!Published(row.tx, "Rejected")
  /\ \A t \in credited : t \in Accepted /\ psbts[t].action \in Buys

\* Every trade the canister executed has a record, across crashes and
\* rejections: the record is inserted before invoke and deleted only when
\* invoke failed (trading.rs, "Create trade history record").
ExecutedTradesAreRecorded ==
  \A t \in Accepted : \E r \in history : r.tx = t

\* Where no request is cut short, a record whose trade was not executed belongs
\* to a request that still runs: the failed ones are cleaned up.
NoOrphanRecords ==
  \A r \in history :
    \/ r.tx \in Accepted \cup {NoTx}
    \/ \E h \in Handlers : pc[h] \in {"recorded", "refused"} /\ job[h] = r

\* The last status the canister published of a transaction.
LastStatus(t) ==
  LET positions == {i \in 1 .. Len(log) : log[i].tx = t} IN
    log[CHOOSE i \in positions : \A j \in positions : j <= i].status

\* Whenever the poller has handled the whole log, every recorded trade has the
\* last status the canister published for it, whatever was replayed after
\* crashes on the way (event.rs handle_status_change; update_trade_status
\* overwrites the status without looking at it).
StatusesCatchUp ==
  (phase = "sleeping" /\ memOffset = Len(log)) =>
    \A r \in history : r.tx \in Accepted => r.status = LastStatus(r.tx)

\* When no request is running, best_deals ranks exactly the names for sale, at
\* the price of their row, and new_listings no others (event.rs
\* update_listing_rankings and remove_listing_rankings, trading.rs relist,
\* main.rs rebuild_rankings_from_postgres).
RankingsFollowTable ==
  (\A h \in Handlers : pc[h] = "idle") /\ phase # "down" =>
    /\ newListings \subseteq {n \in Names : Listed(n)}
    /\ \A n \in Names :
         bestDeals[n] = IF Listed(n) THEN listings[n].price ELSE NoPrice

\* When all is quiet, only names the canister has for sale have a row: "only
\* currently listed names" (domain/trading.rs:9).
OnlyListedNamesHaveRows ==
  Quiet => \A n \in Names : Listed(n) => Chain!Current(n).listed

\* When all is quiet, a row shows the price the canister sells at: after any
\* interleaving of listings, resales and withdrawals, and, if they run one at a
\* time, of price changes too, as long as no statement fails (trading.rs relist,
\* list, buy_and_relist write the canister first and the table later).
PricesFollowCanister ==
  Quiet => \A n \in Names :
             Listed(n) => listings[n].price = Chain!Current(n).price

\* The poller of this system, whose handling of one event takes several steps that
\* a crash can separate, hands over the canister's status changes in the order of
\* the log and passes over none, and stores no offset ahead of one that was not
\* handled (event.rs polling_loop, poll_once, handle_status_change).
StatusesDelivered == Poller!DeliverySpec

\* A price change reaches the canister only while the name still belongs to
\* the seller who asked for it: "Change the price of your existing listing"
\* (API.md:585).  The seller is read before the call.
RelistsOwnListing ==
  [][\A h \in Handlers :
       pc[h] = "relistRead" /\ pc'[h] = "relistDone" =>
         Chain!Current(job[h].name).owner = job[h].who]_vars

\* The poller's rollback writes the listings table.
RollsBackListing ==
  /\ rollback # NoRecord
  /\ rollback' = [rollback EXCEPT !.step = "rankings"]

\* The rollback of a delisting or a purchase (event.rs:462, "rollback listings
\* changes") leaves the row with the outpoint the rejected transaction was to
\* spend, the only one the next delisting or purchase can spend.
RollbackRestoresRow ==
  [][RollsBackListing /\ rollback.record.action # "List" =>
       \A n \in Names :
         listings'[n] # listings[n] =>
           listings'[n].tx = psbts[rollback.record.tx].input]_vars

\* A transaction the canister reports finalized or confirmed becomes so in the
\* trade history, across crashes and replays (event.rs polling_loop,
\* handle_status_change).
FinalityReachesHistory ==
  \A t \in 1 .. MaxTxs :
    Chain!Published(t, "Finalized") \/ Chain!Published(t, "Confirmed") ~>
      \E r \in history : r.tx = t /\ r.status \in {"Finalized", "Confirmed"}
=============================================================================
