---------------------------- MODULE SaleRankings ----------------------------
(***************************************************************************)
(* The rankings of sales: recent sales, most traded names and top earners.  *)
(* A purchase's request inserts its record, invokes the canister and then   *)
(* updates one ranking after another from what it reads in trade_history    *)
(* (update_sale_rankings of service/event.rs); a server that starts clears   *)
(* them and computes them anew from trade_history (main.rs).  A ranking's    *)
(* entry and its metadata are one step here (they are two in RankFeed.tla);  *)
(* prices, and top sales, which differs from recent sales in them, are left  *)
(* out.                                                                      *)
(***************************************************************************)
EXTENDS Integers, Sequences, FiniteSets, SequencesExt

CONSTANTS
  SaleNames, Sellers,   \* names, and seller addresses
  Limit,                \* LIMIT 20 of the queries of main.rs
  MaxSales, MaxRestarts, \* bounds
  MaxBuying,            \* bound: purchase requests at a time
  MaxFaulty             \* bound: a statement or Redis command fails while at most so
                        \* many purchases were recorded and none was blurred

ASSUME SaleAssumption ==
  /\ SaleNames \cap Sellers = {} /\ IsFiniteSet(SaleNames) /\ IsFiniteSet(Sellers)
  /\ Limit \in Nat \ {0} /\ MaxSales \in Nat /\ MaxRestarts \in Nat
  /\ MaxBuying \in Nat /\ MaxFaulty \in Nat

VARIABLES
  trades,               \* the purchases recorded, by number
  byTime,               \* their numbers by updated_at, the latest last
  recent,               \* recent_sales: the trade shown for each name, or 0
  most,                 \* most_traded: each name's count, 0 if it has no entry
  earners,              \* top_earners: each seller's trade count, or 0
  sale,                 \* where each purchase's request stands, and its count
  restarts,             \* for the bound
  blurred,              \* history: names and sellers of overlapping purchases, or
                        \* of a failed step
  rebuilt               \* history: names whose recent sale a restart computed

saleRanks == <<recent, most, earners>>
saleVars == <<trades, byTime, saleRanks, sale, restarts, blurred, rebuilt>>

Numbers == 0 .. MaxSales
Statuses == {"pending", "finalized", "rejected", "deleted"}
SaleSteps == {"none", "invoke", "count", "recent", "most", "sum", "earners"}
Ended == [at |-> "none", count |-> 0]

\* executed: did the canister execute the purchase?
Trade == [name : SaleNames, seller : Sellers, status : Statuses, executed : BOOLEAN]

Recorded == {k \in DOMAIN trades : trades[k].status # "deleted"}
\* status IN ('pending', 'finalized', 'confirmed').
Counting == {k \in Recorded : trades[k].status # "rejected"}
SalesOf(n) == {k \in Recorded : trades[k].name = n}
SalesBy(s) == {k \in Recorded : trades[k].seller = s}

\* Types, and that a shown sale is one of its name.
SaleTypeOK ==
  /\ trades \in Seq(Trade) /\ Len(trades) <= MaxSales
  /\ byTime \in Seq(DOMAIN trades) /\ Len(byTime) = Len(trades)
  /\ recent \in [SaleNames -> Numbers] /\ most \in [SaleNames -> Numbers]
  /\ earners \in [Sellers -> Numbers]
  /\ \A n \in SaleNames : recent[n] # 0 =>
       recent[n] \in DOMAIN trades /\ trades[recent[n]].name = n
  /\ sale \in Seq([at : SaleSteps, count : Numbers]) /\ Len(sale) = Len(trades)
  /\ restarts \in 0 .. MaxRestarts
  /\ blurred \subseteq SaleNames \cup Sellers /\ rebuilt \subseteq SaleNames

SaleInit ==
  /\ trades = <<>> /\ byTime = <<>>
  /\ recent = [n \in SaleNames |-> 0] /\ most = [n \in SaleNames |-> 0]
  /\ earners = [s \in Sellers |-> 0]
  /\ sale = <<>>
  /\ restarts = 0
  /\ blurred = {} /\ rebuilt = {}

-----------------------------------------------------------------------------
Active == {k \in DOMAIN sale : sale[k].at # "none"}
Step(k, at, count) == sale' = [sale EXCEPT ![k] = [at |-> at, count |-> count]]
Fails(k) ==
  /\ Len(trades) <= MaxFaulty /\ blurred = {}
  /\ blurred' = {trades[k].name, trades[k].seller}
Finish(k) == sale' = [sale EXCEPT ![k] = Ended]

\* The place of a purchase in the order of updated_at.
Place(k) == CHOOSE i \in DOMAIN byTime : byTime[i] = k
Later(j, k) == Place(j) > Place(k)
UpdatedNow(k) == Append(RemoveAt(byTime, Place(k)), k)

\* add_trade_record; what was read before it is in Trading.tla.
Record(n, s) ==
  /\ Cardinality(Active) < MaxBuying
  /\ Len(trades) < MaxSales
  /\ trades' = Append(trades, [name |-> n, seller |-> s, status |-> "pending",
                               executed |-> FALSE])
  /\ byTime' = Append(byTime, Len(trades) + 1)
  /\ sale' = Append(sale, [at |-> "invoke", count |-> 0])
  /\ blurred' = blurred \cup
       ({n, s} \cap UNION {{trades[k].name, trades[k].seller} : k \in Active})
  /\ UNCHANGED <<saleRanks, restarts, rebuilt>>

\* invoke: accepted, and the listing is read, without which nothing is ranked; or
\* refused, and the record is deleted.
Invoke(k) ==
  /\ sale[k].at = "invoke"
  /\ \/ /\ trades' = [trades EXCEPT ![k].executed = TRUE]
        /\ \/ Step(k, "count", 0) /\ UNCHANGED blurred
           \/ Fails(k) /\ Finish(k)
     \/ /\ Finish(k)
        /\ \/ trades' = [trades EXCEPT ![k].status = "deleted"] /\ UNCHANGED blurred
           \/ Fails(k) /\ UNCHANGED trades
  /\ UNCHANGED <<byTime, saleRanks, restarts, rebuilt>>

\* Mutant of CountSales: the record just inserted is counted on top.
CountSalesTwice(k) ==
  /\ sale[k].at = "count"
  /\ Step(k, "recent", Cardinality(SalesOf(trades[k].name) \ {k}) + 2)
  /\ UNCHANGED <<trades, byTime, saleRanks, restarts, rebuilt, blurred>>

\* get_listing_traded_count, of any status; 0 if the query fails.
CountSales(k) ==
  /\ sale[k].at = "count"
  /\ \/ Step(k, "recent", Cardinality(SalesOf(trades[k].name))) /\ UNCHANGED blurred
     \/ Fails(k) /\ Step(k, "recent", 0)
  /\ UNCHANGED <<trades, byTime, saleRanks, restarts, rebuilt>>

\* add_recent_sale; a failure is logged, and the next ranking updated.
AddRecent(k) ==
  LET n == trades[k].name IN
    /\ sale[k].at = "recent"
    /\ \/ /\ recent' = [recent EXCEPT ![n] = k]
          /\ rebuilt' = rebuilt \ {n}
          /\ UNCHANGED blurred
       \/ Fails(k) /\ UNCHANGED <<recent, rebuilt>>
    /\ Step(k, "most", sale[k].count)
    /\ UNCHANGED <<trades, byTime, most, earners, restarts>>

\* add_most_traded, with the count read before.
AddMost(k) ==
  /\ sale[k].at = "most"
  /\ \/ most' = [most EXCEPT ![trades[k].name] = sale[k].count] /\ UNCHANGED blurred
     \/ Fails(k) /\ UNCHANGED most
  /\ Step(k, "sum", 0)
  /\ UNCHANGED <<trades, byTime, recent, earners, restarts, rebuilt>>

\* get_top_earner, of any status; if it fails the earners stay.
SumEarner(k) ==
  /\ sale[k].at = "sum"
  /\ \/ Step(k, "earners", Cardinality(SalesBy(trades[k].seller))) /\ UNCHANGED blurred
     \/ Fails(k) /\ Finish(k)
  /\ UNCHANGED <<trades, byTime, saleRanks, restarts, rebuilt>>

\* add_top_earner.
AddEarner(k) ==
  /\ sale[k].at = "earners"
  /\ \/ earners' = [earners EXCEPT ![trades[k].seller] = sale[k].count] /\ UNCHANGED blurred
     \/ Fails(k) /\ UNCHANGED earners
  /\ Finish(k)
  /\ UNCHANGED <<trades, byTime, recent, most, restarts, rebuilt>>

\* The poller reports a purchase as final or rejected: updated_at is now, and a
\* rejection leaves the sale rankings as they are (event.rs:559, a TODO).
SetStatus(k) ==
  /\ k \in Counting /\ trades[k].executed /\ trades[k].status = "pending"
  /\ \E to \in {"finalized", "rejected"} :
       trades' = [trades EXCEPT ![k].status = to]
  /\ byTime' = UpdatedNow(k)
  /\ UNCHANGED <<saleRanks, sale, restarts, blurred, rebuilt>>

-----------------------------------------------------------------------------
(* rebuild_rankings_from_postgres. *)

\* ORDER BY updated_at DESC LIMIT 20.
LatestRows ==
  {k \in Counting : Cardinality({j \in Counting : Later(j, k)}) < Limit}
\* Rows are added from the latest on, and each entry of a name replaces the one
\* before: the earliest of a name's rows stays.
RebuiltRecent(rows) ==
  [n \in SaleNames |->
    LET mine == {k \in rows : trades[k].name = n}
    IN IF mine = {} THEN 0
       ELSE CHOOSE k \in mine : \A j \in mine \ {k} : Later(j, k)]
\* GROUP BY and LIMIT 20: the groups are ordered by their counts or by sums of
\* prices; which of them the limit keeps is left open.
Grouped(counts) ==
  LET all == {g \in DOMAIN counts : counts[g] > 0} IN
    {[g \in DOMAIN counts |-> IF g \in kept THEN counts[g] ELSE 0] :
       kept \in {S \in SUBSET all : \/ Cardinality(S) = Limit
                                    \/ S = all /\ Cardinality(all) < Limit}}

\* Mutant of Restart: rows that a status change touched are not read.
RestartUntouched ==
  LET ofNames == [n \in SaleNames |-> Cardinality(SalesOf(n) \cap Counting)]
      bySellers == [s \in Sellers |-> Cardinality(SalesBy(s) \cap Counting)] IN
    /\ restarts < MaxRestarts
    /\ restarts' = restarts + 1
    /\ sale' = [k \in DOMAIN sale |-> Ended]
    /\ recent' = RebuiltRecent({k \in LatestRows : trades[k].status = "pending"})
    /\ most' \in Grouped(ofNames)
    /\ earners' \in Grouped(bySellers)
    /\ blurred' = {} /\ rebuilt' = SaleNames
    /\ UNCHANGED <<trades, byTime>>

\* The server stops, and starts again: requests are lost where they stand.
Restart ==
  LET ofNames == [n \in SaleNames |-> Cardinality(SalesOf(n) \cap Counting)]
      bySellers == [s \in Sellers |-> Cardinality(SalesBy(s) \cap Counting)] IN
    /\ restarts < MaxRestarts
    /\ restarts' = restarts + 1
    /\ sale' = [k \in DOMAIN sale |-> Ended]
    /\ recent' = RebuiltRecent(LatestRows)
    /\ most' \in Grouped(ofNames)
    /\ earners' \in Grouped(bySellers)
    /\ blurred' = {} /\ rebuilt' = SaleNames
    /\ UNCHANGED <<trades, byTime>>

SaleStep(k) ==
  \/ Invoke(k) \/ CountSales(k) \/ AddRecent(k) \/ AddMost(k)
  \/ SumEarner(k) \/ AddEarner(k)

SaleNext ==
  \/ \E n \in SaleNames, s \in Sellers : Record(n, s)
  \/ \E k \in DOMAIN trades : SaleStep(k) \/ SetStatus(k)
  \/ Restart

SaleSpec == SaleInit /\ [][SaleNext]_saleVars

-----------------------------------------------------------------------------
\* A name, or seller, none of whose purchases is under way, overlapped another or
\* had a failed step, and all of whose records are of executed purchases that
\* stand.  (One left behind by a crash before invoke counts in the rebuild,
\* main.rs:257; a rejected one only in the running server.)
Plain(x, ks) ==
  /\ x \notin blurred
  /\ Active \cap ks = {}
  /\ \A k \in ks : trades[k].executed /\ trades[k].status # "rejected"

\* "This ensures rankings are consistent after server restart or crash"
\* (main.rs:186): the running server and the rebuild count the same trades, all
\* purchases of the name or seller, whatever other purchases, failures and
\* crashes happened; as long as the groups fit into the limit.
CountsAreExact ==
  /\ \A n \in SaleNames :
       Plain(n, SalesOf(n)) /\ Cardinality(SaleNames) <= Limit
         => most[n] = Cardinality(SalesOf(n))
  /\ \A s \in Sellers :
       Plain(s, SalesBy(s)) /\ Cardinality(Sellers) <= Limit
         => earners[s] = Cardinality(SalesBy(s))

\* A sold name has an entry, also after a restart if the limit leaves out no
\* record; it is that of the name's last sale if the name was sold once, or since
\* the restart (main.rs:257-285 lets a name's earliest row win, event.rs:640-649
\* the last).
RecentSalesShown ==
  \A n \in SaleNames :
    Plain(n, SalesOf(n)) /\ SalesOf(n) # {} =>
      /\ n \notin rebuilt \/ Len(trades) <= Limit => recent[n] # 0
      /\ recent[n] # 0 /\ (n \notin rebuilt \/ Cardinality(SalesOf(n)) = 1)
           => \A k \in SalesOf(n) : k <= recent[n]
=============================================================================
