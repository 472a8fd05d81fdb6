----------------------------- MODULE MCRankings -----------------------------
(***************************************************************************)
(* Small instances of the market's prices and rankings, for TLC.  They      *)
(* share no state (what joins them is Trading.tla), so their product says   *)
(* nothing that one of them alone does not: a behaviour follows one of      *)
(* them, chosen at its start, and leaves the others where they begin.       *)
(***************************************************************************)
EXTENDS PriceLadder, RankFeed, SaleRankings, TLC

VARIABLE part           \* the one followed

RankingsInit ==
  /\ part \in {"ladder", "feed", "sales"}
  /\ Init /\ FeedInit /\ SaleInit
  /\ part # "feed" => ranking = "new"
  /\ part # "ladder" =>
       /\ \A fee \in Fees : etchingFee <= fee
       /\ owner = CHOOSE u \in Users : TRUE
       /\ \A u \in Users, p \in InitialPoints : points[u] <= p

LadderStep == part = "ladder" /\ Next /\ UNCHANGED <<part, feedVars, saleVars>>
FeedStep == part = "feed" /\ FeedNext /\ UNCHANGED <<part, vars, saleVars>>
SalesStep == part = "sales" /\ SaleNext /\ UNCHANGED <<part, vars, feedVars>>

RankingsNext == LadderStep \/ FeedStep \/ SalesStep

RankingsSpec ==
  RankingsInit /\ [][RankingsNext]_<<part, vars, feedVars, saleVars>>

\* The types of the ladder's prices and records and of both kinds of rankings:
\* among others that a shown sale is one of its name, and the channel is bounded.
RankingsTypeOK ==
  CASE part = "feed"   -> FeedTypeOK
    [] part = "sales"  -> SaleTypeOK
    [] part = "ladder" -> TypeOK

\* A name is listed at a better, a worse and the best discount in turn.
ChangingDeals == <<2, 1, 3>>

SoldNames == Permutations(SaleNames)
=============================================================================
