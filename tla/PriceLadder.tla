----------------------------- MODULE PriceLadder -----------------------------
(***************************************************************************)
(* The price of one name from owner to owner, one request at a time: what  *)
(* a listing, a price change and a purchase may ask for, what the platform *)
(* takes, and how its fees raise the seller's level and lower later fees   *)
(* (service/trading.rs validate_price, calculate_previous_price,           *)
(* calculate_platform_fee; service/event.rs add_seller_points).            *)
(***************************************************************************)
EXTENDS PriceRules

CONSTANTS
  Users,                \* users with a primary name
  Fees,                 \* fees the name's etching may have paid
  Prices,               \* prices users ask for
  InitialPoints,        \* points a user may start with
  MaxPurchases          \* bound: purchases

ASSUME LadderAssumption ==
  /\ Fees \subseteq Nat
  /\ Prices \subseteq Nat
  /\ InitialPoints \subseteq Nat
  /\ MaxPurchases \in Nat

VARIABLES
  etchingFee,           \* fee of the etching transaction
  owner,                \* who holds or sells the name
  ask,                  \* price of the listing, NotForSale without one
  lastBought,           \* price of the last purchase record, or NeverBought
  points,               \* points[u]: nft_points of u's primary name
  undo,                 \* the sale that ends if the last purchase is rejected
  reliable,             \* FALSE once a query failed for ask, or a purchase did
  purchases             \* purchases so far, for the bound

vars == <<etchingFee, owner, ask, lastBought, points, undo, reliable, purchases>>

NotForSale == 0
NeverBought == 0

\* An asking price: none, or one no lower than the market's minimum.
Asks == {p \in Nat : p = NotForSale \/ p >= GlobalMinPrice}

\* Types; a name for sale never costs less than the market's minimum.
TypeOK ==
  /\ etchingFee \in Nat
  /\ owner \in Users
  /\ ask \in Asks
  /\ lastBought \in Nat
  /\ points \in [Users -> Nat]
  /\ undo \in [owner : Users, ask : Asks]
  /\ reliable \in BOOLEAN
  /\ purchases \in Nat

Init ==
  /\ etchingFee \in Fees
  /\ owner \in Users
  /\ ask = NotForSale
  /\ lastBought = NeverBought
  /\ points \in [Users -> InitialPoints]
  /\ undo = [owner |-> owner, ask |-> NotForSale]
  /\ reliable = TRUE
  /\ purchases = 0

\* What calculate_previous_price gives, and what it falls back to when the
\* last purchase cannot be read.
BasePrice ==
  IF lastBought # NeverBought THEN lastBought ELSE EtchingFeePrice(etchingFee)

LookedUp(base) ==
  \/ base = BasePrice /\ reliable' = TRUE
  \/ base = EtchingFeePrice(etchingFee) /\ reliable' = FALSE

Fee(buyer) ==
  PlatformFee(ask, PointsToLevel(points[owner]), PointsToLevel(points[buyer]))

\* A trade of its own makes the purchase before it final.
Settle == undo' = [owner |-> owner, ask |-> NotForSale]

List(p) ==
  /\ ask = NotForSale
  /\ \E base \in {BasePrice, EtchingFeePrice(etchingFee)} :
       LookedUp(base) /\ PriceAllowed(base, p)
  /\ ask' = p
  /\ Settle
  /\ UNCHANGED <<etchingFee, owner, lastBought, points, purchases>>

Delist ==
  /\ ask # NotForSale
  /\ ask' = NotForSale
  /\ Settle
  /\ UNCHANGED <<etchingFee, owner, lastBought, points, reliable, purchases>>

\* Mutant of Relist: the new price is based on the price it replaces.
RelistFromAsk(p) ==
  /\ ask # NotForSale
  /\ PriceAllowed(ask, p)
  /\ ask' = p
  /\ reliable' = TRUE
  /\ UNCHANGED <<etchingFee, owner, lastBought, points, undo, purchases>>

\* The new price is based on the last purchase; on the price it replaces only
\* when every query failed.
Relist(p) ==
  /\ ask # NotForSale
  /\ \/ \E base \in {BasePrice, EtchingFeePrice(etchingFee)} :
          LookedUp(base) /\ PriceAllowed(base, p)
     \/ PriceAllowed(ask, p) /\ reliable' = FALSE
  /\ ask' = p
  /\ UNCHANGED <<etchingFee, owner, lastBought, points, undo, purchases>>

\* A purchase: the seller's name collects the fee as points.
Buy(buyer) ==
  /\ ask # NotForSale
  /\ purchases < MaxPurchases
  /\ owner' = buyer
  /\ points' = [points EXCEPT ![owner] = @ + Fee(buyer)]
  /\ undo' = [owner |-> owner, ask |-> ask]
  /\ purchases' = purchases + 1
  /\ UNCHANGED etchingFee

\* The record of a resale holds the price the buyer asks for, not the price
\* paid; the new price is based on the price paid.
BuyAndRelist(buyer, p) ==
  /\ Buy(buyer)
  /\ PriceAllowed(ask, p)
  /\ ask' = p
  /\ lastBought' = p
  /\ reliable' = TRUE

BuyAndDelist(buyer) ==
  /\ Buy(buyer)
  /\ ask' = NotForSale
  /\ lastBought' = ask
  /\ UNCHANGED reliable

\* A crash before the canister is called leaves the record of a purchase.
AbandonPurchase(p) ==
  /\ ask # NotForSale
  /\ p = ask \/ PriceAllowed(ask, p)
  /\ lastBought' = p
  /\ reliable' = FALSE
  /\ UNCHANGED <<etchingFee, owner, ask, points, undo, purchases>>

\* The canister rejects the last purchase: the sale is restored, the record
\* and the points stay.
RejectPurchase ==
  /\ undo.ask # NotForSale
  /\ owner' = undo.owner
  /\ ask' = undo.ask
  /\ undo' = [undo EXCEPT !.ask = NotForSale]
  /\ reliable' = FALSE
  /\ UNCHANGED <<etchingFee, lastBought, points, purchases>>

Next ==
  \/ \E p \in Prices : List(p) \/ Relist(p) \/ AbandonPurchase(p)
  \/ Delist
  \/ \E b \in Users : BuyAndDelist(b) \/ \E p \in Prices : BuyAndRelist(b, p)
  \/ RejectPurchase

Spec == Init /\ [][Next]_vars

-----------------------------------------------------------------------------
\* Whatever the sequence of listings, price changes and purchases, a name is
\* not for sale above 126 percent of its last purchase record: price changes do
\* not add up, and a resale above its own base does not either.  The exceptions
\* are named: a query that failed when the price was set, a purchase that left
\* its record without taking place (trading.rs relist, validate_price).
PriceCeiling == reliable => ask <= HighestPrice(BasePrice)

\* The owner of a name can always ask some price for it: the range the next
\* listing is checked against is never empty, not even after abandoned and
\* rejected purchases (trading.rs validate_price, event.rs
\* calculate_etching_fee_price).
AlwaysSellable == LowestPrice(BasePrice) <= HighestPrice(BasePrice)

\* The fee of any purchase that may come next lies between one and two percent
\* of the price, so price_sats - fee_sats cannot underflow and neither can 20
\* less the two levels (trading.rs calculate_platform_fee, buy_and_relist).
FeeShare ==
  ask # NotForSale =>
    \A b \in Users : ask \div 100 <= Fee(b) /\ Fee(b) <= ask \div 50
=============================================================================
