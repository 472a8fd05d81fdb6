----------------------------- MODULE SaleProofs -----------------------------
(***************************************************************************)
(* Proofs about PriceLadder, for every price, fee and number of points, and *)
(* about SaleRankings, for any names, sellers, limit and number of sales:   *)
(* the rankings of sales count the sales, and show the last of each name.   *)
(***************************************************************************)
EXTENDS PriceLadder, SaleRankings, FiniteSetTheorems, SequenceTheorems,
        WellFoundedInduction, TLAPS

-----------------------------------------------------------------------------
(* The operators of PriceRules. *)

\* The range of prices based on a price no lower than the market's minimum
\* contains that price, so it is not empty.
LEMMA RangeContainsBase ==
  ASSUME NEW base \in Nat, base >= GlobalMinPrice
  PROVE  LowestPrice(base) <= base /\ base <= HighestPrice(base)
  <1>1. base <= (base * 126) \div 100
    BY DEF GlobalMinPrice
  <1>2. ((base * 126) \div 100) \div 100 <= base
    OBVIOUS
  <1> QED
    BY <1>1, <1>2 DEF HighestPrice, LowestPrice, GlobalMinPrice

LEMMA HighestPriceNat ==
  ASSUME NEW base \in Nat
  PROVE  HighestPrice(base) \in Nat
  BY DEF HighestPrice

\* An allowed price is no lower than the market's minimum.
LEMMA AllowedAboveMinimum ==
  ASSUME NEW base \in Nat, NEW p \in Nat, PriceAllowed(base, p)
  PROVE  p >= GlobalMinPrice
  BY DEF PriceAllowed, LowestPrice, HighestPrice, GlobalMinPrice

\* The price taken from the etching fee lies between the market's minimum and
\* the cap for first prices.
LEMMA EtchingFeePriceBounds ==
  ASSUME NEW fee \in Nat
  PROVE  /\ EtchingFeePrice(fee) \in Nat
         /\ GlobalMinPrice <= EtchingFeePrice(fee)
         /\ EtchingFeePrice(fee) <= InitMaxPrice
  BY DEF EtchingFeePrice, GlobalMinPrice, InitMaxPrice

\* Points give one of six levels.
LEMMA LevelBounds ==
  ASSUME NEW n \in Nat
  PROVE  PointsToLevel(n) \in 0 .. 5
  BY DEF PointsToLevel

\* For levels up to five the fee is between one and two percent of a price that
\* reaches the market's minimum; the dust amount never takes effect there.
LEMMA PlatformFeeBounds ==
  ASSUME NEW price \in Nat, price >= GlobalMinPrice,
         NEW s \in 0 .. 5, NEW b \in 0 .. 5
  PROVE  /\ PlatformFee(price, s, b) \in Nat
         /\ price \div 100 <= PlatformFee(price, s, b)
         /\ PlatformFee(price, s, b) <= price \div 50
  <1> DEFINE r == 20 - s - b
  <1>1. r \in 10 .. 20
    OBVIOUS
  <1>2. price * 10 <= price * r /\ price * r <= price * 20 /\ price * r \in Nat
    BY <1>1
  <1> DEFINE product == price * r
  <1>3. product \in Nat /\ price * 10 <= product /\ product <= price * 20
    BY <1>2
  <1>4. PlatformFee(price, s, b) = IF product \div 1000 > 330 THEN product \div 1000 ELSE 330
    BY DEF PlatformFee, Dust
  <1> HIDE DEF product
  <1>5. product \div 1000 > 330
    BY <1>3 DEF GlobalMinPrice
  <1>6. price \div 100 <= product \div 1000 /\ product \div 1000 <= price \div 50
    BY <1>3
  <1> QED
    BY <1>3, <1>4, <1>5, <1>6

-----------------------------------------------------------------------------
(* The inductive invariant of PriceLadder. *)

\* Once a name was bought, its last purchase record is no lower than the
\* market's minimum either.
BoughtAboveMinimum == lastBought # NeverBought => lastBought >= GlobalMinPrice

IInv == TypeOK /\ BoughtAboveMinimum /\ PriceCeiling

LEMMA BasePriceBound ==
  ASSUME TypeOK, BoughtAboveMinimum
  PROVE  BasePrice \in Nat /\ BasePrice >= GlobalMinPrice
  <1>1. EtchingFeePrice(etchingFee) \in Nat
          /\ EtchingFeePrice(etchingFee) >= GlobalMinPrice
    BY EtchingFeePriceBounds DEF TypeOK, GlobalMinPrice
  <1> QED
    BY <1>1 DEF TypeOK, BoughtAboveMinimum, BasePrice, NeverBought

LEMMA FeeBound ==
  ASSUME TypeOK, ask # NotForSale, NEW b \in Users
  PROVE  Fee(b) \in Nat /\ ask \div 100 <= Fee(b) /\ Fee(b) <= ask \div 50
  <1>1. PointsToLevel(points[owner]) \in 0 .. 5 /\ PointsToLevel(points[b]) \in 0 .. 5
    BY LevelBounds DEF TypeOK
  <1>2. ask \in Nat /\ ask >= GlobalMinPrice
    BY DEF TypeOK, Asks
  <1> QED
    BY <1>1, <1>2, PlatformFeeBounds DEF Fee

LEMMA InitIInv == Init => IInv
  <1> SUFFICES ASSUME Init PROVE IInv
    OBVIOUS
  <1>1. TypeOK
    BY LadderAssumption DEF Init, TypeOK, Asks, NotForSale, NeverBought
  <1>2. BoughtAboveMinimum
    BY DEF Init, BoughtAboveMinimum
  <1>3. PriceCeiling
    <2>1. BasePrice \in Nat /\ ask = 0
      BY <1>1, <1>2, BasePriceBound DEF Init, NotForSale
    <2> QED
      BY <2>1, HighestPriceNat DEF PriceCeiling
  <1> QED
    BY <1>1, <1>2, <1>3 DEF IInv

\* A price set by a listing or a price change reaches the market's minimum,
\* whatever base it was checked against.
LEMMA NewAsk ==
  ASSUME IInv, NEW p \in Prices, List(p) \/ Relist(p)
  PROVE  /\ p \in Asks
         /\ reliable' \in BOOLEAN
         /\ reliable' => PriceAllowed(BasePrice, p)
  <1>1. BasePrice \in Nat /\ EtchingFeePrice(etchingFee) \in Nat /\ ask \in Nat
    BY BasePriceBound, EtchingFeePriceBounds DEF IInv, TypeOK, Asks
  <1>2. p \in Nat
    BY LadderAssumption
  <1>3. /\ \/ PriceAllowed(BasePrice, p)
           \/ PriceAllowed(EtchingFeePrice(etchingFee), p)
           \/ PriceAllowed(ask, p)
        /\ reliable' \in BOOLEAN
        /\ reliable' => PriceAllowed(BasePrice, p)
    <2>1. CASE List(p)
      BY <2>1 DEF List, LookedUp
    <2>2. CASE Relist(p)
      BY <2>2 DEF Relist, LookedUp
    <2> QED
      BY <2>1, <2>2
  <1>4. p >= GlobalMinPrice
    BY <1>1, <1>2, <1>3, AllowedAboveMinimum
  <1> QED
    BY <1>2, <1>3, <1>4 DEF Asks

\* Listing and changing the price keep the base price.
LEMMA AskIInv ==
  ASSUME IInv, NEW p \in Prices, List(p) \/ Relist(p)
  PROVE  IInv'
  <1>1. /\ ask' = p
        /\ UNCHANGED <<etchingFee, owner, lastBought, points, purchases>>
        /\ undo' = undo \/ undo' = [owner |-> owner, ask |-> NotForSale]
    BY DEF List, Relist, Settle
  <1>2. TypeOK' /\ BoughtAboveMinimum'
    BY <1>1, NewAsk DEF IInv, TypeOK, Asks, BoughtAboveMinimum, NotForSale
  <1>3. BasePrice' = BasePrice
    BY <1>1 DEF BasePrice
  <1>4. PriceCeiling'
    BY <1>1, <1>3, NewAsk DEF PriceCeiling, PriceAllowed
  <1> QED
    BY <1>2, <1>4 DEF IInv

LEMMA DelistIInv == ASSUME IInv, Delist PROVE IInv'
  <1>1. TypeOK' /\ BoughtAboveMinimum'
    BY DEF IInv, TypeOK, Asks, BoughtAboveMinimum, Delist, Settle, NotForSale
  <1>2. PriceCeiling'
    <2>1. BasePrice \in Nat /\ BasePrice' = BasePrice /\ ask' = 0
      BY BasePriceBound DEF IInv, Delist, NotForSale, BasePrice
    <2>2. HighestPrice(BasePrice) \in Nat
      BY <2>1, HighestPriceNat
    <2> QED
      BY <2>1, <2>2 DEF PriceCeiling
  <1> QED
    BY <1>1, <1>2 DEF IInv

\* What every purchase keeps: the seller's points grow by a natural number.
LEMMA BuyTypes ==
  ASSUME TypeOK, NEW b \in Users, Buy(b)
  PROVE  /\ points' \in [Users -> Nat] /\ owner' \in Users
         /\ undo' \in [owner : Users, ask : Asks]
         /\ purchases' \in Nat /\ etchingFee' \in Nat
  <1>1. Fee(b) \in Nat
    BY FeeBound DEF Buy
  <1> QED
    BY <1>1 DEF TypeOK, Buy

\* A resale is recorded at the price asked for, so that price is its own base.
LEMMA BuyAndRelistIInv ==
  ASSUME IInv, NEW b \in Users, NEW p \in Prices, BuyAndRelist(b, p)
  PROVE  IInv'
  <1>1. p \in Nat /\ p >= GlobalMinPrice
    BY LadderAssumption, AllowedAboveMinimum DEF IInv, TypeOK, Asks, BuyAndRelist
  <1>2. TypeOK' /\ BoughtAboveMinimum'
    BY <1>1, BuyTypes
    DEF IInv, TypeOK, Asks, BoughtAboveMinimum, BuyAndRelist, Buy
  <1>3. BasePrice' = p
    BY <1>1 DEF BuyAndRelist, BasePrice, NeverBought, GlobalMinPrice
  <1>4. PriceCeiling'
    BY <1>1, <1>3, RangeContainsBase DEF BuyAndRelist, PriceCeiling
  <1> QED
    BY <1>2, <1>4 DEF IInv

LEMMA BuyAndDelistIInv ==
  ASSUME IInv, NEW b \in Users, BuyAndDelist(b)
  PROVE  IInv'
  <1>1. ask \in Nat /\ ask >= GlobalMinPrice
    BY DEF IInv, TypeOK, Asks, BuyAndDelist, Buy
  <1>2. TypeOK' /\ BoughtAboveMinimum'
    BY <1>1, BuyTypes
    DEF IInv, TypeOK, Asks, BoughtAboveMinimum, BuyAndDelist, Buy, NotForSale
  <1>3. BasePrice' = ask /\ ask' = 0
    BY <1>1 DEF BuyAndDelist, BasePrice, NeverBought, NotForSale, GlobalMinPrice
  <1>4. PriceCeiling'
    <2>1. HighestPrice(ask) \in Nat
      BY <1>1, HighestPriceNat
    <2> QED
      BY <1>3, <2>1 DEF PriceCeiling
  <1> QED
    BY <1>2, <1>4 DEF IInv

\* An abandoned purchase was checked like any other, so its record too reaches
\* the market's minimum.
LEMMA AbandonIInv ==
  ASSUME IInv, NEW p \in Prices, AbandonPurchase(p)
  PROVE  IInv'
  <1>1. p \in Nat /\ p >= GlobalMinPrice
    BY LadderAssumption, AllowedAboveMinimum
    DEF IInv, TypeOK, Asks, AbandonPurchase
  <1>2. TypeOK' /\ BoughtAboveMinimum' /\ PriceCeiling'
    BY <1>1
    DEF IInv, TypeOK, BoughtAboveMinimum, AbandonPurchase, PriceCeiling
  <1> QED
    BY <1>2 DEF IInv

LEMMA RejectIInv == ASSUME IInv, RejectPurchase PROVE IInv'
  <1>1. undo' \in [owner : Users, ask : Asks]
    BY DEF IInv, TypeOK, Asks, RejectPurchase, NotForSale
  <1>2. TypeOK' /\ BoughtAboveMinimum' /\ PriceCeiling'
    BY <1>1 DEF IInv, TypeOK, BoughtAboveMinimum, RejectPurchase, PriceCeiling
  <1> QED
    BY <1>2 DEF IInv

LEMMA StepIInv == IInv /\ [Next]_vars => IInv'
  <1> SUFFICES ASSUME IInv, [Next]_vars PROVE IInv'
    OBVIOUS
  <1>1. CASE \E p \in Prices : List(p) \/ Relist(p)
    BY <1>1, AskIInv
  <1>2. CASE \E p \in Prices : AbandonPurchase(p)
    BY <1>2, AbandonIInv
  <1>3. CASE Delist
    BY <1>3, DelistIInv
  <1>4. CASE \E b \in Users : BuyAndDelist(b) \/ \E p \in Prices : BuyAndRelist(b, p)
    BY <1>4, BuyAndDelistIInv, BuyAndRelistIInv
  <1>5. CASE RejectPurchase
    BY <1>5, RejectIInv
  <1>6. CASE UNCHANGED vars
    BY <1>6 DEF IInv, TypeOK, BoughtAboveMinimum, PriceCeiling, BasePrice, vars
  <1> QED
    BY <1>1, <1>2, <1>3, <1>4, <1>5, <1>6 DEF Next

THEOREM Invariance == Spec => []IInv
  <1> QED
    BY InitIInv, StepIInv, PTL DEF Spec

-----------------------------------------------------------------------------
(* The theorems about PriceLadder. *)

\* Every price stays a natural number and every listing reaches the market's
\* minimum (trading.rs validate_price).
THEOREM TypeCorrectness == Spec => []TypeOK
  <1>1. IInv => TypeOK
    BY DEF IInv
  <1> QED
    BY <1>1, Invariance, PTL

\* A name whose price was set by queries that succeeded is not for sale above
\* 126 percent of its last purchase record, after any number of price changes
\* and resales (trading.rs relist, validate_price).
THEOREM Ceiling == Spec => []PriceCeiling
  <1>1. IInv => PriceCeiling
    BY DEF IInv
  <1> QED
    BY <1>1, Invariance, PTL

\* There is always a price its owner may ask for a name (trading.rs
\* validate_price, event.rs calculate_etching_fee_price).
THEOREM Sellable == Spec => []AlwaysSellable
  <1>1. IInv => AlwaysSellable
    <2> SUFFICES ASSUME IInv PROVE LowestPrice(BasePrice) <= HighestPrice(BasePrice)
      BY DEF AlwaysSellable
    <2>1. BasePrice \in Nat /\ BasePrice >= GlobalMinPrice
      BY BasePriceBound DEF IInv
    <2>2. LowestPrice(BasePrice) <= BasePrice /\ BasePrice <= HighestPrice(BasePrice)
      BY <2>1, RangeContainsBase
    <2>3. LowestPrice(BasePrice) \in Int /\ HighestPrice(BasePrice) \in Int
      BY <2>1 DEF LowestPrice, HighestPrice, GlobalMinPrice
    <2> QED
      BY <2>1, <2>2, <2>3
  <1> QED
    BY <1>1, Invariance, PTL

\* The fee is between one and two percent of the price, whoever buys and
\* however many points were collected (trading.rs calculate_platform_fee).
THEOREM FeeBetween == Spec => []FeeShare
  <1>1. IInv => FeeShare
    BY FeeBound DEF IInv, FeeShare
  <1> QED
    BY <1>1, Invariance, PTL

-----------------------------------------------------------------------------
(* The inductive invariant of SaleRankings. *)

\* Names and sellers alike: the records of one, and the count shown for it.
Kinds == SaleNames \cup Sellers
Of(k) == {trades[k].name, trades[k].seller}
Group(x) == {k \in Recorded : x \in Of(k)}
Shown(x) == IF x \in SaleNames THEN most[x] ELSE earners[x]
InLimit(x) == Cardinality(IF x \in SaleNames THEN SaleNames ELSE Sellers) <= Limit

\* The steps of a request before it reads the count, and between that and
\* showing it.
Before(x) == IF x \in SaleNames THEN {"invoke", "count"}
             ELSE {"invoke", "count", "recent", "most", "sum"}
Between(x) == IF x \in SaleNames THEN {"recent", "most"} ELSE {"earners"}

RequestType == [at : SaleSteps, count : Nat]
SaleTypes ==
  /\ trades \in Seq(Trade) /\ sale \in Seq(RequestType) /\ Len(sale) = Len(trades)
  /\ most \in [SaleNames -> Nat] /\ earners \in [Sellers -> Nat]

\* A purchase is executed when its request goes on after invoke, and the record
\* of one that is not is deleted when the request ends there.
Stages ==
  \A k \in DOMAIN trades :
    /\ sale[k].at = "invoke" => ~ trades[k].executed /\ trades[k].status = "pending"
    /\ sale[k].at \notin {"none", "invoke"}
         => trades[k].executed /\ trades[k].status # "deleted"

\* No two purchases of x were under way at once: the one that is, is its last.
Single ==
  \A x \in Kinds \ blurred : \A k \in Active \cap Group(x) : \A j \in Group(x) :
    j <= k /\ (j \in Active => j = k)

\* All records of x are of purchases that stand, or may still be executed.
Stand(x) ==
  \A k \in Group(x) : trades[k].status # "rejected" /\ (trades[k].executed \/ k \in Active)

\* The count shown is that of the records, but for the purchase under way until
\* its request has shown what it read.
Counted(x) ==
  /\ Active \cap Group(x) = {} => Shown(x) = Cardinality(Group(x))
  /\ \A k \in Active \cap Group(x) :
       /\ sale[k].at \in Before(x) => Shown(x) = Cardinality(Group(x) \ {k})
       /\ sale[k].at \in Between(x) => sale[k].count = Cardinality(Group(x))
       /\ sale[k].at \notin Before(x) \cup Between(x) => Shown(x) = Cardinality(Group(x))

CountInv ==
  /\ SaleTypes /\ Stages /\ Single
  /\ \A x \in Kinds \ blurred : InLimit(x) /\ Stand(x) => Counted(x)

-----------------------------------------------------------------------------
(* What the steps do. *)

\* A step of purchase k changes no other one, nor what k is about.
Moves(k) ==
  /\ k \in DOMAIN trades
  /\ trades' \in Seq(Trade) /\ Len(trades') = Len(trades)
  /\ sale' \in Seq(RequestType) /\ Len(sale') = Len(trades)
  /\ \A j \in DOMAIN trades \ {k} : trades'[j] = trades[j] /\ sale'[j] = sale[j]
  /\ trades'[k].name = trades[k].name /\ trades'[k].seller = trades[k].seller

LEMMA Domains ==
  ASSUME SaleTypes
  PROVE  /\ DOMAIN trades = 1 .. Len(trades) /\ DOMAIN sale = 1 .. Len(trades)
         /\ Len(trades) \in Nat
         /\ \A k \in DOMAIN trades : trades[k] \in Trade /\ sale[k] \in RequestType
         /\ Active \subseteq DOMAIN trades /\ IsFiniteSet(DOMAIN trades)
         /\ \A x : /\ Group(x) \subseteq DOMAIN trades /\ IsFiniteSet(Group(x))
                   /\ Cardinality(Group(x)) \in Nat
  <1>1. /\ DOMAIN trades = 1 .. Len(trades) /\ DOMAIN sale = 1 .. Len(trades)
        /\ Len(trades) \in Nat
        /\ \A k \in DOMAIN trades : trades[k] \in Trade /\ sale[k] \in RequestType
    BY DEF SaleTypes
  <1>2. IsFiniteSet(DOMAIN trades)
    BY <1>1, FS_Interval
  <1>3. \A x : Group(x) \in SUBSET DOMAIN trades
    BY DEF Group, Recorded
  <1>4. Active \subseteq DOMAIN trades
    BY <1>1 DEF Active
  <1> QED
    BY <1>1, <1>2, <1>3, <1>4, FS_Subset, FS_CardinalityType

\* The records of a name are those of its group, and of a seller too.
LEMMA Groups ==
  ASSUME SaleTypes
  PROVE  /\ \A n \in SaleNames : Group(n) = SalesOf(n)
         /\ \A s \in Sellers : Group(s) = SalesBy(s) /\ s \notin SaleNames
  BY Domains, SaleAssumption DEF Group, SalesOf, SalesBy, Of, Recorded, Trade

\* A name or seller that the step is not about.
LEMMA OtherGroup ==
  ASSUME CountInv, NEW k, Moves(k), NEW x, x \notin Of(k)
  PROVE  /\ Group(x)' = Group(x) /\ (Active \cap Group(x))' = Active \cap Group(x)
         /\ \A j \in Group(x) : trades'[j] = trades[j] /\ sale'[j] = sale[j]
         /\ (Stand(x)' <=> Stand(x))
  <1>1. /\ DOMAIN trades' = DOMAIN trades /\ DOMAIN sale' = DOMAIN trades
        /\ DOMAIN sale = DOMAIN trades
    BY DEF Moves, CountInv, SaleTypes
  <1>2. Group(x)' = Group(x)
    BY <1>1 DEF Group, Recorded, Of, Moves
  <1>3. \A j \in Group(x) : j \in DOMAIN trades /\ j # k
    BY DEF Group, Recorded
  <1>4. \A j \in Group(x) : trades'[j] = trades[j] /\ sale'[j] = sale[j]
    BY <1>3 DEF Moves
  <1>5. (Active \cap Group(x))' = Active \cap Group(x)
    BY <1>1, <1>2, <1>3, <1>4 DEF Active
  <1>6. Stand(x)' <=> Stand(x)
    BY <1>2, <1>4, <1>5 DEF Stand
  <1> QED
    BY <1>2, <1>4, <1>5, <1>6

\* Nothing comes up that was not there.
Lessens(k) ==
  /\ Moves(k) /\ Active' \subseteq Active /\ blurred \subseteq blurred'
  /\ \A x : Group(x)' \subseteq Group(x)

LEMMA Owner ==
  ASSUME SaleTypes, NEW k \in DOMAIN trades
  PROVE  /\ trades[k].name \in SaleNames /\ trades[k].name \notin Sellers
         /\ trades[k].seller \in Sellers /\ trades[k].seller \notin SaleNames
         /\ trades[k].status \in Statuses /\ trades[k].executed \in BOOLEAN
         /\ sale[k].at \in SaleSteps /\ sale[k].count \in Nat
  <1>1. trades[k] \in Trade /\ sale[k] \in RequestType
    BY Domains
  <1> QED
    BY <1>1, SaleAssumption DEF Trade, RequestType

\* A step that leaves k's status and request as they are, or ends them.
LEMMA Lessening ==
  ASSUME SaleTypes, NEW k, Moves(k), blurred \subseteq blurred',
         sale[k].at # "none" \/ sale'[k] = sale[k],
         trades[k].status # "deleted" \/ trades'[k].status = "deleted"
  PROVE  Lessens(k)
  <1>1. /\ DOMAIN trades' = DOMAIN trades /\ DOMAIN sale' = DOMAIN trades
        /\ DOMAIN sale = DOMAIN trades /\ k \in DOMAIN trades
    BY DEF Moves, SaleTypes
  <1>2. Active' \subseteq Active
    <2> SUFFICES ASSUME NEW j \in Active' PROVE j \in Active
      OBVIOUS
    <2>1. j \in DOMAIN trades /\ sale'[j].at # "none"
      BY <1>1 DEF Active
    <2>2. CASE j = k
      BY <2>1, <2>2, <1>1 DEF Active
    <2>3. CASE j # k
      BY <2>1, <2>3, <1>1 DEF Active, Moves
    <2> QED
      BY <2>2, <2>3
  <1>3. ASSUME NEW x PROVE Group(x)' \subseteq Group(x)
    <2> SUFFICES ASSUME NEW j \in Group(x)' PROVE j \in Group(x)
      OBVIOUS
    <2>1. /\ j \in DOMAIN trades /\ trades'[j].status # "deleted"
          /\ x \in {trades'[j].name, trades'[j].seller}
      BY <1>1 DEF Group, Recorded, Of
    <2>2. CASE j = k
      BY <2>1, <2>2, <1>1 DEF Group, Recorded, Of, Moves
    <2>3. CASE j # k
      BY <2>1, <2>3, <1>1 DEF Group, Recorded, Of, Moves
    <2> QED
      BY <2>2, <2>3
  <1> QED
    BY <1>2, <1>3 DEF Lessens

LEMMA StillSingle ==
  ASSUME Single, NEW k, Lessens(k)
  PROVE  Single'
  <1> SUFFICES ASSUME NEW x \in Kinds, x \notin blurred', NEW i, i \in Active', i \in Group(x)',
                      NEW j, j \in Group(x)'
               PROVE  j <= i /\ (j \in Active' => j = i)
    BY DEF Single, Kinds
  <1>1. x \in Kinds \ blurred /\ i \in Active \cap Group(x) /\ j \in Group(x)
    BY DEF Lessens
  <1> QED
    BY <1>1 DEF Single, Lessens

\* A step of k keeps the counts of names and sellers it is not about.
LEMMA OthersCounted ==
  ASSUME CountInv, NEW k, Lessens(k), NEW x \in Kinds, x \notin Of(k), x \notin blurred',
         Shown(x)' = Shown(x), InLimit(x), Stand(x)'
  PROVE  Counted(x)'
  <1>1. /\ Group(x)' = Group(x) /\ (Active \cap Group(x))' = Active \cap Group(x)
        /\ \A j \in Group(x) : trades'[j] = trades[j] /\ sale'[j] = sale[j]
        /\ Stand(x)
    BY OtherGroup DEF Lessens
  <1>2. Counted(x)
    BY <1>1 DEF CountInv, Lessens
  <1> QED
    BY <1>1, <1>2 DEF Counted, Before, Between

-----------------------------------------------------------------------------
(* The steps of a request. *)

\* The purchase under way is the only one of its name, and of its seller.
LEMMA OwnAlone ==
  ASSUME CountInv, NEW k \in DOMAIN trades, sale[k].at # "none",
         NEW x \in Kinds \ blurred, x \in Of(k)
  PROVE  k \in Group(x) /\ Active \cap Group(x) = {k}
  <1>1. trades[k].status # "deleted"
    BY DEF CountInv, Stages
  <1>2. k \in Group(x)
    BY <1>1 DEF Group, Recorded
  <1>3. k \in Active
    BY Domains DEF CountInv, Active
  <1> QED
    BY <1>2, <1>3 DEF CountInv, Single

\* A step after invoke changes only the request.
LEMMA RequestGoesOn ==
  ASSUME CountInv, NEW k \in DOMAIN trades, sale[k].at \notin {"none", "invoke"},
         trades' = trades, NEW r \in RequestType, sale' = [sale EXCEPT ![k] = r],
         r.at # "invoke", blurred \subseteq blurred'
  PROVE  /\ Lessens(k) /\ Stages' /\ sale'[k] = r
         /\ \A x \in Kinds \ blurred' : x \in Of(k) /\ InLimit(x) /\ Stand(x)' =>
              /\ Group(x)' = Group(x) /\ k \in Group(x) /\ Counted(x)
              /\ (Active \cap Group(x))' = (IF r.at = "none" THEN {} ELSE {k})
              /\ Active \cap Group(x) = {k}
  <1>1. SaleTypes /\ Stages /\ Single
    BY DEF CountInv
  <1>2. DOMAIN sale = DOMAIN trades /\ DOMAIN sale' = DOMAIN trades
    BY <1>1, Domains
  <1>3. sale'[k] = r /\ \A j \in DOMAIN trades \ {k} : sale'[j] = sale[j]
    BY <1>2
  <1>4. sale' \in Seq(RequestType) /\ Len(sale') = Len(trades)
    BY <1>1 DEF SaleTypes
  <1>5. Moves(k)
    BY <1>1, <1>3, <1>4 DEF Moves, SaleTypes
  <1>6. Lessens(k)
    BY <1>1, <1>5, Lessening
  <1>7. Stages'
    BY <1>1, <1>2, <1>3 DEF Stages
  <1>8. ASSUME NEW x \in Kinds \ blurred', x \in Of(k), InLimit(x), Stand(x)'
        PROVE  /\ Group(x)' = Group(x) /\ k \in Group(x) /\ Counted(x)
               /\ (Active \cap Group(x))' = (IF r.at = "none" THEN {} ELSE {k})
               /\ Active \cap Group(x) = {k}
    <2>1. Group(x)' = Group(x)
      BY DEF Group, Recorded, Of
    <2>2. x \in Kinds \ blurred
      OBVIOUS
    <2>3. k \in Group(x) /\ Active \cap Group(x) = {k}
      BY <2>2, <1>8, OwnAlone
    <2>4. Active' = (IF r.at = "none" THEN Active \ {k} ELSE Active)
      BY <1>2, <1>3 DEF Active
    <2>5. (Active \cap Group(x))' = (IF r.at = "none" THEN {} ELSE {k})
      BY <2>1, <2>3, <2>4
    <2>6. Stand(x)
      <3>1. \A j \in Group(x) : trades[j].status # "rejected"
                                /\ (trades[j].executed \/ j \in Active')
        BY <2>1, <1>8 DEF Stand
      <3> QED
        BY <3>1, <1>6 DEF Stand, Lessens
    <2>7. Counted(x)
      BY <2>2, <2>6, <1>8 DEF CountInv
    <2> QED
      BY <2>1, <2>3, <2>5, <2>7
  <1> QED
    BY <1>3, <1>6, <1>7, <1>8

\* What is left to show of a step of k.
LEMMA StepCounts ==
  ASSUME CountInv, NEW k \in DOMAIN trades, Lessens(k), Stages',
         most' \in [SaleNames -> Nat], earners' \in [Sellers -> Nat],
         \A n \in SaleNames \ Of(k) : most'[n] = most[n],
         \A s \in Sellers \ Of(k) : earners'[s] = earners[s],
         \A x \in Kinds \ blurred' : x \in Of(k) /\ InLimit(x) /\ Stand(x)' => Counted(x)'
  PROVE  CountInv'
  <1>1. SaleTypes'
    BY DEF SaleTypes, Lessens, Moves
  <1>2. Single'
    BY StillSingle DEF CountInv
  <1>3. ASSUME NEW x \in Kinds \ blurred', InLimit(x), Stand(x)'
        PROVE  Counted(x)'
    <2>1. CASE x \in Of(k)
      BY <2>1, <1>3
    <2>2. CASE x \notin Of(k)
      <3>1. Shown(x)' = Shown(x)
        BY <2>2 DEF Shown, Kinds
      <3> QED
        BY <3>1, <2>2, <1>3, OthersCounted
    <2> QED
      BY <2>1, <2>2
  <1>4. \A x \in Kinds \ blurred' : InLimit(x) /\ Stand(x)' => Counted(x)'
    BY <1>3
  <1>5. Kinds' = Kinds /\ \A x : InLimit(x)' <=> InLimit(x)
    BY DEF Kinds, InLimit
  <1> QED
    BY <1>1, <1>2, <1>4 DEF CountInv, Kinds, InLimit

\* The name and the seller of the purchase.
LEMMA NameOrSeller ==
  ASSUME CountInv, NEW k \in DOMAIN trades
  PROVE  \A x \in Of(k) :
           \/ /\ x = trades[k].name /\ x \in SaleNames /\ x \notin Sellers
              /\ Group(x) = SalesOf(x)
           \/ /\ x = trades[k].seller /\ x \in Sellers /\ x \notin SaleNames
              /\ Group(x) = SalesBy(x)
  BY Owner, Groups DEF CountInv, Of

LEMMA CountSalesKeeps ==
  ASSUME CountInv, NEW k \in DOMAIN trades, CountSales(k)
  PROVE  CountInv'
  <1>1. PICK c \in Nat : /\ Step(k, "recent", c)
                         /\ c = Cardinality(SalesOf(trades[k].name)) \/ Of(k) \subseteq blurred'
    <2>1. trades[k].name \in SaleNames
      BY Owner DEF CountInv
    <2>2. Cardinality(SalesOf(trades[k].name)) \in Nat
      BY <2>1, Groups, Domains DEF CountInv
    <2>3. CASE Step(k, "recent", Cardinality(SalesOf(trades[k].name)))
      BY <2>2, <2>3
    <2>4. CASE Fails(k) /\ Step(k, "recent", 0)
      BY <2>4 DEF Fails, Of
    <2> QED
      BY <2>3, <2>4 DEF CountSales
  <1>2. /\ sale[k].at = "count" /\ trades' = trades /\ saleRanks' = saleRanks
        /\ blurred \subseteq blurred'
    BY DEF CountSales, Fails
  <1> DEFINE r == [at |-> "recent", count |-> c]
  <1>3. r \in RequestType /\ sale' = [sale EXCEPT ![k] = r] /\ r.at = "recent" /\ r.count = c
    BY <1>1 DEF Step, RequestType, SaleSteps
  <1> HIDE DEF r
  <1>4. /\ Lessens(k) /\ Stages' /\ sale'[k] = r
        /\ \A x \in Kinds \ blurred' : x \in Of(k) /\ InLimit(x) /\ Stand(x)' =>
             /\ Group(x)' = Group(x) /\ k \in Group(x) /\ Counted(x)
             /\ (Active \cap Group(x))' = {k} /\ Active \cap Group(x) = {k}
    BY <1>2, <1>3, RequestGoesOn
  <1>5. ASSUME NEW x \in Kinds \ blurred', x \in Of(k), InLimit(x), Stand(x)'
        PROVE  Counted(x)'
    <2>1. /\ Group(x)' = Group(x) /\ k \in Group(x) /\ Counted(x) /\ Shown(x)' = Shown(x)
          /\ (Active \cap Group(x))' = {k} /\ Active \cap Group(x) = {k}
      BY <1>2, <1>4, <1>5 DEF Shown, saleRanks
    <2>2. CASE x \in SaleNames
      <3>1. x = trades[k].name /\ c = Cardinality(Group(x))
        BY <1>1, <1>5, <2>2, NameOrSeller
      <3> QED
        BY <1>3, <1>4, <2>1, <2>2, <3>1 DEF Counted, Before, Between
    <2>3. CASE x \notin SaleNames
      BY <1>2, <1>3, <1>4, <2>1, <2>3 DEF Counted, Before, Between
    <2> QED
      BY <2>2, <2>3
  <1> QED
    BY <1>2, <1>4, <1>5, StepCounts DEF CountInv, SaleTypes, saleRanks

LEMMA AddRecentKeeps ==
  ASSUME CountInv, NEW k \in DOMAIN trades, AddRecent(k)
  PROVE  CountInv'
  <1>1. /\ sale[k].at = "recent" /\ trades' = trades /\ most' = most /\ earners' = earners
        /\ blurred \subseteq blurred' /\ Step(k, "most", sale[k].count)
    BY DEF AddRecent, Fails
  <1> DEFINE r == [at |-> "most", count |-> sale[k].count]
  <1>2. /\ r \in RequestType /\ sale' = [sale EXCEPT ![k] = r] /\ r.at = "most"
        /\ r.count = sale[k].count
    BY <1>1, Owner DEF Step, RequestType, SaleSteps, CountInv
  <1> HIDE DEF r
  <1>3. /\ Lessens(k) /\ Stages' /\ sale'[k] = r
        /\ \A x \in Kinds \ blurred' : x \in Of(k) /\ InLimit(x) /\ Stand(x)' =>
             /\ Group(x)' = Group(x) /\ k \in Group(x) /\ Counted(x)
             /\ (Active \cap Group(x))' = {k} /\ Active \cap Group(x) = {k}
    BY <1>1, <1>2, RequestGoesOn
  <1>4. ASSUME NEW x \in Kinds \ blurred', x \in Of(k), InLimit(x), Stand(x)'
        PROVE  Counted(x)'
    <2>1. /\ Group(x)' = Group(x) /\ k \in Group(x) /\ Counted(x) /\ Shown(x)' = Shown(x)
          /\ (Active \cap Group(x))' = {k} /\ Active \cap Group(x) = {k}
      BY <1>1, <1>3, <1>4 DEF Shown
    <2> QED
      BY <1>1, <1>2, <1>3, <2>1 DEF Counted, Before, Between
  <1> QED
    BY <1>1, <1>3, <1>4, StepCounts DEF CountInv, SaleTypes

LEMMA AddMostKeeps ==
  ASSUME CountInv, NEW k \in DOMAIN trades, AddMost(k)
  PROVE  CountInv'
  <1>1. /\ sale[k].at = "most" /\ trades' = trades /\ recent' = recent /\ earners' = earners
        /\ blurred \subseteq blurred' /\ Step(k, "sum", 0)
    BY DEF AddMost, Fails
  <1>2. \/ most' = [most EXCEPT ![trades[k].name] = sale[k].count]
        \/ most' = most /\ Of(k) \subseteq blurred'
    BY DEF AddMost, Fails, Of
  <1>3. /\ most' \in [SaleNames -> Nat] /\ most \in [SaleNames -> Nat]
        /\ \A n \in SaleNames \ Of(k) : most'[n] = most[n]
    BY <1>2, Owner DEF CountInv, SaleTypes, Of
  <1> DEFINE r == [at |-> "sum", count |-> 0]
  <1>4. r \in RequestType /\ sale' = [sale EXCEPT ![k] = r] /\ r.at = "sum"
    BY <1>1 DEF Step, RequestType, SaleSteps
  <1> HIDE DEF r
  <1>5. /\ Lessens(k) /\ Stages' /\ sale'[k] = r
        /\ \A x \in Kinds \ blurred' : x \in Of(k) /\ InLimit(x) /\ Stand(x)' =>
             /\ Group(x)' = Group(x) /\ k \in Group(x) /\ Counted(x)
             /\ (Active \cap Group(x))' = {k} /\ Active \cap Group(x) = {k}
    BY <1>1, <1>4, RequestGoesOn
  <1>6. ASSUME NEW x \in Kinds \ blurred', x \in Of(k), InLimit(x), Stand(x)'
        PROVE  Counted(x)'
    <2>1. /\ Group(x)' = Group(x) /\ k \in Group(x) /\ Counted(x)
          /\ (Active \cap Group(x))' = {k} /\ Active \cap Group(x) = {k}
      BY <1>5, <1>6
    <2>2. CASE x \in SaleNames
      <3>1. x = trades[k].name
        BY <1>6, <2>2, NameOrSeller
      <3>2. sale[k].count = Cardinality(Group(x))
        BY <1>1, <2>1, <2>2 DEF Counted, Between
      <3>3. Shown(x)' = Cardinality(Group(x))
        BY <1>2, <1>3, <1>6, <2>2, <3>1, <3>2 DEF Shown
      <3> QED
        BY <1>4, <1>5, <2>1, <2>2, <3>3 DEF Counted, Before, Between
    <2>3. CASE x \notin SaleNames
      <3>1. Shown(x)' = Shown(x)
        BY <1>1, <2>3 DEF Shown
      <3> QED
        BY <1>1, <1>4, <1>5, <2>1, <2>3, <3>1 DEF Counted, Before, Between
    <2> QED
      BY <2>2, <2>3
  <1> QED
    BY <1>1, <1>3, <1>5, <1>6, StepCounts DEF CountInv, SaleTypes

LEMMA AddEarnerKeeps ==
  ASSUME CountInv, NEW k \in DOMAIN trades, AddEarner(k)
  PROVE  CountInv'
  <1>1. /\ sale[k].at = "earners" /\ trades' = trades /\ recent' = recent /\ most' = most
        /\ blurred \subseteq blurred' /\ Finish(k)
    BY DEF AddEarner, Fails
  <1>2. \/ earners' = [earners EXCEPT ![trades[k].seller] = sale[k].count]
        \/ earners' = earners /\ Of(k) \subseteq blurred'
    BY DEF AddEarner, Fails, Of
  <1>3. /\ earners' \in [Sellers -> Nat] /\ earners \in [Sellers -> Nat]
        /\ \A s \in Sellers \ Of(k) : earners'[s] = earners[s]
    BY <1>2, Owner DEF CountInv, SaleTypes, Of
  <1>4. Ended \in RequestType /\ sale' = [sale EXCEPT ![k] = Ended] /\ Ended.at = "none"
    BY <1>1 DEF Finish, RequestType, SaleSteps, Ended
  <1>5. /\ Lessens(k) /\ Stages' /\ sale'[k] = Ended
        /\ \A x \in Kinds \ blurred' : x \in Of(k) /\ InLimit(x) /\ Stand(x)' =>
             /\ Group(x)' = Group(x) /\ k \in Group(x) /\ Counted(x)
             /\ (Active \cap Group(x))' = {} /\ Active \cap Group(x) = {k}
    BY <1>1, <1>4, RequestGoesOn
  <1>6. ASSUME NEW x \in Kinds \ blurred', x \in Of(k), InLimit(x), Stand(x)'
        PROVE  Counted(x)'
    <2>1. /\ Group(x)' = Group(x) /\ k \in Group(x) /\ Counted(x)
          /\ (Active \cap Group(x))' = {} /\ Active \cap Group(x) = {k}
      BY <1>5, <1>6
    <2>2. CASE x \in SaleNames
      <3>1. Shown(x) = Cardinality(Group(x)) /\ Shown(x)' = Shown(x)
        BY <1>1, <2>1, <2>2 DEF Counted, Before, Between, Shown
      <3> QED
        BY <2>1, <3>1 DEF Counted
    <2>3. CASE x \notin SaleNames
      <3>1. x = trades[k].seller /\ x \in Sellers
        BY <1>6, <2>3, NameOrSeller
      <3>2. sale[k].count = Cardinality(Group(x))
        BY <1>1, <2>1, <2>3 DEF Counted, Between
      <3>3. Shown(x)' = Cardinality(Group(x))
        BY <1>2, <1>3, <1>6, <2>3, <3>1, <3>2 DEF Shown
      <3> QED
        BY <2>1, <3>3 DEF Counted
    <2> QED
      BY <2>2, <2>3
  <1> QED
    BY <1>1, <1>3, <1>5, <1>6, StepCounts DEF CountInv, SaleTypes

LEMMA SumEarnerKeeps ==
  ASSUME CountInv, NEW k \in DOMAIN trades, SumEarner(k)
  PROVE  CountInv'
  <1>1. /\ sale[k].at = "sum" /\ trades' = trades /\ saleRanks' = saleRanks
        /\ blurred \subseteq blurred'
    BY DEF SumEarner, Fails
  <1> DEFINE c == Cardinality(SalesBy(trades[k].seller))
  <1>2. c \in Nat
    BY Owner, Groups, Domains DEF CountInv
  <1>3. PICK r \in RequestType :
          /\ sale' = [sale EXCEPT ![k] = r]
          /\ \/ r.at = "earners" /\ r.count = c
             \/ r.at = "none" /\ Of(k) \subseteq blurred'
    <2>1. CASE Step(k, "earners", c)
      <3> DEFINE r == [at |-> "earners", count |-> c]
      <3>1. r \in RequestType /\ sale' = [sale EXCEPT ![k] = r] /\ r.at = "earners" /\ r.count = c
        BY <1>2, <2>1 DEF Step, RequestType, SaleSteps
      <3> HIDE DEF r
      <3> QED
        BY <3>1
    <2>2. CASE Fails(k) /\ Finish(k)
      <3>1. Ended \in RequestType /\ Ended.at = "none"
        BY DEF RequestType, SaleSteps, Ended
      <3> QED
        BY <2>2, <3>1 DEF Fails, Finish, Of
    <2> QED
      BY <2>1, <2>2 DEF SumEarner
  <1>4. /\ Lessens(k) /\ Stages' /\ sale'[k] = r
        /\ \A x \in Kinds \ blurred' : x \in Of(k) /\ InLimit(x) /\ Stand(x)' =>
             /\ Group(x)' = Group(x) /\ k \in Group(x) /\ Counted(x)
             /\ (Active \cap Group(x))' = (IF r.at = "none" THEN {} ELSE {k})
             /\ Active \cap Group(x) = {k}
    BY <1>1, <1>3, RequestGoesOn
  <1>5. ASSUME NEW x \in Kinds \ blurred', x \in Of(k), InLimit(x), Stand(x)'
        PROVE  Counted(x)'
    <2>1. r.at = "earners" /\ r.count = c
      BY <1>3, <1>5
    <2>2. /\ Group(x)' = Group(x) /\ k \in Group(x) /\ Counted(x) /\ Shown(x)' = Shown(x)
          /\ (Active \cap Group(x))' = {k} /\ Active \cap Group(x) = {k}
      BY <1>1, <1>4, <1>5, <2>1 DEF Shown, saleRanks
    <2>3. CASE x \in SaleNames
      BY <1>1, <1>4, <2>1, <2>2, <2>3 DEF Counted, Before, Between
    <2>4. CASE x \notin SaleNames
      <3>1. c = Cardinality(Group(x))
        BY <1>5, <2>4, NameOrSeller
      <3> QED
        BY <1>4, <2>1, <2>2, <2>4, <3>1 DEF Counted, Before, Between
    <2> QED
      BY <2>3, <2>4
  <1> QED
    BY <1>1, <1>4, <1>5, StepCounts DEF CountInv, SaleTypes, saleRanks

\* Invoke and a status change: of a record only its status changes, and whether
\* it is executed.
LEMMA Rewrites ==
  ASSUME CountInv, NEW k \in DOMAIN trades, trades[k].status # "deleted",
         NEW t \in Trade, t.name = trades[k].name, t.seller = trades[k].seller,
         trades' = [trades EXCEPT ![k] = t],
         NEW r \in RequestType, sale' = [sale EXCEPT ![k] = r],
         sale[k].at # "none" \/ r = sale[k], blurred \subseteq blurred'
  PROVE  /\ Lessens(k) /\ trades'[k] = t /\ sale'[k] = r
         /\ DOMAIN trades' = DOMAIN trades /\ DOMAIN sale' = DOMAIN trades
         /\ \A j \in DOMAIN trades \ {k} : trades'[j] = trades[j] /\ sale'[j] = sale[j]
         /\ \A x \in Kinds : x \in Of(k) =>
              /\ Group(x)' = (IF t.status = "deleted" THEN Group(x) \ {k} ELSE Group(x))
              /\ k \in Group(x)
         /\ Active' = (IF r.at = "none" THEN Active \ {k} ELSE Active \cup {k})
  <1>1. SaleTypes
    BY DEF CountInv
  <1>2. DOMAIN sale = DOMAIN trades /\ trades \in Seq(Trade) /\ sale \in Seq(RequestType)
        /\ Len(sale) = Len(trades)
    BY <1>1, Domains DEF SaleTypes
  <1>3. /\ trades' \in Seq(Trade) /\ Len(trades') = Len(trades)
        /\ DOMAIN trades' = DOMAIN trades /\ trades'[k] = t
        /\ \A j \in DOMAIN trades \ {k} : trades'[j] = trades[j]
    BY <1>2
  <1>4. /\ sale' \in Seq(RequestType) /\ Len(sale') = Len(trades)
        /\ DOMAIN sale' = DOMAIN trades /\ sale'[k] = r
        /\ \A j \in DOMAIN trades \ {k} : sale'[j] = sale[j]
    BY <1>2
  <1>5. Moves(k)
    BY <1>3, <1>4 DEF Moves
  <1>6. Lessens(k)
    BY <1>1, <1>4, <1>5, Lessening
  <1>7. ASSUME NEW x \in Kinds, x \in Of(k)
        PROVE  /\ Group(x)' = (IF t.status = "deleted" THEN Group(x) \ {k} ELSE Group(x))
               /\ k \in Group(x)
    <2>1. k \in Group(x)
      BY <1>7 DEF Group, Recorded
    <2>2. Of(k)' = Of(k)
      BY <1>3 DEF Of
    <2>3. \A j \in DOMAIN trades \ {k} : j \in Group(x)' <=> j \in Group(x)
      BY <1>3 DEF Group, Recorded, Of
    <2>4. k \in Group(x)' <=> t.status # "deleted"
      BY <1>3, <1>7, <2>2 DEF Group, Recorded
    <2>5. Group(x) \subseteq DOMAIN trades /\ Group(x)' \subseteq DOMAIN trades
      BY <1>3 DEF Group, Recorded
    <2> QED
      BY <2>1, <2>3, <2>4, <2>5
  <1>8. Active' = (IF r.at = "none" THEN Active \ {k} ELSE Active \cup {k})
    BY <1>2, <1>4 DEF Active
  <1> QED
    BY <1>3, <1>4, <1>6, <1>7, <1>8

LEMMA InvokeKeeps ==
  ASSUME CountInv, NEW k \in DOMAIN trades, Invoke(k)
  PROVE  CountInv'
  <1>1. /\ sale[k].at = "invoke" /\ saleRanks' = saleRanks /\ blurred \subseteq blurred'
        /\ ~ trades[k].executed /\ trades[k].status = "pending"
    BY DEF Invoke, Fails, CountInv, Stages
  <1>2. SaleTypes /\ Stages /\ trades \in Seq(Trade) /\ trades[k] \in Trade
        /\ Ended \in RequestType /\ Ended.at = "none"
    BY Domains DEF CountInv, SaleTypes, Ended, RequestType, SaleSteps
  <1>3. PICK t \in Trade, r \in RequestType :
          /\ t.name = trades[k].name /\ t.seller = trades[k].seller
          /\ trades' = [trades EXCEPT ![k] = t] /\ sale' = [sale EXCEPT ![k] = r]
          /\ \/ t.executed /\ t.status = "pending" /\ r.at = "count"
             \/ t.status = "deleted" /\ r.at = "none"
             \/ Of(k) \subseteq blurred' /\ r.at = "none"
    <2>1. CASE /\ trades' = [trades EXCEPT ![k].executed = TRUE]
               /\ Step(k, "count", 0) \/ (Fails(k) /\ Finish(k))
      <3> DEFINE t == [trades[k] EXCEPT !.executed = TRUE]
                 r == [at |-> "count", count |-> 0]
      <3>1. /\ t \in Trade /\ t.name = trades[k].name /\ t.seller = trades[k].seller
            /\ t.executed /\ t.status = "pending"
        BY <1>1, <1>2 DEF Trade
      <3>2. trades' = [trades EXCEPT ![k] = t]
        BY <2>1
      <3>3. r \in RequestType /\ r.at = "count"
        BY DEF RequestType, SaleSteps
      <3>4. \/ sale' = [sale EXCEPT ![k] = r]
            \/ sale' = [sale EXCEPT ![k] = Ended] /\ Of(k) \subseteq blurred'
        BY <2>1 DEF Step, Fails, Finish, Of
      <3> HIDE DEF t, r
      <3> QED
        BY <1>2, <3>1, <3>2, <3>3, <3>4
    <2>2. CASE trades' = [trades EXCEPT ![k].status = "deleted"] /\ Finish(k)
      <3> DEFINE t == [trades[k] EXCEPT !.status = "deleted"]
      <3>1. /\ t \in Trade /\ t.name = trades[k].name /\ t.seller = trades[k].seller
            /\ t.status = "deleted"
        BY <1>1, <1>2 DEF Trade, Statuses
      <3>2. trades' = [trades EXCEPT ![k] = t] /\ sale' = [sale EXCEPT ![k] = Ended]
        BY <2>2 DEF Finish
      <3> HIDE DEF t
      <3> QED
        BY <1>2, <3>1, <3>2
    <2>3. CASE Fails(k) /\ trades' = trades /\ Finish(k)
      <3>1. trades' = [trades EXCEPT ![k] = trades[k]]
        BY <1>2, <2>3
      <3>2. Of(k) \subseteq blurred' /\ sale' = [sale EXCEPT ![k] = Ended]
        BY <2>3 DEF Fails, Finish, Of
      <3> QED
        BY <1>2, <3>1, <3>2
    <2> QED
      BY <2>1, <2>2, <2>3 DEF Invoke
  <1>4. /\ Lessens(k) /\ trades'[k] = t /\ sale'[k] = r
        /\ DOMAIN trades' = DOMAIN trades /\ DOMAIN sale' = DOMAIN trades
        /\ \A j \in DOMAIN trades \ {k} : trades'[j] = trades[j] /\ sale'[j] = sale[j]
        /\ \A x \in Kinds : x \in Of(k) =>
             /\ Group(x)' = (IF t.status = "deleted" THEN Group(x) \ {k} ELSE Group(x))
             /\ k \in Group(x)
        /\ Active' = (IF r.at = "none" THEN Active \ {k} ELSE Active \cup {k})
    BY <1>1, <1>3, Rewrites
  <1>5. Stages'
    <2> SUFFICES ASSUME NEW j \in DOMAIN trades
                 PROVE  /\ sale'[j].at = "invoke"
                             => ~ trades'[j].executed /\ trades'[j].status = "pending"
                        /\ sale'[j].at \notin {"none", "invoke"}
                             => trades'[j].executed /\ trades'[j].status # "deleted"
      BY <1>4 DEF Stages
    <2>1. CASE j = k
      BY <1>3, <1>4, <2>1
    <2>2. CASE j # k
      BY <1>2, <1>4, <2>2 DEF Stages
    <2> QED
      BY <2>1, <2>2
  <1>6. ASSUME NEW x \in Kinds \ blurred', x \in Of(k), InLimit(x), Stand(x)'
        PROVE  Counted(x)'
    <2>1. x \in Kinds \ blurred /\ k \in Group(x) /\ Active \cap Group(x) = {k}
      BY <1>1, <1>6, OwnAlone
    <2>2. \A j \in Group(x) \ {k} : /\ j \in Group(x)' /\ trades'[j] = trades[j]
                                    /\ (j \in Active' <=> j \in Active)
      BY <1>4, <1>6 DEF Group, Recorded
    <2>3. \A j \in Group(x) \ {k} :
            trades[j].status # "rejected" /\ (trades[j].executed \/ j \in Active)
      BY <1>6, <2>2 DEF Stand
    <2>4. Stand(x)
      BY <1>1, <2>1, <2>3 DEF Stand
    <2>5. Counted(x)
      BY <1>6, <2>1, <2>4 DEF CountInv
    <2>6. Shown(x) = Cardinality(Group(x) \ {k}) /\ Shown(x)' = Shown(x)
      BY <1>1, <2>1, <2>5 DEF Counted, Before, Shown, saleRanks
    <2>7. CASE t.executed /\ t.status = "pending" /\ r.at = "count"
      <3>1. Group(x)' = Group(x) /\ (Active \cap Group(x))' = {k}
        BY <1>4, <1>6, <2>1, <2>7
      <3> QED
        BY <1>4, <2>6, <2>7, <3>1 DEF Counted, Before, Between
    <2>8. CASE t.status = "deleted" /\ r.at = "none"
      <3>1. Group(x)' = Group(x) \ {k} /\ (Active \cap Group(x))' = {}
        BY <1>4, <1>6, <2>1, <2>8
      <3> QED
        BY <2>6, <3>1 DEF Counted
    <2> QED
      BY <1>3, <1>6, <2>7, <2>8
  <1> QED
    BY <1>1, <1>4, <1>5, <1>6, StepCounts DEF CountInv, SaleTypes, saleRanks

LEMMA SetStatusKeeps ==
  ASSUME CountInv, NEW k \in DOMAIN trades, SetStatus(k)
  PROVE  CountInv'
  <1>1. /\ trades[k].executed /\ trades[k].status = "pending" /\ sale' = sale
        /\ saleRanks' = saleRanks /\ blurred' = blurred
    BY DEF SetStatus
  <1>2. /\ SaleTypes /\ Stages /\ trades[k] \in Trade /\ sale[k] \in RequestType
        /\ sale \in Seq(RequestType)
    BY Domains DEF CountInv, SaleTypes
  <1>3. PICK t \in Trade :
          /\ t.name = trades[k].name /\ t.seller = trades[k].seller /\ t.executed
          /\ t.status \in {"finalized", "rejected"}
          /\ trades' = [trades EXCEPT ![k] = t]
    <2>1. PICK to \in {"finalized", "rejected"} : trades' = [trades EXCEPT ![k].status = to]
      BY DEF SetStatus
    <2> DEFINE t == [trades[k] EXCEPT !.status = to]
    <2>2. /\ t \in Trade /\ t.name = trades[k].name /\ t.seller = trades[k].seller
          /\ t.executed /\ t.status = to
      BY <1>1, <1>2 DEF Trade, Statuses
    <2>3. trades' = [trades EXCEPT ![k] = t]
      BY <2>1
    <2> HIDE DEF t
    <2> QED
      BY <2>2, <2>3
  <1>4. sale' = [sale EXCEPT ![k] = sale[k]]
    BY <1>1, <1>2
  <1>5. /\ Lessens(k) /\ trades'[k] = t
        /\ DOMAIN trades' = DOMAIN trades
        /\ \A j \in DOMAIN trades \ {k} : trades'[j] = trades[j]
        /\ \A x \in Kinds : x \in Of(k) =>
             /\ Group(x)' = (IF t.status = "deleted" THEN Group(x) \ {k} ELSE Group(x))
             /\ k \in Group(x)
    BY <1>1, <1>2, <1>3, <1>4, Rewrites
  <1>6. sale[k].at # "invoke"
    BY <1>1, <1>2 DEF Stages
  <1>7. Stages'
    <2> SUFFICES ASSUME NEW j \in DOMAIN trades
                 PROVE  /\ sale[j].at = "invoke"
                             => ~ trades'[j].executed /\ trades'[j].status = "pending"
                        /\ sale[j].at \notin {"none", "invoke"}
                             => trades'[j].executed /\ trades'[j].status # "deleted"
      BY <1>1, <1>5 DEF Stages
    <2>1. CASE j = k
      BY <1>3, <1>5, <1>6, <2>1
    <2>2. CASE j # k
      BY <1>2, <1>5, <2>2 DEF Stages
    <2> QED
      BY <2>1, <2>2
  <1>8. ASSUME NEW x \in Kinds \ blurred', x \in Of(k), InLimit(x), Stand(x)'
        PROVE  Counted(x)'
    <2>1. k \in Group(x) /\ Group(x)' = Group(x) /\ Active' = Active
      BY <1>1, <1>3, <1>5, <1>8 DEF Active
    <2>2. \A j \in Group(x) : /\ trades'[j].status # "rejected"
                              /\ trades'[j].executed \/ j \in Active
      BY <1>8, <2>1 DEF Stand
    <2>3. \A j \in Group(x) \ {k} : trades'[j] = trades[j]
      BY <1>5 DEF Group, Recorded
    <2>4. Stand(x)
      BY <1>1, <2>2, <2>3 DEF Stand
    <2>5. Counted(x)
      BY <1>1, <1>8, <2>4 DEF CountInv
    <2> QED
      BY <1>1, <2>1, <2>5 DEF Counted, Shown, saleRanks, Before, Between
  <1> QED
    BY <1>1, <1>5, <1>7, <1>8, StepCounts DEF CountInv, SaleTypes, saleRanks

-----------------------------------------------------------------------------
(* A new record, and a restart. *)

LEMMA RecordKeeps ==
  ASSUME CountInv, NEW n \in SaleNames, NEW s \in Sellers, Record(n, s)
  PROVE  CountInv'
  <1> DEFINE t == [name |-> n, seller |-> s, status |-> "pending", executed |-> FALSE]
             r == [at |-> "invoke", count |-> 0]
  <1>1. PICK k : k = Len(trades) + 1
    OBVIOUS
  <1>2. /\ SaleTypes /\ Stages /\ Single /\ trades \in Seq(Trade) /\ sale \in Seq(RequestType)
        /\ Len(sale) = Len(trades) /\ Len(trades) \in Nat
        /\ DOMAIN trades = 1 .. Len(trades) /\ DOMAIN sale = 1 .. Len(trades)
    BY Domains DEF CountInv, SaleTypes
  <1>3. /\ t \in Trade /\ t.name = n /\ t.seller = s /\ t.status = "pending" /\ ~ t.executed
        /\ r \in RequestType /\ r.at = "invoke"
    BY DEF Trade, Statuses, RequestType, SaleSteps
  <1>4. /\ trades' = Append(trades, t) /\ sale' = Append(sale, r) /\ saleRanks' = saleRanks
        /\ blurred' = blurred \cup ({n, s} \cap UNION {Of(j) : j \in Active})
    BY DEF Record, Of
  <1> HIDE DEF t, r
  <1>5. /\ trades' \in Seq(Trade) /\ Len(trades') = k /\ DOMAIN trades' = 1 .. k
        /\ trades'[k] = t /\ \A j \in DOMAIN trades : trades'[j] = trades[j]
    BY <1>1, <1>2, <1>3, <1>4
  <1>6. /\ sale' \in Seq(RequestType) /\ Len(sale') = k /\ DOMAIN sale' = 1 .. k
        /\ sale'[k] = r /\ \A j \in DOMAIN trades : sale'[j] = sale[j]
    BY <1>1, <1>2, <1>3, <1>4
  <1>7. /\ k \notin DOMAIN trades /\ 1 .. k = DOMAIN trades \cup {k}
        /\ \A j \in DOMAIN trades : j <= k
    BY <1>1, <1>2
  <1>8. Active' = Active \cup {k} /\ Active \subseteq DOMAIN trades
    BY <1>2, <1>3, <1>6, <1>7 DEF Active
  <1>9. \A x : Group(x)' = (IF x \in {n, s} THEN Group(x) \cup {k} ELSE Group(x))
    BY <1>3, <1>5, <1>7 DEF Group, Recorded, Of
  <1>10. \A x : Group(x) \subseteq DOMAIN trades
    BY DEF Group, Recorded
  <1>11. \A x \in {n, s} : x \notin blurred' => Active \cap Group(x) = {}
    BY <1>4 DEF Group
  <1>12. SaleTypes'
    BY <1>2, <1>4, <1>5, <1>6 DEF SaleTypes, saleRanks
  <1>13. Stages'
    BY <1>2, <1>3, <1>5, <1>6, <1>7 DEF Stages
  <1>14. Single'
    <2> SUFFICES ASSUME NEW x \in Kinds, x \notin blurred', NEW i, i \in Active', i \in Group(x)',
                        NEW j, j \in Group(x)'
                 PROVE  j <= i /\ (j \in Active' => j = i)
      BY DEF Single, Kinds
    <2>1. CASE x \in {n, s}
      <3>1. i = k
        BY <1>8, <1>9, <1>11, <2>1
      <3>2. j \in DOMAIN trades \cup {k} /\ (j # k => j \in Group(x))
        BY <1>9, <1>10, <2>1
      <3>3. j <= k
        BY <1>1, <1>2, <3>2
      <3> QED
        BY <1>8, <1>11, <2>1, <3>1, <3>2, <3>3
    <2>2. CASE x \notin {n, s}
      <3>1. i \in Group(x) /\ j \in Group(x) /\ i # k /\ j # k
        BY <1>7, <1>9, <1>10, <2>2
      <3>2. x \in Kinds \ blurred /\ i \in Active /\ (j \in Active' => j \in Active)
        BY <1>4, <1>8, <3>1
      <3> QED
        BY <1>2, <3>1, <3>2 DEF Single
    <2> QED
      BY <2>1, <2>2
  <1>15. ASSUME NEW x \in Kinds \ blurred', InLimit(x), Stand(x)'
         PROVE  Counted(x)'
    <2>1. x \in Kinds \ blurred /\ Shown(x)' = Shown(x)
      BY <1>4 DEF Shown, saleRanks
    <2>2. \A j \in Group(x) : /\ j \in Group(x)' /\ trades'[j] = trades[j] /\ sale'[j] = sale[j]
                              /\ (j \in Active' <=> j \in Active)
      BY <1>5, <1>6, <1>7, <1>8, <1>9, <1>10
    <2>3. \A j \in Group(x) : trades[j].status # "rejected" /\ (trades[j].executed \/ j \in Active)
      BY <1>15, <2>2 DEF Stand
    <2>4. Counted(x)
      BY <1>15, <2>1, <2>3 DEF CountInv, Stand
    <2>5. CASE x \in {n, s}
      <3>1. Active \cap Group(x) = {}
        BY <1>11, <1>15, <2>5
      <3>2. Shown(x) = Cardinality(Group(x))
        BY <2>4, <3>1 DEF Counted
      <3>3. Group(x)' \ {k} = Group(x) /\ (Active \cap Group(x))' = {k}
        BY <1>7, <1>8, <1>9, <1>10, <2>5, <3>1
      <3> QED
        BY <1>3, <1>6, <2>1, <3>2, <3>3 DEF Counted, Before, Between
    <2>6. CASE x \notin {n, s}
      <3>1. Group(x)' = Group(x) /\ (Active \cap Group(x))' = Active \cap Group(x)
        BY <1>7, <1>8, <1>9, <1>10, <2>6
      <3> QED
        BY <2>1, <2>2, <2>4, <3>1 DEF Counted, Before, Between
    <2> QED
      BY <2>5, <2>6
  <1> QED
    BY <1>12, <1>13, <1>14, <1>15 DEF CountInv, Kinds, InLimit

\* A limit that every group fits into leaves none out.
LEMMA NoneLeftOut ==
  ASSUME NEW G, IsFiniteSet(G), Cardinality(G) <= Limit, NEW counts \in [G -> Nat],
         NEW f \in Grouped(counts)
  PROVE  f = counts
  <1> DEFINE all == {g \in G : counts[g] > 0}
  <1>1. IsFiniteSet(all) /\ Cardinality(all) <= Cardinality(G) /\ Cardinality(all) \in Nat
        /\ Cardinality(G) \in Nat
    BY FS_Subset, FS_CardinalityType
  <1>2. PICK kept \in SUBSET all :
          /\ Cardinality(kept) = Limit \/ kept = all
          /\ f = [g \in G |-> IF g \in kept THEN counts[g] ELSE 0]
    BY DEF Grouped
  <1>3. kept = all
    <2>1. Limit \in Nat
      BY SaleAssumption
    <2>2. Cardinality(kept) = Limit => Cardinality(all) <= Cardinality(kept)
      BY <1>1, <2>1
    <2>3. Cardinality(kept) <= Cardinality(all) /\ Cardinality(kept) \in Nat
      BY <1>1, FS_Subset, FS_CardinalityType
    <2>4. Cardinality(kept) = Limit => Cardinality(kept) = Cardinality(all)
      BY <1>1, <2>2, <2>3
    <2> QED
      BY <1>1, <1>2, <2>4, FS_Subset
  <1>4. \A g \in G : f[g] = counts[g]
    BY <1>2, <1>3
  <1> QED
    BY <1>2, <1>4

LEMMA RestartKeeps ==
  ASSUME CountInv, Restart
  PROVE  CountInv'
  <1>1. /\ SaleTypes /\ trades \in Seq(Trade) /\ sale \in Seq(RequestType)
        /\ Len(sale) = Len(trades) /\ DOMAIN sale = DOMAIN trades /\ Len(trades) \in Nat
        /\ DOMAIN trades = 1 .. Len(trades)
    BY Domains DEF CountInv, SaleTypes
  <1> DEFINE ofNames == [n \in SaleNames |-> Cardinality(SalesOf(n) \cap Counting)]
             bySellers == [s \in Sellers |-> Cardinality(SalesBy(s) \cap Counting)]
  <1>2. /\ trades' = trades /\ sale' = [k \in DOMAIN trades |-> Ended]
        /\ most' \in Grouped(ofNames) /\ earners' \in Grouped(bySellers)
    BY <1>1 DEF Restart
  <1>3. /\ \A n \in SaleNames : /\ Group(n) = SalesOf(n)
                                /\ Cardinality(SalesOf(n) \cap Counting) \in Nat
        /\ \A s \in Sellers : /\ Group(s) = SalesBy(s) /\ s \notin SaleNames
                              /\ Cardinality(SalesBy(s) \cap Counting) \in Nat
    <2>1. \A x : Cardinality(Group(x) \cap Counting) \in Nat
      BY <1>1, Domains, FS_Subset, FS_CardinalityType
    <2> QED
      BY <1>1, <2>1, Groups
  <1>4. ofNames \in [SaleNames -> Nat] /\ bySellers \in [Sellers -> Nat]
    BY <1>3
  <1> HIDE DEF ofNames, bySellers
  <1>5. ASSUME NEW G, NEW counts \in [G -> Nat], NEW f \in Grouped(counts)
        PROVE  f \in [G -> Nat]
    <2>1. PICK kept : f = [g \in G |-> IF g \in kept THEN counts[g] ELSE 0]
      BY DEF Grouped
    <2> QED
      BY <2>1
  <1>6. Ended \in RequestType /\ Ended.at = "none"
    BY DEF Ended, RequestType, SaleSteps
  <1>7. SaleTypes'
    <2>1. sale' \in Seq(RequestType) /\ Len(sale') = Len(trades)
      BY <1>1, <1>2, <1>6
    <2> QED
      BY <1>1, <1>2, <1>4, <1>5, <2>1 DEF SaleTypes
  <1>8. Active' = {}
    BY <1>1, <1>2, <1>6 DEF Active
  <1>9. Stages' /\ Single'
    BY <1>1, <1>2, <1>6, <1>8 DEF Stages, Single
  <1>10. ASSUME NEW x \in Kinds, InLimit(x), Stand(x)'
         PROVE  Counted(x)'
    <2>1. Group(x)' = Group(x) /\ Counting' = Counting
      BY <1>2 DEF Group, Recorded, Of, Counting
    <2>2. \A k \in Group(x) : trades[k].status # "rejected"
      BY <1>2, <1>10, <2>1 DEF Stand
    <2>3. Group(x) \cap Counting = Group(x)
      BY <2>2 DEF Counting, Group
    <2>4. Shown(x)' = Cardinality(Group(x))
      <3>1. CASE x \in SaleNames
        <4>1. most' = ofNames
          BY <1>2, <1>4, <1>10, <3>1, NoneLeftOut, SaleAssumption DEF InLimit
        <4> QED
          BY <1>3, <2>3, <3>1, <4>1 DEF Shown, ofNames
      <3>2. CASE x \notin SaleNames
        <4>1. x \in Sellers
          BY <3>2 DEF Kinds
        <4>2. earners' = bySellers
          BY <1>2, <1>4, <1>10, <3>2, NoneLeftOut, SaleAssumption DEF InLimit
        <4> QED
          BY <1>3, <2>3, <3>2, <4>1, <4>2 DEF Shown, bySellers
      <3> QED
        BY <3>1, <3>2
    <2> QED
      BY <1>8, <2>1, <2>4 DEF Counted
  <1> QED
    BY <1>7, <1>9, <1>10 DEF CountInv, Kinds, InLimit

-----------------------------------------------------------------------------
(* Together. *)

LEMMA NothingSold ==
  ASSUME SaleInit
  PROVE  CountInv
  <1>1. /\ trades = <<>> /\ sale = <<>> /\ DOMAIN trades = {} /\ DOMAIN sale = {}
        /\ most = [n \in SaleNames |-> 0] /\ earners = [s \in Sellers |-> 0]
    BY DEF SaleInit
  <1>2. SaleTypes
    BY <1>1 DEF SaleTypes
  <1>3. \A x : Group(x) = {} /\ Active = {}
    BY <1>1 DEF Group, Recorded, Active
  <1>4. Cardinality({}) = 0
    BY FS_EmptySet
  <1>5. \A x \in Kinds : Shown(x) = 0
    BY <1>1 DEF Shown, Kinds
  <1>6. \A x \in Kinds : Counted(x)
    BY <1>3, <1>4, <1>5 DEF Counted
  <1> QED
    BY <1>1, <1>2, <1>3, <1>6 DEF CountInv, Stages, Single

LEMMA CountStep ==
  ASSUME CountInv, [SaleNext]_saleVars
  PROVE  CountInv'
  <1>1. ASSUME NEW n \in SaleNames, NEW s \in Sellers, Record(n, s) PROVE CountInv'
    BY <1>1, RecordKeeps
  <1>2. ASSUME NEW k \in DOMAIN trades, SaleStep(k) PROVE CountInv'
    BY <1>2, InvokeKeeps, CountSalesKeeps, AddRecentKeeps, AddMostKeeps, SumEarnerKeeps,
       AddEarnerKeeps DEF SaleStep
  <1>3. ASSUME NEW k \in DOMAIN trades, SetStatus(k) PROVE CountInv'
    BY <1>3, SetStatusKeeps
  <1>4. ASSUME UNCHANGED saleVars PROVE CountInv'
    <2>1. UNCHANGED <<trades, sale, most, earners, blurred>>
      BY <1>4 DEF saleVars, saleRanks
    <2>2. Active' = Active /\ \A x : Group(x)' = Group(x) /\ Shown(x)' = Shown(x)
      BY <2>1 DEF Active, Group, Recorded, Of, Shown
    <2>3. SaleTypes' /\ Stages' /\ Single'
      BY <2>1, <2>2 DEF CountInv, SaleTypes, Stages, Single, Kinds
    <2>4. \A x : (Stand(x)' <=> Stand(x)) /\ (Counted(x)' <=> Counted(x))
      BY <2>1, <2>2 DEF Stand, Counted, Before, Between
    <2> QED
      BY <2>1, <2>3, <2>4 DEF CountInv, Kinds, InLimit
  <1> QED
    BY <1>1, <1>2, <1>3, <1>4, RestartKeeps DEF SaleNext

LEMMA CountInvariant == SaleSpec => []CountInv
  <1>1. SaleInit => CountInv
    BY NothingSold
  <1>2. CountInv /\ [SaleNext]_saleVars => CountInv'
    BY CountStep
  <1> QED
    BY <1>1, <1>2, PTL DEF SaleSpec

\* Most traded names and top earners count the same trades in the running server
\* and after a rebuild (service/event.rs:664-719, main.rs:256-427): all purchases
\* of the name or seller, unless two of its purchases overlapped or a step of one
\* failed, as long as the names, or sellers, fit into the limit.
THEOREM CountsExact == SaleSpec => []CountsAreExact
  <1>1. ASSUME CountInv PROVE CountsAreExact
    <2>1. ASSUME NEW x \in Kinds, Plain(x, Group(x)), InLimit(x)
          PROVE  Shown(x) = Cardinality(Group(x))
      <3>1. Stand(x) /\ x \notin blurred /\ Active \cap Group(x) = {}
        BY <2>1 DEF Plain, Stand
      <3> QED
        BY <1>1, <2>1, <3>1 DEF CountInv, Counted
    <2>2. \A n \in SaleNames : Group(n) = SalesOf(n)
      BY <1>1, Groups DEF CountInv
    <2>3. \A s \in Sellers : Group(s) = SalesBy(s) /\ s \notin SaleNames
      BY <1>1, Groups DEF CountInv
    <2> QED
      BY <2>1, <2>2, <2>3 DEF CountsAreExact, Shown, InLimit, Kinds
  <1> QED
    BY <1>1, CountInvariant, PTL

-----------------------------------------------------------------------------
(* The order of updated_at, and the rows of recent sales. *)

\* Every record has its place, and a shown sale is a number.
Occurs(k, s) == \E i \in DOMAIN s : s[i] = k
Placed ==
  /\ byTime \in Seq(Nat) /\ recent \in [SaleNames -> Nat]
  /\ \A k \in DOMAIN trades : Occurs(k, byTime)

\* The sales of x past the ranking of recent sales.
Waiting == {"invoke", "count", "recent"}
IsOut(k) == trades[k].status # "deleted" /\ sale[k].at \notin Waiting
Out(x) == {k \in Group(x) : sale[k].at \notin Waiting}

\* The sale shown is the last one; the restart's may be missing if the limit left
\* out records, and is an earlier one if the name was sold more than once.
Shows(n) ==
  /\ n \notin rebuilt => \A k \in Out(n) : k <= recent[n]
  /\ n \in rebuilt /\ Len(trades) <= Limit /\ Out(n) # {} => recent[n] # 0
  /\ n \in rebuilt /\ recent[n] # 0 => \A k \in Out(n) : Out(n) = {k} => k <= recent[n]

RecentInv ==
  /\ CountInv /\ Placed
  /\ \A n \in SaleNames \ blurred : Stand(n) => Shows(n)

LEMMA LeastNatural ==
  ASSUME NEW T \in SUBSET Nat, T # {}
  PROVE  \E m \in T : \A i \in T : m <= i
  <1>1. PICK R : R = OpToRel(<, Nat)
    OBVIOUS
  <1>2. IsWellFoundedOn(R, Nat)
    BY <1>1, NatLessThanWellFounded
  <1>3. \A i, j \in Nat : i < j => <<i, j>> \in R
    BY <1>1 DEF OpToRel
  <1>4. PICK m \in T : \A i \in T : ~ (<<i, m>> \in R)
    BY <1>2, WFMin
  <1>5. \A i \in T : ~ (i < m)
    BY <1>3, <1>4
  <1> QED
    BY <1>4, <1>5

LEMMA Places ==
  ASSUME Placed, NEW k \in DOMAIN trades
  PROVE  Place(k) \in DOMAIN byTime /\ byTime[Place(k)] = k /\ Place(k) \in Nat
  <1>1. \E i \in DOMAIN byTime : byTime[i] = k
    BY DEF Placed, Occurs
  <1>2. Place(k) \in DOMAIN byTime /\ byTime[Place(k)] = k
    BY <1>1 DEF Place
  <1>3. DOMAIN byTime \subseteq Nat
    BY DEF Placed
  <1> QED
    BY <1>2, <1>3

\* Records have an earliest one.
LEMMA Earliest ==
  ASSUME Placed, NEW M \in SUBSET DOMAIN trades, M # {}
  PROVE  \E k \in M : \A j \in M \ {k} : Later(j, k)
  <1> DEFINE P == {Place(k) : k \in M}
  <1>1. P \in SUBSET Nat /\ P # {}
    BY Places
  <1>2. PICK m \in P : \A i \in P : m <= i
    <2> HIDE DEF P
    <2> QED
      BY <1>1, LeastNatural
  <1>3. PICK k \in M : m = Place(k)
    BY <1>2
  <1>4. ASSUME NEW j \in M \ {k} PROVE Place(j) > Place(k)
    <2>1. Place(j) # Place(k)
      BY Places
    <2>2. Place(k) <= Place(j)
      BY <1>2, <1>3
    <2> QED
      BY <2>1, <2>2, Places
  <1> QED
    BY <1>4 DEF Later

\* An update moves a record to the end, and neither loses nor adds any.
LEMMA Updated ==
  ASSUME Placed, NEW k \in DOMAIN trades, k \in Nat
  PROVE  /\ UpdatedNow(k) \in Seq(Nat) /\ Len(UpdatedNow(k)) = Len(byTime)
         /\ \A j \in DOMAIN trades : Occurs(j, UpdatedNow(k))
         /\ \A i \in 1 .. Len(byTime) : Occurs(UpdatedNow(k)[i], byTime)
  <1>1. PICK p : p = Place(k)
    OBVIOUS
  <1>2. PICK l : l = Len(byTime)
    OBVIOUS
  <1>3. /\ byTime \in Seq(Nat) /\ l \in Nat /\ DOMAIN byTime = 1 .. l /\ p \in 1 .. l
        /\ byTime[p] = k
    BY <1>1, <1>2, Places DEF Placed
  <1>4. PICK a : a = SubSeq(byTime, 1, p - 1)
    OBVIOUS
  <1>5. PICK b : b = SubSeq(byTime, p + 1, l)
    OBVIOUS
  <1>6. /\ a \in Seq(Nat) /\ Len(a) = p - 1 /\ \A i \in 1 .. p - 1 : a[i] = byTime[i]
    <2>1. \A i \in 1 .. p - 1 : byTime[i] \in Nat
      BY <1>3
    <2>2. /\ SubSeq(byTime, 1, p - 1) \in Seq(Nat)
          /\ Len(SubSeq(byTime, 1, p - 1)) = IF 1 <= p - 1 THEN p - 1 - 1 + 1 ELSE 0
          /\ \A i \in 1 .. p - 1 - 1 + 1 : SubSeq(byTime, 1, p - 1)[i] = byTime[1 + i - 1]
      BY <1>3, <2>1, SubSeqProperties
    <2> QED
      BY <1>3, <1>4, <2>2
  <1>7. /\ b \in Seq(Nat) /\ Len(b) = l - p /\ \A i \in 1 .. l - p : b[i] = byTime[p + i]
    <2>1. \A i \in p + 1 .. l : byTime[i] \in Nat
      BY <1>3
    <2>2. /\ SubSeq(byTime, p + 1, l) \in Seq(Nat)
          /\ Len(SubSeq(byTime, p + 1, l)) = IF p + 1 <= l THEN l - (p + 1) + 1 ELSE 0
          /\ \A i \in 1 .. l - (p + 1) + 1 : SubSeq(byTime, p + 1, l)[i] = byTime[p + 1 + i - 1]
      BY <1>3, <2>1, SubSeqProperties
    <2> QED
      BY <1>3, <1>5, <2>2
  <1>8. PICK c : c = a \o b
    OBVIOUS
  <1>9. /\ c \in Seq(Nat) /\ Len(c) = l - 1
        /\ \A i \in 1 .. l - 1 : c[i] = IF i <= p - 1 THEN byTime[i] ELSE byTime[i + 1]
    <2>1. /\ c \in Seq(Nat) /\ Len(c) = Len(a) + Len(b)
          /\ \A i \in 1 .. Len(a) + Len(b) : c[i] = IF i <= Len(a) THEN a[i] ELSE b[i - Len(a)]
      BY <1>6, <1>7, <1>8, ConcatProperties
    <2>2. Len(a) + Len(b) = l - 1
      BY <1>3, <1>6, <1>7
    <2>3. ASSUME NEW i \in 1 .. l - 1
          PROVE  c[i] = IF i <= p - 1 THEN byTime[i] ELSE byTime[i + 1]
      <3>1. c[i] = IF i <= p - 1 THEN a[i] ELSE b[i - (p - 1)]
        BY <1>6, <2>1, <2>2
      <3>2. CASE i <= p - 1
        BY <1>3, <1>6, <3>1, <3>2
      <3>3. CASE i > p - 1
        <4>1. i - (p - 1) \in 1 .. l - p /\ p + (i - (p - 1)) = i + 1
          BY <1>3, <3>3
        <4> QED
          BY <1>3, <1>7, <3>1, <3>3, <4>1
      <3> QED
        BY <1>3, <3>2, <3>3
    <2> QED
      BY <2>1, <2>2, <2>3
  <1>10. PICK u : u = UpdatedNow(k)
    OBVIOUS
  <1>11. /\ u \in Seq(Nat) /\ Len(u) = l /\ DOMAIN u = 1 .. l /\ u[l] = k
         /\ \A i \in 1 .. l - 1 : u[i] = c[i]
    <2>1. u = Append(c, k)
      BY <1>1, <1>2, <1>4, <1>5, <1>8, <1>10 DEF UpdatedNow, RemoveAt
    <2>2. /\ u \in Seq(Nat) /\ Len(u) = Len(c) + 1 /\ u[Len(c) + 1] = k
          /\ \A i \in 1 .. Len(c) : u[i] = c[i]
      BY <1>9, <2>1, AppendProperties
    <2>3. Len(c) + 1 = l /\ DOMAIN u = 1 .. Len(u)
      BY <1>3, <1>9, <2>2
    <2> QED
      BY <1>9, <2>2, <2>3
  <1>12. ASSUME NEW j \in DOMAIN trades PROVE \E i \in DOMAIN u : u[i] = j
    <2>1. CASE j = k
      BY <1>3, <1>11, <2>1
    <2>2. CASE j # k
      <3>1. PICK i \in 1 .. l : byTime[i] = j
        BY <1>3 DEF Placed, Occurs
      <3>2. i # p
        BY <1>3, <2>2, <3>1
      <3>3. CASE i < p
        <4>1. i \in 1 .. l - 1 /\ i <= p - 1
          BY <1>3, <3>3
        <4>2. u[i] = j
          BY <1>9, <1>11, <3>1, <4>1
        <4> QED
          BY <1>11, <4>2
      <3>4. CASE i > p
        <4>1. i - 1 \in 1 .. l - 1 /\ ~ (i - 1 <= p - 1) /\ (i - 1) + 1 = i
          BY <1>3, <3>4
        <4>2. u[i - 1] = j
          BY <1>9, <1>11, <3>1, <4>1
        <4>3. i - 1 \in DOMAIN u
          BY <1>3, <1>11, <4>1
        <4> QED
          BY <4>2, <4>3
      <3> QED
        BY <1>3, <3>2, <3>3, <3>4
    <2> QED
      BY <2>1, <2>2
  <1>13. ASSUME NEW i \in 1 .. l PROVE \E j \in DOMAIN byTime : byTime[j] = u[i]
    <2>1. CASE i = l
      BY <1>3, <1>11, <2>1
    <2>2. CASE i # l
      <3>1. i \in 1 .. l - 1
        BY <1>3, <2>2
      <3>2. u[i] = byTime[i] \/ u[i] = byTime[i + 1]
        BY <1>9, <1>11, <3>1
      <3>3. i \in DOMAIN byTime /\ i + 1 \in DOMAIN byTime
        BY <1>3, <3>1
      <3> QED
        BY <3>2, <3>3
    <2> QED
      BY <2>1, <2>2
  <1> QED
    BY <1>2, <1>10, <1>11, <1>12, <1>13 DEF Occurs

-----------------------------------------------------------------------------
(* The steps, and the sale shown. *)

LEMMA StillStands ==
  ASSUME SaleTypes, NEW k, Lessens(k), sale[k].at # "none" \/ trades[k].executed,
         trades[k].status = "rejected" => trades'[k].status = "rejected",
         trades[k].status # "deleted", NEW x, Stand(x)'
  PROVE  Stand(x)
  <1> SUFFICES ASSUME NEW j \in Group(x)
               PROVE  trades[j].status # "rejected" /\ (trades[j].executed \/ j \in Active)
    BY DEF Stand
  <1>1. /\ DOMAIN trades' = DOMAIN trades /\ DOMAIN sale = DOMAIN trades /\ k \in DOMAIN trades
        /\ j \in DOMAIN trades /\ x \in Of(j) /\ trades[j].status # "deleted"
    BY DEF Lessens, Moves, SaleTypes, Group, Recorded
  <1>2. CASE j # k
    <2>1. trades'[j] = trades[j]
      BY <1>1, <1>2 DEF Lessens, Moves
    <2>2. j \in Group(x)'
      BY <1>1, <2>1 DEF Group, Recorded, Of
    <2>3. trades'[j].status # "rejected" /\ (trades'[j].executed \/ j \in Active')
      BY <2>2 DEF Stand
    <2> QED
      BY <2>1, <2>3 DEF Lessens
  <1>3. CASE j = k
    <2>1. k \in Active \/ trades[k].executed
      BY <1>1 DEF Active
    <2>2. trades[k].status # "rejected"
      <3>1. SUFFICES ASSUME trades[k].status = "rejected" PROVE FALSE
        OBVIOUS
      <3>2. trades'[k].status = "rejected" /\ x \in Of(k)'
        BY <1>1, <1>3, <3>1 DEF Lessens, Moves, Of
      <3>3. k \in Group(x)'
        BY <1>1, <3>2 DEF Group, Recorded
      <3> QED
        BY <3>2, <3>3 DEF Stand
    <2> QED
      BY <1>3, <2>1, <2>2
  <1> QED
    BY <1>2, <1>3

LEMMA SameOut ==
  ASSUME SaleTypes, NEW k, Moves(k), IsOut(k)' <=> IsOut(k)
  PROVE  \A x : Out(x)' = Out(x)
  <1> SUFFICES ASSUME NEW x, NEW j PROVE j \in Out(x)' <=> j \in Out(x)
    OBVIOUS
  <1>1. DOMAIN trades' = DOMAIN trades /\ k \in DOMAIN trades
    BY DEF Moves, SaleTypes
  <1>2. CASE j = k
    BY <1>1, <1>2 DEF Out, IsOut, Group, Recorded, Of, Moves
  <1>3. CASE j # k
    BY <1>1, <1>3 DEF Out, Group, Recorded, Of, Moves
  <1> QED
    BY <1>2, <1>3

\* A step other than add_recent_sale.
LEMMA StepShows ==
  ASSUME RecentInv, CountInv', NEW k, Lessens(k), Placed',
         recent' = recent, rebuilt' = rebuilt, trades[k].status # "deleted",
         (IsOut(k)' <=> IsOut(k)) \/ Of(k) \subseteq blurred',
         sale[k].at # "none" \/ trades[k].executed,
         trades[k].status = "rejected" => trades'[k].status = "rejected"
  PROVE  RecentInv'
  <1> SUFFICES ASSUME NEW n \in SaleNames, n \notin blurred', Stand(n)' PROVE Shows(n)'
    BY DEF RecentInv
  <1>1. SaleTypes /\ SaleTypes' /\ Moves(k) /\ Len(trades') = Len(trades)
    BY DEF RecentInv, CountInv, Lessens, Moves
  <1>2. Stand(n)
    BY <1>1, StillStands
  <1>3. Shows(n)
    BY <1>2 DEF RecentInv, Lessens
  <1>4. Out(n)' = Out(n)
    <2>1. CASE n \in Of(k)
      BY <1>1, <2>1, SameOut
    <2>2. CASE n \notin Of(k)
      <3>1. Group(n)' = Group(n) /\ \A j \in Group(n) : sale'[j] = sale[j]
        BY <1>1, <2>2, OtherGroup DEF RecentInv
      <3> QED
        BY <3>1 DEF Out
    <2> QED
      BY <2>1, <2>2
  <1> QED
    BY <1>1, <1>3, <1>4 DEF Shows

\* A request's step leaves the order as it is.
LEMMA StillOrdered ==
  ASSUME Placed, byTime' = byTime, recent' = recent, DOMAIN trades' = DOMAIN trades
  PROVE  Placed'
  BY DEF Placed

LEMMA RequestShows ==
  ASSUME RecentInv, CountInv', NEW k \in DOMAIN trades,
         CountSales(k) \/ AddMost(k) \/ SumEarner(k) \/ AddEarner(k)
  PROVE  RecentInv'
  <1>1. /\ trades' = trades /\ byTime' = byTime /\ recent' = recent /\ rebuilt' = rebuilt
        /\ blurred \subseteq blurred' /\ sale[k].at \in {"count", "most", "sum", "earners"}
    BY DEF CountSales, AddMost, SumEarner, AddEarner, Fails, saleRanks
  <1>2. PICK r : /\ sale' = [sale EXCEPT ![k] = r]
                 /\ r.at # "invoke" /\ (r.at = "recent" <=> sale[k].at = "count")
                 /\ r.at # "count"
    <2>1. PICK at, c : /\ Step(k, at, c)
                       /\ at # "invoke" /\ (at = "recent" <=> sale[k].at = "count")
                       /\ at # "count"
      <3>1. \A c : Finish(k) <=> Step(k, "none", 0)
        BY DEF Finish, Step, Ended
      <3>2. CASE CountSales(k)
        BY <1>1, <3>2 DEF CountSales
      <3>3. CASE AddMost(k)
        BY <1>1, <3>3 DEF AddMost
      <3>4. CASE SumEarner(k)
        <4>1. Step(k, "earners", Cardinality(SalesBy(trades[k].seller))) \/ Finish(k)
          BY <3>4 DEF SumEarner
        <4> QED
          BY <1>1, <3>1, <3>4, <4>1 DEF SumEarner
      <3>5. CASE AddEarner(k)
        BY <1>1, <3>1, <3>5 DEF AddEarner
      <3> QED
        BY <3>2, <3>3, <3>4, <3>5
    <2>2. /\ sale' = [sale EXCEPT ![k] = [at |-> at, count |-> c]]
          /\ [at |-> at, count |-> c].at = at
      BY <2>1 DEF Step
    <2> QED
      BY <2>1, <2>2
  <1>3. /\ SaleTypes /\ DOMAIN sale = DOMAIN trades
    BY Domains DEF RecentInv, CountInv
  <1>4. sale'[k] = r
    BY <1>2, <1>3
  <1>5. r \in RequestType
    <2>1. sale' \in Seq(RequestType) /\ Len(sale') = Len(trades)
      BY <1>1 DEF CountInv, SaleTypes
    <2>2. k \in 1 .. Len(sale')
      BY <1>3, <2>1, Domains
    <2> QED
      BY <1>4, <2>1, <2>2
  <1>6. Lessens(k)
    BY <1>1, <1>2, <1>5, RequestGoesOn DEF RecentInv
  <1>7. IsOut(k)' <=> IsOut(k)
    BY <1>1, <1>2, <1>4 DEF IsOut, Waiting
  <1>8. trades[k].status # "deleted"
    BY <1>1 DEF RecentInv, CountInv, Stages
  <1>9. Placed'
    BY <1>1, StillOrdered DEF RecentInv
  <1> QED
    BY <1>1, <1>6, <1>7, <1>8, <1>9, StepShows

LEMMA AddRecentShows ==
  ASSUME RecentInv, CountInv', NEW k \in DOMAIN trades, AddRecent(k)
  PROVE  RecentInv'
  <1>1. /\ sale[k].at = "recent" /\ trades' = trades /\ byTime' = byTime
        /\ blurred \subseteq blurred' /\ Step(k, "most", sale[k].count)
    BY DEF AddRecent, Fails
  <1>2. /\ CountInv /\ SaleTypes /\ Single /\ Placed /\ DOMAIN sale = DOMAIN trades
        /\ trades[k].name \in SaleNames /\ k \in Nat /\ trades[k].status # "deleted"
    BY <1>1, Domains, Owner DEF RecentInv, CountInv, Stages
  <1> DEFINE r == [at |-> "most", count |-> sale[k].count]
  <1>3. r \in RequestType /\ sale' = [sale EXCEPT ![k] = r] /\ r.at = "most"
    BY <1>1, <1>2, Owner DEF Step, RequestType, SaleSteps
  <1> HIDE DEF r
  <1>4. Lessens(k)
    BY <1>1, <1>2, <1>3, RequestGoesOn
  <1>5. \/ /\ recent' = [recent EXCEPT ![trades[k].name] = k]
           /\ rebuilt' = rebuilt \ {trades[k].name}
        \/ recent' = recent /\ rebuilt' = rebuilt /\ Of(k) \subseteq blurred'
    BY DEF AddRecent, Fails, Of
  <1>6. Placed'
    BY <1>1, <1>2, <1>5 DEF Placed
  <1>7. ASSUME NEW n \in SaleNames, n \notin blurred', Stand(n)' PROVE Shows(n)'
    <2>1. Stand(n)
      BY <1>1, <1>2, <1>4, <1>7, StillStands
    <2>2. Shows(n) /\ n \notin blurred
      BY <1>1, <1>7, <2>1 DEF RecentInv
    <2>3. CASE n \in Of(k)
      <3>1. n = trades[k].name
        BY <1>2, <1>7, <2>3, NameOrSeller
      <3>2. n \in Kinds \ blurred
        BY <2>2 DEF Kinds
      <3>3. k \in Active \cap Group(n)
        BY <1>1, <1>2, <2>3, <3>2, OwnAlone
      <3>4. \A j \in Group(n) : j <= k
        BY <1>2, <3>2, <3>3 DEF Single
      <3>5. recent'[n] = k /\ n \notin rebuilt'
        BY <1>2, <1>5, <1>7, <2>3, <3>1 DEF Placed
      <3>6. Out(n)' \subseteq Group(n)
        BY <1>1 DEF Out, Group, Recorded, Of
      <3> QED
        BY <3>4, <3>5, <3>6 DEF Shows
    <2>4. CASE n \notin Of(k)
      <3>1. Group(n)' = Group(n) /\ \A j \in Group(n) : sale'[j] = sale[j]
        BY <1>2, <1>4, <2>4, OtherGroup DEF Lessens
      <3>2. Out(n)' = Out(n)
        BY <3>1 DEF Out
      <3>3. recent'[n] = recent[n] /\ (n \in rebuilt' <=> n \in rebuilt)
        BY <1>2, <1>5, <2>4 DEF Placed, Of
      <3> QED
        BY <1>1, <2>2, <3>2, <3>3 DEF Shows
    <2> QED
      BY <2>3, <2>4
  <1> QED
    BY <1>6, <1>7 DEF RecentInv

LEMMA InvokeShows ==
  ASSUME RecentInv, CountInv', NEW k \in DOMAIN trades, Invoke(k)
  PROVE  RecentInv'
  <1>1. /\ sale[k].at = "invoke" /\ byTime' = byTime /\ recent' = recent /\ rebuilt' = rebuilt
        /\ blurred \subseteq blurred' /\ ~ trades[k].executed /\ trades[k].status = "pending"
    BY DEF Invoke, Fails, saleRanks, RecentInv, CountInv, Stages
  <1>2. /\ SaleTypes /\ DOMAIN sale = DOMAIN trades /\ trades \in Seq(Trade)
        /\ sale \in Seq(RequestType) /\ Len(sale) = Len(trades)
    BY Domains DEF RecentInv, CountInv, SaleTypes
  <1>3. /\ DOMAIN trades' = DOMAIN trades /\ Len(trades') = Len(trades)
        /\ \A j \in DOMAIN trades \ {k} : trades'[j] = trades[j]
        /\ trades'[k].name = trades[k].name /\ trades'[k].seller = trades[k].seller
    <2>1. trades[k] \in Trade
      BY <1>2
    <2>2. \/ trades' = [trades EXCEPT ![k].executed = TRUE]
          \/ trades' = [trades EXCEPT ![k].status = "deleted"]
          \/ trades' = trades
      BY DEF Invoke
    <2> QED
      BY <1>2, <2>1, <2>2 DEF Trade
  <1>4. /\ \A j \in DOMAIN trades \ {k} : sale'[j] = sale[j]
        /\ DOMAIN sale' = DOMAIN trades
        /\ sale'[k].at = "count" \/ trades'[k].status = "deleted" \/ Of(k) \subseteq blurred'
    <2>1. CASE Step(k, "count", 0)
      BY <1>2, <2>1 DEF Step
    <2>2. CASE Finish(k) /\ (trades' = [trades EXCEPT ![k].status = "deleted"] \/ Fails(k))
      <3>1. trades[k] \in Trade
        BY <1>2
      <3>2. trades' = [trades EXCEPT ![k].status = "deleted"] => trades'[k].status = "deleted"
        BY <1>2, <3>1 DEF Trade
      <3>3. Fails(k) => Of(k) \subseteq blurred'
        BY DEF Fails, Of
      <3> QED
        BY <1>2, <2>2, <3>2, <3>3 DEF Finish
    <2> QED
      BY <2>1, <2>2 DEF Invoke
  <1>5. Lessens(k)
    <2>1. trades' \in Seq(Trade) /\ sale' \in Seq(RequestType) /\ Len(sale') = Len(trades)
      BY <1>3 DEF CountInv, SaleTypes
    <2>2. Moves(k)
      BY <1>3, <1>4, <2>1 DEF Moves
    <2> QED
      BY <1>1, <1>2, <2>2, Lessening
  <1>6. (IsOut(k)' <=> IsOut(k)) \/ Of(k) \subseteq blurred'
    BY <1>1, <1>4 DEF IsOut, Waiting
  <1>7. Placed'
    BY <1>1, <1>3, StillOrdered DEF RecentInv
  <1> QED
    BY <1>1, <1>5, <1>6, <1>7, StepShows

LEMMA SetStatusShows ==
  ASSUME RecentInv, CountInv', NEW k \in DOMAIN trades, SetStatus(k)
  PROVE  RecentInv'
  <1>1. /\ trades[k].executed /\ trades[k].status = "pending" /\ sale' = sale
        /\ recent' = recent /\ rebuilt' = rebuilt /\ blurred' = blurred
        /\ byTime' = UpdatedNow(k)
    BY DEF SetStatus, saleRanks
  <1>2. /\ SaleTypes /\ DOMAIN sale = DOMAIN trades /\ trades \in Seq(Trade) /\ Placed
        /\ sale \in Seq(RequestType) /\ Len(sale) = Len(trades) /\ k \in Nat
        /\ trades[k] \in Trade
    BY Domains DEF RecentInv, CountInv, SaleTypes
  <1>3. PICK to \in {"finalized", "rejected"} : trades' = [trades EXCEPT ![k].status = to]
    BY DEF SetStatus
  <1>4. /\ DOMAIN trades' = DOMAIN trades /\ Len(trades') = Len(trades)
        /\ \A j \in DOMAIN trades \ {k} : trades'[j] = trades[j]
        /\ trades'[k].name = trades[k].name /\ trades'[k].seller = trades[k].seller
        /\ trades'[k].status # "deleted"
    BY <1>2, <1>3 DEF Trade
  <1>5. Lessens(k)
    <2>1. trades' \in Seq(Trade)
      BY DEF CountInv, SaleTypes
    <2>2. Moves(k)
      BY <1>1, <1>2, <1>4, <2>1 DEF Moves
    <2> QED
      BY <1>1, <1>2, <2>2, Lessening
  <1>6. IsOut(k)' <=> IsOut(k)
    BY <1>1, <1>4 DEF IsOut
  <1>7. Placed'
    <2>1. byTime' \in Seq(Nat) /\ \A j \in DOMAIN trades : Occurs(j, byTime')
      BY <1>1, <1>2, Updated
    <2> QED
      BY <1>1, <1>4, <2>1 DEF Placed, RecentInv
  <1> QED
    BY <1>1, <1>5, <1>6, <1>7, StepShows

LEMMA RecordShows ==
  ASSUME RecentInv, CountInv', NEW n \in SaleNames, NEW s \in Sellers, Record(n, s)
  PROVE  RecentInv'
  <1>1. PICK k : k = Len(trades) + 1
    OBVIOUS
  <1>2. /\ SaleTypes /\ trades \in Seq(Trade) /\ sale \in Seq(RequestType)
        /\ Len(sale) = Len(trades) /\ Len(trades) \in Nat
        /\ DOMAIN trades = 1 .. Len(trades) /\ DOMAIN sale = 1 .. Len(trades)
    BY Domains DEF RecentInv, CountInv, SaleTypes
  <1>3. PICK t : trades' = Append(trades, t)
    BY DEF Record
  <1>4. /\ sale' = Append(sale, [at |-> "invoke", count |-> 0]) /\ byTime' = Append(byTime, k)
        /\ recent' = recent /\ rebuilt' = rebuilt /\ blurred \subseteq blurred'
    BY <1>1 DEF Record, saleRanks
  <1>5. /\ DOMAIN trades' = DOMAIN trades \cup {k} /\ k \notin DOMAIN trades
        /\ Len(trades') = Len(trades) + 1
        /\ \A j \in DOMAIN trades : trades'[j] = trades[j]
    BY <1>1, <1>2, <1>3
  <1>6. /\ sale'[k].at = "invoke" /\ DOMAIN sale' = DOMAIN trades \cup {k}
        /\ \A j \in DOMAIN trades : sale'[j] = sale[j]
    BY <1>1, <1>2, <1>4
  <1>7. Placed'
    <2>1. byTime \in Seq(Nat) /\ k \in Nat
      BY <1>1, <1>2 DEF RecentInv, Placed
    <2>2. /\ byTime' \in Seq(Nat) /\ Len(byTime') = Len(byTime) + 1
          /\ byTime'[Len(byTime) + 1] = k
          /\ \A i \in 1 .. Len(byTime) : byTime'[i] = byTime[i]
      BY <1>4, <2>1, AppendProperties
    <2>3. DOMAIN byTime = 1 .. Len(byTime) /\ DOMAIN byTime' = 1 .. Len(byTime) + 1
          /\ Len(byTime) \in Nat
      BY <2>1, <2>2
    <2>4. Occurs(k, byTime')
      BY <2>2, <2>3 DEF Occurs
    <2>5. ASSUME NEW j \in DOMAIN trades PROVE Occurs(j, byTime')
      <3>1. PICK i \in DOMAIN byTime : byTime[i] = j
        BY DEF RecentInv, Placed, Occurs
      <3>2. i \in DOMAIN byTime' /\ byTime'[i] = j
        BY <2>2, <2>3, <3>1
      <3> QED
        BY <3>2 DEF Occurs
    <2> QED
      BY <1>4, <1>5, <2>2, <2>4, <2>5 DEF RecentInv, Placed
  <1>8. ASSUME NEW x \in SaleNames, x \notin blurred', Stand(x)' PROVE Shows(x)'
    <2>1. \A j \in DOMAIN trades : j \in Group(x)' <=> j \in Group(x)
      BY <1>5 DEF Group, Recorded, Of
    <2>2. Group(x) \subseteq DOMAIN trades /\ Group(x)' \subseteq DOMAIN trades \cup {k}
      BY <1>5 DEF Group, Recorded
    <2>3. \A j \in DOMAIN trades : j \in Active' <=> j \in Active
      BY <1>2, <1>6 DEF Active
    <2>4. Stand(x)
      BY <1>5, <1>8, <2>1, <2>2, <2>3 DEF Stand
    <2>5. Shows(x)
      BY <1>4, <1>8, <2>4 DEF RecentInv
    <2>6. Out(x)' = Out(x)
      BY <1>6, <2>1, <2>2 DEF Out, Waiting
    <2>7. Len(trades') <= Limit => Len(trades) <= Limit
      BY <1>2, <1>5, SaleAssumption
    <2> QED
      BY <1>4, <2>5, <2>6, <2>7 DEF Shows
  <1> QED
    BY <1>7, <1>8 DEF RecentInv

\* The row that a rebuild shows for a name is one of its rows.
LEMMA RebuiltRow ==
  ASSUME Placed, NEW rows \in SUBSET DOMAIN trades, NEW n \in SaleNames
  PROVE  \/ /\ RebuiltRecent(rows)[n] = 0
            /\ \A k \in rows : trades[k].name # n
         \/ /\ RebuiltRecent(rows)[n] \in rows
            /\ trades[RebuiltRecent(rows)[n]].name = n
  <1> DEFINE mine == {k \in rows : trades[k].name = n}
             e == CHOOSE k \in mine : \A j \in mine \ {k} : Later(j, k)
  <1>1. RebuiltRecent(rows)[n] = IF mine = {} THEN 0 ELSE e
    BY DEF RebuiltRecent
  <1>2. mine # {} => e \in mine
    <2>1. mine \in SUBSET DOMAIN trades
      OBVIOUS
    <2> HIDE DEF mine
    <2>2. mine # {} => \E k \in mine : \A j \in mine \ {k} : Later(j, k)
      BY <2>1, Earliest
    <2> QED
      BY <2>2
  <1> QED
    BY <1>1, <1>2

\* Without records beyond the limit, all that count are read.
LEMMA AllRows ==
  ASSUME SaleTypes, Placed, Len(trades) <= Limit
  PROVE  LatestRows = Counting
  <1> SUFFICES ASSUME NEW k \in Counting
               PROVE  Cardinality({j \in Counting : Later(j, k)}) < Limit
    BY DEF LatestRows
  <1>1. /\ k \in DOMAIN trades /\ Counting \subseteq DOMAIN trades /\ Len(trades) \in Nat
        /\ DOMAIN trades = 1 .. Len(trades) /\ Limit \in Nat
    BY Domains, SaleAssumption DEF Counting, Recorded
  <1>2. PICK l : l = Len(trades)
    OBVIOUS
  <1>3. IsFiniteSet(1 .. l) /\ Cardinality(1 .. l) = l
    <2>1. l \in Nat
      BY <1>1, <1>2
    <2>2. IsFiniteSet(1 .. l) /\ Cardinality(1 .. l) = IF 1 > l THEN 0 ELSE l - 1 + 1
      BY <2>1, FS_Interval
    <2> QED
      BY <2>1, <2>2
  <1>4. IsFiniteSet((1 .. l) \ {k}) /\ Cardinality((1 .. l) \ {k}) = l - 1
    BY <1>1, <1>2, <1>3, FS_RemoveElement
  <1>5. {j \in Counting : Later(j, k)} \in SUBSET ((1 .. l) \ {k})
    <2>1. ~ Later(k, k)
      BY <1>1, Places DEF Later
    <2> QED
      BY <1>1, <1>2, <2>1
  <1>6. /\ Cardinality({j \in Counting : Later(j, k)}) <= l - 1
        /\ Cardinality({j \in Counting : Later(j, k)}) \in Nat
    BY <1>4, <1>5, FS_Subset, FS_CardinalityType
  <1> QED
    BY <1>1, <1>2, <1>6

LEMMA RestartShows ==
  ASSUME RecentInv, CountInv', Restart
  PROVE  RecentInv'
  <1>1. /\ trades' = trades /\ byTime' = byTime /\ recent' = RebuiltRecent(LatestRows)
        /\ rebuilt' = SaleNames /\ sale' = [k \in DOMAIN sale |-> Ended]
    BY DEF Restart
  <1>2. /\ SaleTypes /\ Placed /\ DOMAIN sale = DOMAIN trades /\ DOMAIN trades \subseteq Nat
        /\ Len(trades) \in Nat
    BY Domains DEF RecentInv, CountInv
  <1>3. LatestRows \in SUBSET DOMAIN trades /\ LatestRows \subseteq Counting
    BY DEF LatestRows, Counting, Recorded
  <1>4. ASSUME NEW n \in SaleNames
        PROVE  /\ \/ recent'[n] = 0 /\ \A k \in LatestRows : trades[k].name # n
                  \/ recent'[n] \in LatestRows /\ trades[recent'[n]].name = n
               /\ recent'[n] \in Nat
    <2>1. \/ recent'[n] = 0 /\ \A k \in LatestRows : trades[k].name # n
          \/ recent'[n] \in LatestRows /\ trades[recent'[n]].name = n
      BY <1>1, <1>2, <1>3, RebuiltRow
    <2> QED
      BY <1>2, <1>3, <2>1
  <1>5. Placed'
    <2>1. DOMAIN recent' = SaleNames /\ recent' = [n \in SaleNames |-> recent'[n]]
      BY <1>1 DEF RebuiltRecent
    <2>2. recent' \in [SaleNames -> Nat]
      BY <1>4, <2>1
    <2> QED
      BY <1>1, <1>2, <2>2 DEF Placed
  <1>6. ASSUME NEW n \in SaleNames, Stand(n)' PROVE Shows(n)'
    <2>1. Group(n)' = Group(n) /\ Out(n)' = Group(n) /\ Group(n) \subseteq DOMAIN trades
      <3>1. Group(n)' = Group(n) /\ Group(n) \subseteq DOMAIN trades
        BY <1>1 DEF Group, Recorded, Of
      <3>2. \A k \in Group(n) : sale'[k].at \notin Waiting
        BY <1>1, <1>2, <3>1 DEF Ended, Waiting
      <3> QED
        BY <3>1, <3>2 DEF Out
    <2>2. Group(n) \subseteq Counting
      BY <1>1, <1>6, <2>1 DEF Stand, Counting, Group
    <2>3. Group(n) = SalesOf(n)
      BY <1>2, Groups
    <2>4. Len(trades) <= Limit /\ Group(n) # {} => recent'[n] # 0
      <3>1. SUFFICES ASSUME Len(trades) <= Limit, NEW k \in Group(n) PROVE recent'[n] # 0
        OBVIOUS
      <3>2. k \in LatestRows /\ trades[k].name = n
        BY <1>2, <2>2, <2>3, <3>1, AllRows DEF SalesOf
      <3>3. recent'[n] \in LatestRows
        BY <1>4, <3>2
      <3> QED
        BY <1>2, <1>3, <3>3, Domains
    <2>5. recent'[n] # 0 => recent'[n] \in Group(n)
      BY <1>3, <1>4, <2>3 DEF SalesOf, Counting
    <2>6. \A k \in Group(n) : recent'[n] # 0 /\ Group(n) = {k} => k <= recent'[n]
      <3>1. SUFFICES ASSUME NEW k \in Group(n), recent'[n] # 0, Group(n) = {k}
                     PROVE  k <= recent'[n]
        OBVIOUS
      <3>2. recent'[n] = k /\ k \in Nat
        BY <1>2, <2>1, <2>5, <3>1
      <3> QED
        BY <3>2
    <2> QED
      BY <1>1, <2>1, <2>4, <2>6 DEF Shows
  <1> QED
    BY <1>5, <1>6 DEF RecentInv

LEMMA RecentStep ==
  ASSUME RecentInv, CountInv', [SaleNext]_saleVars
  PROVE  RecentInv'
  <1>1. ASSUME NEW n \in SaleNames, NEW s \in Sellers, Record(n, s) PROVE RecentInv'
    BY <1>1, RecordShows
  <1>2. ASSUME NEW k \in DOMAIN trades, SaleStep(k) PROVE RecentInv'
    BY <1>2, InvokeShows, RequestShows, AddRecentShows DEF SaleStep
  <1>3. ASSUME NEW k \in DOMAIN trades, SetStatus(k) PROVE RecentInv'
    BY <1>3, SetStatusShows
  <1>4. ASSUME UNCHANGED saleVars PROVE RecentInv'
    <2>1. UNCHANGED <<trades, byTime, recent, sale, blurred, rebuilt>>
      BY <1>4 DEF saleVars, saleRanks
    <2>2. \A x : Group(x)' = Group(x) /\ Out(x)' = Out(x) /\ (Stand(x)' <=> Stand(x))
      BY <2>1 DEF Group, Recorded, Of, Out, Stand, Active
    <2>3. Placed' /\ \A n : Shows(n)' <=> Shows(n)
      BY <2>1, <2>2 DEF RecentInv, Placed, Shows
    <2> QED
      BY <2>1, <2>2, <2>3 DEF RecentInv
  <1> QED
    BY <1>1, <1>2, <1>3, <1>4, RestartShows DEF SaleNext

LEMMA RecentStarts == SaleInit => RecentInv
  <1> SUFFICES ASSUME SaleInit PROVE RecentInv
    OBVIOUS
  <1>1. /\ trades = <<>> /\ byTime = <<>> /\ DOMAIN trades = {}
        /\ recent = [n \in SaleNames |-> 0] /\ rebuilt = {}
    BY DEF SaleInit
  <1>2. \A n : Out(n) = {}
    BY <1>1 DEF Out, Group, Recorded
  <1> QED
    BY <1>1, <1>2, NothingSold DEF RecentInv, Placed, Shows

LEMMA RecentInvariant == SaleSpec => []RecentInv
  <1>1. RecentInv /\ CountInv /\ CountInv' /\ [SaleNext]_saleVars => RecentInv'
    BY RecentStep
  <1> QED
    BY <1>1, RecentStarts, CountInvariant, PTL DEF SaleSpec

\* The recent sales show each name's last sale (service/event.rs:640-649), also
\* after a rebuild from trade_history if the name was sold once, and a sale of each
\* sold name if the rebuild's limit leaves out no record (main.rs:256-285), unless
\* two purchases of the name overlapped or a step of one failed.
THEOREM RecentShown == SaleSpec => []RecentSalesShown
  <1>1. ASSUME RecentInv PROVE RecentSalesShown
    <2> SUFFICES ASSUME NEW n \in SaleNames, Plain(n, SalesOf(n)), NEW j \in SalesOf(n)
                 PROVE  /\ n \notin rebuilt \/ Len(trades) <= Limit => recent[n] # 0
                        /\ recent[n] # 0 /\ (n \notin rebuilt \/ Cardinality(SalesOf(n)) = 1)
                             => \A k \in SalesOf(n) : k <= recent[n]
      BY DEF RecentSalesShown
    <2>1. /\ SaleTypes /\ Group(n) = SalesOf(n) /\ Group(n) \subseteq DOMAIN trades
          /\ IsFiniteSet(Group(n)) /\ DOMAIN trades = 1 .. Len(trades)
          /\ DOMAIN sale = DOMAIN trades /\ recent[n] \in Nat
      BY <1>1, Groups, Domains DEF RecentInv, CountInv, Placed
    <2>2. Stand(n) /\ n \notin blurred
      BY <2>1 DEF Plain, Stand
    <2>3. Shows(n)
      BY <1>1, <2>2 DEF RecentInv
    <2>4. Out(n) = Group(n)
      <3>1. \A k \in Group(n) : sale[k].at = "none"
        BY <2>1 DEF Plain, Active
      <3> QED
        BY <3>1 DEF Out, Waiting
    <2>5. Cardinality(Group(n)) = 1 => \A k \in Group(n) : Group(n) = {k}
      <3>1. SUFFICES ASSUME Cardinality(Group(n)) = 1, NEW k \in Group(n)
                     PROVE  Group(n) = {k}
        OBVIOUS
      <3>2. Cardinality({k}) = 1 /\ {k} \in SUBSET Group(n)
        BY FS_Singleton
      <3> QED
        BY <2>1, <3>1, <3>2, FS_Subset
    <2>6. j >= 1 /\ \A k \in Group(n) : k \in Nat
      BY <2>1
    <2>7. n \notin rebuilt => recent[n] # 0
      BY <2>1, <2>3, <2>4, <2>6 DEF Shows
    <2>8. n \in rebuilt /\ Len(trades) <= Limit => recent[n] # 0
      BY <2>1, <2>3, <2>4 DEF Shows
    <2>9. n \notin rebuilt => \A k \in SalesOf(n) : k <= recent[n]
      BY <2>1, <2>3, <2>4 DEF Shows
    <2>10. recent[n] # 0 /\ n \in rebuilt /\ Cardinality(SalesOf(n)) = 1
             => \A k \in SalesOf(n) : k <= recent[n]
      BY <2>1, <2>3, <2>4, <2>5 DEF Shows
    <2> QED
      BY <2>7, <2>8, <2>9, <2>10
  <1> QED
    BY <1>1, RecentInvariant, PTL

-----------------------------------------------------------------------------
(* The types of the sale rankings. *)

Request == [at : SaleSteps, count : Numbers]

\* Records are counted within the bound.
LEMMA CountIsNumber ==
  ASSUME SaleTypeOK, NEW S \in SUBSET DOMAIN trades
  PROVE  Cardinality(S) \in Numbers
  <1>1. PICK l : l = Len(trades)
    OBVIOUS
  <1>2. l \in Nat /\ DOMAIN trades = 1 .. l /\ l <= MaxSales /\ MaxSales \in Nat
    BY <1>1, SaleAssumption DEF SaleTypeOK
  <1>3. IsFiniteSet(1 .. l) /\ Cardinality(1 .. l) = l
    <2>1. IsFiniteSet(1 .. l) /\ Cardinality(1 .. l) = IF 1 > l THEN 0 ELSE l - 1 + 1
      BY <1>2, FS_Interval
    <2> QED
      BY <1>2, <2>1
  <1>4. Cardinality(S) \in Nat /\ Cardinality(S) <= l
    BY <1>2, <1>3, FS_Subset, FS_CardinalityType
  <1> QED
    BY <1>2, <1>4 DEF Numbers

\* A record that is executed or changes its status is still that of its sale.
LEMMA RewrittenTrade ==
  ASSUME trades \in Seq(Trade), NEW k \in DOMAIN trades,
         \/ trades' = [trades EXCEPT ![k].executed = TRUE]
         \/ \E to \in Statuses : trades' = [trades EXCEPT ![k].status = to]
  PROVE  /\ trades' \in Seq(Trade) /\ Len(trades') = Len(trades)
         /\ DOMAIN trades' = DOMAIN trades
         /\ \A j \in DOMAIN trades : trades'[j].name = trades[j].name
  <1>1. trades[k] \in Trade
    OBVIOUS
  <1>2. PICK r : /\ trades' = [trades EXCEPT ![k] = r]
                 /\ r \in Trade /\ r.name = trades[k].name
    <2>1. CASE trades' = [trades EXCEPT ![k].executed = TRUE]
      <3>1. trades' = [trades EXCEPT ![k] = [trades[k] EXCEPT !.executed = TRUE]]
        BY <2>1
      <3>2. /\ [trades[k] EXCEPT !.executed = TRUE] \in Trade
            /\ [trades[k] EXCEPT !.executed = TRUE].name = trades[k].name
        BY <1>1 DEF Trade
      <3> QED
        BY <3>1, <3>2
    <2>2. CASE \E to \in Statuses : trades' = [trades EXCEPT ![k].status = to]
      <3>1. PICK to \in Statuses : trades' = [trades EXCEPT ![k].status = to]
        BY <2>2
      <3>2. trades' = [trades EXCEPT ![k] = [trades[k] EXCEPT !.status = to]]
        BY <3>1
      <3>3. /\ [trades[k] EXCEPT !.status = to] \in Trade
            /\ [trades[k] EXCEPT !.status = to].name = trades[k].name
        BY <1>1 DEF Trade
      <3> QED
        BY <3>2, <3>3
    <2> QED
      BY <2>1, <2>2
  <1> QED
    BY <1>2

LEMMA NumberTypes ==
  ASSUME SaleTypeOK
  PROVE  /\ DOMAIN trades = 1 .. Len(trades) /\ Len(trades) \in Nat
         /\ DOMAIN sale = DOMAIN trades
         /\ \A k \in DOMAIN trades :
              /\ trades[k] \in Trade /\ sale[k] \in Request /\ k \in Numbers
              /\ trades[k].name \in SaleNames /\ trades[k].seller \in Sellers
         /\ 0 \in Numbers /\ Numbers \subseteq Nat
         /\ {"none", "invoke", "count", "recent", "most", "sum", "earners"} = SaleSteps
  <1>1. /\ DOMAIN trades = 1 .. Len(trades) /\ Len(trades) \in Nat
        /\ DOMAIN sale = DOMAIN trades
        /\ \A k \in DOMAIN trades : trades[k] \in Trade /\ sale[k] \in Request
    <2>1. trades \in Seq(Trade) /\ sale \in Seq(Request) /\ Len(sale) = Len(trades)
      BY DEF SaleTypeOK, Request
    <2> QED
      BY <2>1
  <1>2. Len(trades) <= MaxSales /\ MaxSales \in Nat
    BY SaleAssumption DEF SaleTypeOK
  <1> QED
    BY <1>1, <1>2 DEF Numbers, Trade, SaleSteps

\* A step of a request leaves the records where and of whom they are.
LEMMA RequestTypes ==
  ASSUME SaleTypeOK, NEW k \in DOMAIN trades, SaleStep(k)
  PROVE  SaleTypeOK'
  <1>1. /\ DOMAIN trades = 1 .. Len(trades) /\ Len(trades) \in Nat
        /\ DOMAIN sale = DOMAIN trades /\ sale \in Seq(Request) /\ Len(sale) = Len(trades)
        /\ trades[k].name \in SaleNames /\ trades[k].seller \in Sellers
        /\ 0 \in Numbers /\ k \in Numbers /\ sale[k].count \in Numbers
        /\ trades \in Seq(Trade)
    BY NumberTypes DEF SaleTypeOK, Request
  <1>2. ASSUME NEW at \in SaleSteps, NEW count \in Numbers
        PROVE  /\ [sale EXCEPT ![k] = [at |-> at, count |-> count]] \in Seq(Request)
               /\ Len([sale EXCEPT ![k] = [at |-> at, count |-> count]]) = Len(trades)
    BY <1>1 DEF Request
  <1>3. Cardinality(SalesOf(trades[k].name)) \in Numbers
        /\ Cardinality(SalesBy(trades[k].seller)) \in Numbers
    BY CountIsNumber DEF SalesOf, SalesBy, Recorded
  <1>4. sale' \in Seq(Request) /\ Len(sale') = Len(trades)
    <2>1. ASSUME NEW at \in SaleSteps, NEW count \in Numbers, Step(k, at, count)
          PROVE  sale' \in Seq(Request) /\ Len(sale') = Len(trades)
      BY <1>2, <2>1 DEF Step
    <2>2. ASSUME Finish(k) PROVE sale' \in Seq(Request) /\ Len(sale') = Len(trades)
      BY <1>1, <1>2, <2>2, NumberTypes DEF Finish, Ended
    <2>3. {"none", "invoke", "count", "recent", "most", "sum", "earners"} = SaleSteps
      BY DEF SaleSteps
    <2> QED
      BY <1>1, <1>3, <2>1, <2>2, <2>3
         DEF SaleStep, Invoke, CountSales, AddRecent, AddMost, SumEarner, AddEarner
  <1>5. /\ trades' \in Seq(Trade) /\ Len(trades') = Len(trades)
        /\ DOMAIN trades' = DOMAIN trades
        /\ \A j \in DOMAIN trades : trades'[j].name = trades[j].name
    <2>1. CASE trades' = [trades EXCEPT ![k].executed = TRUE]
      BY <1>1, <2>1, RewrittenTrade
    <2>2. CASE trades' = [trades EXCEPT ![k].status = "deleted"]
      BY <1>1, <2>2, RewrittenTrade DEF Statuses
    <2>3. CASE trades' = trades
      BY <1>1, <2>3
    <2> QED
      BY <2>1, <2>2, <2>3
         DEF SaleStep, Invoke, CountSales, AddRecent, AddMost, SumEarner, AddEarner
  <1>6. /\ recent' = recent \/ recent' = [recent EXCEPT ![trades[k].name] = k]
        /\ recent' # recent => trades' = trades
    BY DEF SaleStep, Invoke, CountSales, AddRecent, AddMost, SumEarner, AddEarner, saleRanks
  <1>7. /\ recent' \in [SaleNames -> Numbers]
        /\ \A n \in SaleNames : recent'[n] # 0 =>
             recent'[n] \in DOMAIN trades' /\ trades'[recent'[n]].name = n
    <2>1. /\ recent \in [SaleNames -> Numbers]
          /\ \A n \in SaleNames : recent[n] # 0 =>
               recent[n] \in DOMAIN trades /\ trades[recent[n]].name = n
      BY DEF SaleTypeOK
    <2>2. CASE recent' = recent
      BY <1>5, <2>1, <2>2
    <2>3. CASE recent' = [recent EXCEPT ![trades[k].name] = k] /\ trades' = trades
      BY <1>1, <2>1, <2>3
    <2> QED
      BY <1>6, <2>2, <2>3
  <1>8. most' \in [SaleNames -> Numbers] /\ earners' \in [Sellers -> Numbers]
    <2>1. most' = most \/ most' = [most EXCEPT ![trades[k].name] = sale[k].count]
      BY DEF SaleStep, Invoke, CountSales, AddRecent, AddMost, SumEarner, AddEarner, saleRanks
    <2>2. earners' = earners \/ earners' = [earners EXCEPT ![trades[k].seller] = sale[k].count]
      BY DEF SaleStep, Invoke, CountSales, AddRecent, AddMost, SumEarner, AddEarner, saleRanks
    <2> QED
      BY <1>1, <2>1, <2>2 DEF SaleTypeOK
  <1>9. /\ byTime' = byTime /\ restarts' = restarts
        /\ rebuilt' = rebuilt \/ rebuilt' = rebuilt \ {trades[k].name}
        /\ blurred' = blurred \/ blurred' = {trades[k].name, trades[k].seller}
    BY DEF SaleStep, Invoke, CountSales, AddRecent, AddMost, SumEarner, AddEarner, Fails
  <1>10. /\ blurred' \subseteq SaleNames \cup Sellers /\ rebuilt' \subseteq SaleNames
         /\ byTime' \in Seq(DOMAIN trades') /\ Len(byTime') = Len(trades')
         /\ restarts' \in 0 .. MaxRestarts
    BY <1>1, <1>5, <1>9 DEF SaleTypeOK
  <1> QED
    BY <1>4, <1>5, <1>7, <1>8, <1>10 DEF SaleTypeOK, Request, Numbers

LEMMA RecordTypes ==
  ASSUME SaleTypeOK, NEW n \in SaleNames, NEW s \in Sellers, Record(n, s)
  PROVE  SaleTypeOK'
  <1>1. PICK l : l = Len(trades)
    OBVIOUS
  <1>2. /\ DOMAIN trades = 1 .. l /\ l \in Nat /\ l < MaxSales /\ MaxSales \in Nat
        /\ trades \in Seq(Trade) /\ sale \in Seq(Request) /\ Len(sale) = l
        /\ byTime \in Seq(1 .. l) /\ Len(byTime) = l /\ 0 \in Numbers
        /\ recent \in [SaleNames -> Numbers]
    BY <1>1, NumberTypes, SaleAssumption DEF SaleTypeOK, Record, Request
  <1>3. PICK r : r = [name |-> n, seller |-> s, status |-> "pending", executed |-> FALSE]
    OBVIOUS
  <1>4. r \in Trade
    BY <1>3 DEF Trade, Statuses
  <1>5. /\ trades' \in Seq(Trade) /\ Len(trades') = l + 1 /\ DOMAIN trades' = 1 .. l + 1
        /\ \A j \in 1 .. l : trades'[j] = trades[j]
    <2>1. trades' = Append(trades, r)
      BY <1>3 DEF Record
    <2> QED
      BY <1>1, <1>2, <1>4, <2>1
  <1>6. sale' \in Seq(Request) /\ Len(sale') = l + 1
    <2>1. [at |-> "invoke", count |-> 0] \in Request
      BY <1>2 DEF Request, SaleSteps
    <2>2. sale' = Append(sale, [at |-> "invoke", count |-> 0])
      BY DEF Record
    <2> QED
      BY <1>2, <2>1, <2>2
  <1>7. byTime' \in Seq(1 .. l + 1) /\ Len(byTime') = l + 1
    <2>1. byTime' = Append(byTime, l + 1)
      BY <1>1 DEF Record
    <2>2. byTime \in Seq(1 .. l + 1) /\ l + 1 \in 1 .. l + 1
      BY <1>2
    <2> QED
      BY <1>2, <2>1, <2>2, AppendProperties
  <1>8. blurred' \subseteq SaleNames \cup Sellers
    BY DEF Record, SaleTypeOK
  <1>9. /\ recent' = recent /\ most' = most /\ earners' = earners
        /\ restarts' = restarts /\ rebuilt' = rebuilt
    BY DEF Record, saleRanks
  <1>10. \A m \in SaleNames : recent'[m] # 0 =>
           recent'[m] \in DOMAIN trades' /\ trades'[recent'[m]].name = m
    BY <1>2, <1>5, <1>9 DEF SaleTypeOK
  <1> QED
    BY <1>2, <1>5, <1>6, <1>7, <1>8, <1>9, <1>10 DEF SaleTypeOK, Request, Numbers

LEMMA StatusTypes ==
  ASSUME SaleTypeOK, Placed, NEW k \in DOMAIN trades, SetStatus(k)
  PROVE  SaleTypeOK'
  <1>1. PICK l : l = Len(trades)
    OBVIOUS
  <1>2. /\ DOMAIN trades = 1 .. l /\ l \in Nat /\ k \in Nat /\ trades \in Seq(Trade)
        /\ byTime \in Seq(1 .. l) /\ Len(byTime) = l /\ DOMAIN byTime = 1 .. l
    BY <1>1, NumberTypes DEF SaleTypeOK
  <1>3. PICK to \in {"finalized", "rejected"} : trades' = [trades EXCEPT ![k].status = to]
    BY DEF SetStatus
  <1>4. /\ trades' \in Seq(Trade) /\ Len(trades') = l /\ DOMAIN trades' = DOMAIN trades
        /\ \A j \in DOMAIN trades : trades'[j].name = trades[j].name
    <2>1. to \in Statuses
      BY DEF Statuses
    <2> QED
      BY <1>1, <1>2, <1>3, <2>1, RewrittenTrade
  <1>5. PICK u : u = UpdatedNow(k)
    OBVIOUS
  <1>6. u \in Seq(Nat) /\ Len(u) = l /\ \A i \in 1 .. l : Occurs(u[i], byTime)
    BY <1>2, <1>5, Updated
  <1>7. \A i \in 1 .. l : u[i] \in 1 .. l
    <2>1. \A i \in 1 .. l : \E j \in DOMAIN byTime : byTime[j] = u[i]
      BY <1>6 DEF Occurs
    <2>2. \A j \in DOMAIN byTime : byTime[j] \in 1 .. l
      BY <1>2
    <2> QED
      BY <2>1, <2>2
  <1>8. u \in Seq(1 .. l)
    BY <1>6, <1>7
  <1>9. byTime' = u
    BY <1>5 DEF SetStatus
  <1>10. UNCHANGED <<recent, most, earners, sale, restarts, blurred, rebuilt>>
    BY DEF SetStatus, saleRanks
  <1> QED
    BY <1>1, <1>2, <1>4, <1>6, <1>8, <1>9, <1>10 DEF SaleTypeOK, Numbers

LEMMA RestartTypes ==
  ASSUME SaleTypeOK, Placed, Restart
  PROVE  SaleTypeOK'
  <1> DEFINE ofNames == [n \in SaleNames |-> Cardinality(SalesOf(n) \cap Counting)]
             bySellers == [s \in Sellers |-> Cardinality(SalesBy(s) \cap Counting)]
  <1>1. /\ trades' = trades /\ byTime' = byTime /\ recent' = RebuiltRecent(LatestRows)
        /\ rebuilt' = SaleNames /\ blurred' = {} /\ sale' = [k \in DOMAIN sale |-> Ended]
        /\ most' \in Grouped(ofNames) /\ earners' \in Grouped(bySellers)
        /\ restarts < MaxRestarts /\ restarts' = restarts + 1
    BY DEF Restart
  <1>2. ofNames \in [SaleNames -> Numbers] /\ bySellers \in [Sellers -> Numbers]
    <2>1. \A x : /\ SalesOf(x) \cap Counting \in SUBSET DOMAIN trades
                 /\ SalesBy(x) \cap Counting \in SUBSET DOMAIN trades
      BY DEF SalesOf, SalesBy, Recorded
    <2> QED
      BY <2>1, CountIsNumber
  <1> HIDE DEF ofNames, bySellers
  <1>3. 0 \in Numbers
    BY NumberTypes
  <1>4. ASSUME NEW G, NEW counts \in [G -> Numbers], NEW f \in Grouped(counts)
        PROVE  f \in [G -> Numbers]
    <2>1. PICK kept : f = [g \in G |-> IF g \in kept THEN counts[g] ELSE 0]
      BY DEF Grouped
    <2> QED
      BY <1>3, <2>1
  <1>5. most' \in [SaleNames -> Numbers] /\ earners' \in [Sellers -> Numbers]
    BY <1>1, <1>2, <1>4
  <1>6. LatestRows \in SUBSET DOMAIN trades
    BY DEF LatestRows, Counting, Recorded
  <1>7. ASSUME NEW n \in SaleNames
        PROVE  /\ recent'[n] \in Numbers
               /\ recent'[n] # 0 => recent'[n] \in DOMAIN trades /\ trades[recent'[n]].name = n
    <2>1. \/ recent'[n] = 0
          \/ recent'[n] \in LatestRows /\ trades[recent'[n]].name = n
      BY <1>1, <1>6, RebuiltRow
    <2> QED
      BY <1>3, <1>6, <2>1, NumberTypes
  <1>8. recent' \in [SaleNames -> Numbers]
    <2>1. recent' = [n \in SaleNames |-> recent'[n]]
      BY <1>1 DEF RebuiltRecent
    <2> QED
      BY <1>7, <2>1
  <1>9. sale' \in Seq(Request) /\ Len(sale') = Len(trades)
    <2>1. Ended \in Request
      BY <1>3 DEF Ended, Request, SaleSteps
    <2>2. Len(trades) \in Nat /\ DOMAIN sale = 1 .. Len(trades)
      BY NumberTypes
    <2> QED
      BY <1>1, <2>1, <2>2
  <1>10. restarts' \in 0 .. MaxRestarts
    BY <1>1, SaleAssumption DEF SaleTypeOK
  <1> QED
    BY <1>1, <1>5, <1>7, <1>8, <1>9, <1>10 DEF SaleTypeOK, Request, Numbers

LEMMA SaleTypesStart == SaleInit => SaleTypeOK
  BY SaleAssumption DEF SaleInit, SaleTypeOK, Numbers

LEMMA SaleTypesKept ==
  ASSUME RecentInv, SaleTypeOK, [SaleNext]_saleVars
  PROVE  SaleTypeOK'
  <1>1. Placed
    BY DEF RecentInv
  <1>2. ASSUME UNCHANGED saleVars PROVE SaleTypeOK'
    BY <1>2 DEF saleVars, saleRanks, SaleTypeOK, Numbers
  <1> QED
    BY <1>1, <1>2, RecordTypes, RequestTypes, StatusTypes, RestartTypes DEF SaleNext

\* The types of the sale rankings, for any number of purchases and restarts; among
\* them that the sale shown of a name is a recorded trade of that name
\* (service/event.rs:640-649, main.rs:256-285).
THEOREM SaleRankTypes == SaleSpec => []SaleTypeOK
  <1>1. RecentInv /\ SaleTypeOK /\ [SaleNext]_saleVars => SaleTypeOK'
    BY SaleTypesKept
  <1> QED
    BY <1>1, SaleTypesStart, RecentInvariant, PTL DEF SaleSpec
=============================================================================
