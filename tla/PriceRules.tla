----------------------------- MODULE PriceRules -----------------------------
(***************************************************************************)
(* The arithmetic of prices, fees and levels (service/trading.rs,          *)
(* service/event.rs, lib.rs).  All values are satoshis; the code divides   *)
(* u64 values, so \div truncates here as there.                            *)
(***************************************************************************)
EXTENDS Integers

GlobalMinPrice == 55000
InitMaxPrice == 100000
Dust == 330

\* A price may exceed the price it is based on by at most 26 percent, and may
\* fall to a hundredth of that, never below the market's minimum.
HighestPrice(base) == (base * 126) \div 100

LowestPrice(base) ==
  LET hundredth == HighestPrice(base) \div 100 IN
    IF hundredth > GlobalMinPrice THEN hundredth ELSE GlobalMinPrice

PriceAllowed(base, new) == LowestPrice(base) <= new /\ new <= HighestPrice(base)

\* Mutant of EtchingFeePrice: the minimum is forgotten.
EtchingFeePriceUnbounded(fee) ==
  IF fee * 10 > InitMaxPrice THEN InitMaxPrice ELSE fee * 10

\* The first price of a name is based on the fee its etching paid.
EtchingFeePrice(fee) ==
  LET raised == IF fee * 10 > GlobalMinPrice THEN fee * 10 ELSE GlobalMinPrice IN
    IF raised < InitMaxPrice THEN raised ELSE InitMaxPrice

\* The points of a primary name give its owner a level from 0 to 5.
PointsToLevel(points) ==
  CASE points < 50000     -> 0
    [] points < 500000    -> 1
    [] points < 5000000   -> 2
    [] points < 50000000  -> 3
    [] points < 500000000 -> 4
    [] OTHER              -> 5

\* Mutant of PlatformFee: levels count twice.
PlatformFeeTwice(price, sellerLevel, buyerLevel) ==
  (price * (20 - 2 * (sellerLevel + buyerLevel))) \div 1000

\* Two percent of the price, less a tenth of a percent for every level of the
\* seller and of the buyer, and at least the dust amount.
PlatformFee(price, sellerLevel, buyerLevel) ==
  LET share == (price * (20 - sellerLevel - buyerLevel)) \div 1000 IN
    IF share > Dust THEN share ELSE Dust
=============================================================================
