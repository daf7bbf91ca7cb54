------------------------------- MODULE Orders -------------------------------
(***************************************************************************)
(* The vocabulary every other module shares: orders, sides, prices and     *)
(* sizes (include/obme/Order.hpp), and the price comparisons of the book   *)
(* and of the matching loop.                                               *)
(*                                                                         *)
(* Prices are integer ticks and sizes are integer shares, as in the code.  *)
(* An order's timestamp is left out: nothing in the book or in the engine  *)
(* compares it, time priority is the position in the queue.  A resting     *)
(* order is always a limit order, so its type is left out as well.         *)
(***************************************************************************)
EXTENDS Integers

CONSTANTS
  OrderIds,    \* identifiers an order may carry
  Prices,      \* limit prices an order may carry, in ticks
  Quantities   \* sizes a caller may ask for when it submits an order

ASSUME PricesAssumption == Prices \subseteq Int
ASSUME QuantitiesAssumption == Quantities \subseteq Nat \ {0}

Sides == {"Buy", "Sell"}
OrderTypes == {"Limit", "Market"}

\* A resting order. Partial fills leave any positive number of shares.
Order == [id : OrderIds, side : Sides, price : Prices, quantity : Nat \ {0}]

\* Sizes a modify may ask for; 0 stands for every non-positive argument.
ModifySizes == Quantities \cup {0}

opposite(side) == IF side = "Buy" THEN "Sell" ELSE "Buy"

\* p is strictly closer to the top of its side than q: std::greater orders
\* the bids and std::less the asks.
Better(side, p, q) == IF side = "Buy" THEN p > q ELSE p < q

\* The aggressor's limit reaches a resting price on the opposite side; a
\* market order reaches every price.
Crosses(type, side, limit, resting) ==
  \/ type = "Market"
  \/ side = "Buy" /\ resting <= limit
  \/ side = "Sell" /\ resting >= limit
=============================================================================
