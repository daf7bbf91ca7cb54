------------------------------ MODULE BookOps ------------------------------
(***************************************************************************)
(* The limit order book as a value (include/obme/OrderBook.hpp,            *)
(* src/OrderBook.cpp) and its operations as operators that return the book *)
(* they leave behind.  A book is a record                                  *)
(*     levels     bids_ and asks_: for each side, a function from the      *)
(*                prices that have a level to that level                   *)
(*     locations  locations_: a function from resting ids to side and price *)
(* OrderBook makes a state machine of them, MatchingEngine calls them.     *)
(***************************************************************************)
EXTENDS LevelOps

NoLevels == [price \in {} |-> EmptyLevel(price)]

EmptyBook ==
  [levels |-> [side \in Sides |-> NoLevels],
   locations |-> [id \in {} |-> [side |-> "Buy", price |-> 0]]]

\* contains(id).
contains(b, id) == id \in DOMAIN b.locations

\* The map f with v at key k.
Put(f, k, v) == [x \in DOMAIN f \cup {k} |-> IF x = k THEN v ELSE f[x]]

\* emplace: a key that is already there keeps its value.
Emplace(f, k, v) == IF k \in DOMAIN f THEN f ELSE Put(f, k, v)

\* erase: the map f without key k.
Without(f, k) == [x \in DOMAIN f \ {k} |-> f[x]]

\* try_emplace: the level of a price, a new one if the price has none.
LevelAt(b, side, price) ==
  IF price \in DOMAIN b.levels[side] THEN b.levels[side][price]
  ELSE EmptyLevel(price)

\* The levels with that of one price replaced.
WithLevel(b, side, price, level) ==
  [b.levels EXCEPT ![side] = Put(@, price, level)]

\* insert_order: the level is created if its price has none, the order joins
\* the back of its queue, the index learns where it rests.
insert_order(b, order) ==
  [levels |-> WithLevel(b, order.side, order.price,
                        LevelAdd(LevelAt(b, order.side, order.price), order)),
   locations |-> Emplace(b.locations, order.id,
                         [side |-> order.side, price |-> order.price])]

\* find(id), for an id the index holds.
find(b, id) ==
  FindInLevel(b.levels[b.locations[id].side][b.locations[id].price], id)

\* The level an indexed order leaves behind, and the levels without it.
LeftLevel(b, id) ==
  LevelCancel(b.levels[b.locations[id].side][b.locations[id].price], id)

\* Faulty variant: the index keeps the id of the order that left.
cancel_order_keep_location(b, id) ==
  IF contains(b, id)
  THEN LET loc == b.locations[id]
       IN [levels |-> IF LeftLevel(b, id).queue = <<>>
                      THEN [b.levels EXCEPT ![loc.side] = Without(@, loc.price)]
                      ELSE WithLevel(b, loc.side, loc.price, LeftLevel(b, id)),
           locations |-> b.locations]
  ELSE b

\* cancel_order: unlink the order, drop the level if that empties it, forget
\* the location. An id that does not rest changes nothing.
cancel_order(b, id) ==
  IF contains(b, id)
  THEN LET loc == b.locations[id]
       IN [levels |-> IF LeftLevel(b, id).queue = <<>>
                      THEN [b.levels EXCEPT ![loc.side] = Without(@, loc.price)]
                      ELSE WithLevel(b, loc.side, loc.price, LeftLevel(b, id)),
           locations |-> Without(b.locations, id)]
  ELSE b

\* The book after the level's own reduce_order, which may refuse.
Reduced(b, id, new_quantity) ==
  LET loc == b.locations[id]
  IN [levels |-> WithLevel(b, loc.side, loc.price,
                   LevelReduce(b.levels[loc.side][loc.price], id, new_quantity)),
      locations |-> b.locations]

\* An order with another price and size.
Repriced(order, new_price, new_quantity) ==
  [id |-> order.id, side |-> order.side, price |-> new_price,
   quantity |-> new_quantity]

\* modify_order: a decrease at the same price shrinks the order where it
\* stands; anything else takes it out and queues it again at the back. A
\* missing id or a non-positive size changes nothing.
modify_order(b, id, new_price, new_quantity) ==
  IF ~contains(b, id) \/ new_quantity <= 0 THEN b
  ELSE IF /\ new_price = b.locations[id].price
          /\ new_quantity <= find(b, id).quantity
  THEN Reduced(b, id, new_quantity)
  ELSE insert_order(cancel_order(b, id),
                    Repriced(find(b, id), new_price, new_quantity))

(***************************************************************************)
(* What the book answers                                                   *)
(***************************************************************************)

\* price is best_bid() or best_ask(): begin() of the side's sorted map.
IsBest(b, side, price) ==
  /\ price \in DOMAIN b.levels[side]
  /\ \A other \in DOMAIN b.levels[side] : ~Better(side, other, price)

\* The prices of one side that come before this one in its sorted map.
Above(b, side, price) == {p \in DOMAIN b.levels[side] : Better(side, p, price)}

\* The prices of one side from the top: the k-th has k - 1 above it.
PriceLadder(b, side) ==
  [k \in 1 .. Cardinality(DOMAIN b.levels[side]) |->
     CHOOSE price \in DOMAIN b.levels[side] : Cardinality(Above(b, side, price)) = k - 1]

\* price_at_level and quantity_at_level for depth k counted from 1; beyond
\* the last level there is no price and the quantity is 0.
price_at_level(b, side, k) == PriceLadder(b, side)[k]

quantity_at(b, side, price) ==
  IF price \in DOMAIN b.levels[side]
  THEN b.levels[side][price].total_quantity ELSE 0

quantity_at_level(b, side, k) ==
  LET ladder == PriceLadder(b, side)
  IN IF k \in DOMAIN ladder THEN quantity_at(b, side, ladder[k]) ELSE 0

\* total_shares: the cached totals of one side.
total_shares(b, side) ==
  SumFunction([price \in DOMAIN b.levels[side] |->
                 b.levels[side][price].total_quantity])

\* snapshot() of one side: every resting order, best price first, each level
\* in time priority.
PriorityQueue(b, side) ==
  LET ladder == PriceLadder(b, side)
  IN FlattenSeq([k \in DOMAIN ladder |-> b.levels[side][ladder[k]].queue])

(***************************************************************************)
(* check_invariants()                                                      *)
(***************************************************************************)

\* A queued order is of this side and price, and the index puts it there.
OrderIndexed(b, order, side, price) ==
  /\ order.side = side
  /\ order.price = price
  /\ contains(b, order.id)
  /\ b.locations[order.id] = [side |-> side, price |-> price]

verify_level(b, side, key) ==
  LET level == b.levels[side][key]
  IN /\ level.queue # <<>>
     /\ level.price = key
     /\ \A i \in Positions(level) :
          /\ level.queue[i].quantity > 0
          /\ OrderIndexed(b, level.queue[i], side, key)
     /\ Shares(level.queue) = level.total_quantity

\* The number of orders met on a walk over one side.
Counted(b, side) ==
  SumFunction([key \in DOMAIN b.levels[side] |-> Len(b.levels[side][key].queue)])

check_invariants(b) ==
  /\ \A side \in Sides : \A key \in DOMAIN b.levels[side] : verify_level(b, side, key)
  /\ Counted(b, "Buy") + Counted(b, "Sell") = Cardinality(DOMAIN b.locations)

(***************************************************************************)
(* The shape of a book                                                     *)
(***************************************************************************)

Location == [side : Sides, price : Prices]

WellTyped(b) ==
  /\ DOMAIN b = {"levels", "locations"}
  /\ DOMAIN b.levels = Sides
  /\ \A side \in Sides :
       /\ DOMAIN b.levels[side] \subseteq Prices
       /\ \A price \in DOMAIN b.levels[side] : b.levels[side][price] \in Level
  /\ DOMAIN b.locations \subseteq OrderIds
  /\ \A id \in DOMAIN b.locations : b.locations[id] \in Location

\* Every indexed id is queued where the index says.
IndexedAreQueued(b) ==
  \A id \in DOMAIN b.locations :
    LET loc == b.locations[id]
    IN /\ loc.price \in DOMAIN b.levels[loc.side]
       /\ HasOrder(b.levels[loc.side][loc.price], id)

\* A level of the book is not empty, is priced to its key and holds only
\* orders that the index puts there.
LevelIndexed(b, side, price) ==
  LET level == b.levels[side][price]
  IN /\ level.queue # <<>>
     /\ level.price = price
     /\ \A i \in Positions(level) : OrderIndexed(b, level.queue[i], side, price)
     /\ NoTwins(level)

\* The index and the queues say the same, in both directions.
Agrees(b) ==
  /\ IndexedAreQueued(b)
  /\ \A side \in Sides : \A price \in DOMAIN b.levels[side] :
       LevelIndexed(b, side, price)

\* No resting buyer reaches a resting seller.
Uncrossed(b) ==
  \A bid \in DOMAIN b.levels["Buy"], ask \in DOMAIN b.levels["Sell"] : bid < ask
=============================================================================
