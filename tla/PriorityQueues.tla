--------------------------- MODULE PriorityQueues ---------------------------
(***************************************************************************)
(* What a book promises, without prices levels or indexes: one sequence of *)
(* resting orders per side, best price first and oldest first at a price.  *)
(* The abstract book and the abstract engine are written over these.       *)
(***************************************************************************)
EXTENDS Orders, Sequences, SequencesExt

NoOrders == [side \in Sides |-> <<>>]

\* The ids resting on either side.
RestingIds(resting) ==
  {resting["Buy"][i].id : i \in DOMAIN resting["Buy"]} \cup
  {resting["Sell"][i].id : i \in DOMAIN resting["Sell"]}

SideOf(resting, id) ==
  CHOOSE side \in Sides : \E i \in DOMAIN resting[side] : resting[side][i].id = id

IndexOf(queue, id) == CHOOSE i \in DOMAIN queue : queue[i].id = id

OrderOf(resting, id) ==
  LET queue == resting[SideOf(resting, id)] IN queue[IndexOf(queue, id)]

\* A new order yields to every order at its own price or a better one.
Queued(resting, order) ==
  LET queue == resting[order.side]
      ahead == {i \in DOMAIN queue : ~Better(order.side, order.price, queue[i].price)}
  IN [resting EXCEPT ![order.side] = InsertAt(queue, Cardinality(ahead) + 1, order)]

Removed(resting, id) ==
  IF id \notin RestingIds(resting) THEN resting
  ELSE [resting EXCEPT ![SideOf(resting, id)] = RemoveAt(@, IndexOf(@, id))]

Resized(resting, id, quantity) ==
  LET side == SideOf(resting, id)
  IN [resting EXCEPT ![side][IndexOf(resting[side], id)].quantity = quantity]

\* An order keeps its place exactly when it shrinks at its own price.
KeepsPlace(order, price, quantity) ==
  price = order.price /\ quantity <= order.quantity

Repriced(order, price, quantity) ==
  [order EXCEPT !.price = price, !.quantity = quantity]

(***************************************************************************)
(* Price-time priority in closed form: what an incoming order takes from   *)
(* the opposite queue, all at once.  No loop, no levels.                   *)
(***************************************************************************)

\* Shares standing before position i.
SharesAhead(queue, i) == SumFunction([j \in 1 .. i - 1 |-> queue[j].quantity])

\* What the i-th order gives up to an order that still wants `wanted` shares.
Taken(queue, order, wanted, i) ==
  IF Crosses(order.type, order.side, order.price, queue[i].price)
  THEN Max({0, Min({queue[i].quantity, wanted - SharesAhead(queue, i)})})
  ELSE 0

TradeWith(order, resting_order, quantity) ==
  [aggressor_id |-> order.id, resting_id |-> resting_order.id,
   price |-> resting_order.price, quantity |-> quantity,
   aggressor_side |-> order.side]

\* An order without its type, holding the given size: what rests.
RestingPart(order, quantity) ==
  [id |-> order.id, side |-> order.side, price |-> order.price,
   quantity |-> quantity]

\* What each order of the queue gives up.
Takes(queue, order, wanted) ==
  [i \in DOMAIN queue |-> Taken(queue, order, wanted, i)]

\* What is left of the queue. An aggressor takes from the front, so the orders
\* that are used up stood first.
Left(queue, taken) ==
  LET gone == Cardinality({i \in DOMAIN queue : taken[i] = queue[i].quantity})
  IN SubSeq([i \in DOMAIN queue |-> [queue[i] EXCEPT !.quantity = @ - taken[i]]],
            gone + 1, Len(queue))

\* The trades, one with each order that gives up something.
Prints(order, queue, taken) ==
  LET hit == Cardinality({i \in DOMAIN queue : taken[i] > 0})
  IN [i \in 1 .. hit |-> TradeWith(order, queue[i], taken[i])]

\* The remainder of a limit order joins its queue.
Rested(resting, order, unfilled) ==
  IF unfilled > 0 /\ order.type = "Limit"
  THEN Queued(resting, RestingPart(order, unfilled))
  ELSE resting

\* The queues, the volume and the trades once `order` has taken what it can
\* of the `wanted` shares it lacks, and its limit remainder rests.
Outcome(resting, executed_volume, trades, order, wanted) ==
  LET against == opposite(order.side)
      queue == resting[against]
      taken == Takes(queue, order, wanted)
      filled == SumFunction(taken)
  IN [resting |-> Rested([resting EXCEPT ![against] = Left(queue, taken)],
                         order, wanted - filled),
      executed_volume |-> executed_volume + filled,
      trades |-> trades \o Prints(order, queue, taken)]
=============================================================================
