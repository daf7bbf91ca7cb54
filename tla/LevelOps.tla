------------------------------ MODULE LevelOps ------------------------------
(***************************************************************************)
(* What one price level does, seen as a FIFO queue: the operations of      *)
(* PriceLevel (include/obme/PriceLevel.hpp, src/PriceLevel.cpp) as         *)
(* operators on a record                                                   *)
(*     price           price_                                              *)
(*     total_quantity  the cached total_quantity_                          *)
(*     queue           the linked list from head_ to tail_                 *)
(* Module PriceLevel models the linked list and the id map themselves and  *)
(* shows that they implement these operators (PriceLevel => FifoLevel).    *)
(* The two books are built from these operators.                           *)
(***************************************************************************)
EXTENDS Orders, Sequences, SequencesExt

Level == [price : Prices, total_quantity : Int, queue : Seq(Order)]

EmptyLevel(price) == [price |-> price, total_quantity |-> 0, queue |-> <<>>]

Positions(level) == 1 .. Len(level.queue)

\* contains(id): the id map has the order.
HasOrder(level, id) == \E i \in Positions(level) : level.queue[i].id = id

PositionOf(level, id) ==
  CHOOSE i \in Positions(level) : level.queue[i].id = id

\* find(id), for an id the level holds.
FindInLevel(level, id) == level.queue[PositionOf(level, id)]

\* Faulty variant: the new order is linked at the front of the list.
LevelAddAtFront(level, order) ==
  [level EXCEPT !.total_quantity = @ + order.quantity,
                !.queue = <<order>> \o @]

\* add_order: link at the back. The caller guarantees a fresh id and a
\* positive quantity.
LevelAdd(level, order) ==
  [level EXCEPT !.total_quantity = @ + order.quantity,
                !.queue = Append(@, order)]

\* Faulty variant: the cached total is not reduced.
LevelCancelStaleTotal(level, id) ==
  IF HasOrder(level, id)
  THEN [level EXCEPT !.queue = RemoveAt(@, PositionOf(level, id))]
  ELSE level

\* cancel_order: unlink wherever the order stands; a missing id is a no-op.
LevelCancel(level, id) ==
  IF HasOrder(level, id)
  THEN [level EXCEPT
          !.total_quantity = @ - FindInLevel(level, id).quantity,
          !.queue = RemoveAt(@, PositionOf(level, id))]
  ELSE level

CanReduce(level, id, new_quantity) ==
  /\ HasOrder(level, id)
  /\ 0 < new_quantity
  /\ new_quantity <= FindInLevel(level, id).quantity

\* Faulty variant: the cached total loses the new size, not the difference.
LevelReduceWrongTotal(level, id, new_quantity) ==
  IF CanReduce(level, id, new_quantity)
  THEN [level EXCEPT
          !.total_quantity = @ - new_quantity,
          !.queue[PositionOf(level, id)].quantity = new_quantity]
  ELSE level

\* reduce_order: shrink in place, keeping the position; anything that is not
\* a reduction to a positive size is refused and changes nothing.
LevelReduce(level, id, new_quantity) ==
  IF CanReduce(level, id, new_quantity)
  THEN [level EXCEPT
          !.total_quantity = @ - (FindInLevel(level, id).quantity - new_quantity),
          !.queue[PositionOf(level, id)].quantity = new_quantity]
  ELSE level

\* A level never looks at an order's side; the modules that take levels on
\* their own give every order this one.
LevelSide == "Buy"

\* Shares waiting in a queue of orders.
Shares(queue) == SumFunction([i \in 1 .. Len(queue) |-> queue[i].quantity])

\* No id stands twice in one queue.
NoTwins(level) ==
  \A i, j \in Positions(level) : level.queue[i].id = level.queue[j].id => i = j
=============================================================================
