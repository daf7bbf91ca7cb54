----------------------------- MODULE FifoLevel -----------------------------
(***************************************************************************)
(* What price levels promise: each is a first-in first-out queue of orders *)
(* with cancellation by id, in-place reduction, a total that is kept       *)
(* along, and contents that can be moved to another level object.          *)
(* PriceLevel implements this specification.                               *)
(***************************************************************************)
EXTENDS LevelOps

CONSTANT Objects    \* the level objects

VARIABLE levels     \* the queue of each object

Init ==
  \E price \in [Objects -> Prices] :
    levels = [l \in Objects |-> EmptyLevel(price[l])]

Add(l, id, quantity) ==
  /\ ~HasOrder(levels[l], id)
  /\ LET order == [id |-> id, side |-> LevelSide, price |-> levels[l].price,
                   quantity |-> quantity]
     IN levels' = [levels EXCEPT ![l] = LevelAdd(@, order)]

Cancel(l, id) == levels' = [levels EXCEPT ![l] = LevelCancel(@, id)]

Reduce(l, id, new_quantity) ==
  levels' = [levels EXCEPT ![l] = LevelReduce(@, id, new_quantity)]

Move(from, to) ==
  /\ from # to
  /\ levels' = [levels EXCEPT ![to] = levels[from],
                              ![from] = EmptyLevel(@.price)]

Next ==
  \/ \E l \in Objects, id \in OrderIds :
       \/ \E quantity \in Quantities : Add(l, id, quantity)
       \/ Cancel(l, id)
       \/ \E new_quantity \in ModifySizes : Reduce(l, id, new_quantity)
  \/ \E from, to \in Objects : Move(from, to)

Spec == Init /\ [][Next]_levels
=============================================================================
