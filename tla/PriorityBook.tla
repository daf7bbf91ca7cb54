---------------------------- MODULE PriorityBook ----------------------------
(***************************************************************************)
(* The abstract limit order book: two priority queues and the three calls  *)
(* that change them.  A book stores what it is given: crossing is the      *)
(* engine's business.                                                      *)
(***************************************************************************)
EXTENDS PriorityQueues

VARIABLE resting    \* for each side, its orders in price-time priority

Init == resting = NoOrders

Add(order) ==
  /\ order.id \notin RestingIds(resting)
  /\ resting' = Queued(resting, order)

Cancel(id) == resting' = Removed(resting, id)

Modify(id, price, quantity) ==
  /\ id \in RestingIds(resting)
  /\ quantity > 0
  /\ LET order == OrderOf(resting, id)
     IN resting' = IF KeepsPlace(order, price, quantity)
                   THEN Resized(resting, id, quantity)
                   ELSE Queued(Removed(resting, id), Repriced(order, price, quantity))

Next ==
  \E id \in OrderIds :
    \/ \E side \in Sides, price \in Prices, quantity \in Quantities :
         Add([id |-> id, side |-> side, price |-> price, quantity |-> quantity])
    \/ Cancel(id)
    \/ \E price \in Prices, quantity \in Quantities : Modify(id, price, quantity)

Spec == Init /\ [][Next]_resting
=============================================================================
