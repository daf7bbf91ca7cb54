------------------------- MODULE PriceTimePriority -------------------------
(***************************************************************************)
(* The abstract matching engine: every call happens at once, and what an   *)
(* order trades is the closed form of price-time priority (Outcome).       *)
(***************************************************************************)
EXTENDS PriorityQueues

CONSTANT MaxVolume          \* bound on the volume a checked run trades

VARIABLES
  resting,          \* for each side, its orders in price-time priority
  executed_volume,  \* shares traded so far
  trades            \* what the last call returned

vars == <<resting, executed_volume, trades>>

Init ==
  /\ resting = NoOrders
  /\ executed_volume = 0
  /\ trades = <<>>

Becomes(outcome) ==
  /\ resting' = outcome.resting
  /\ executed_volume' = outcome.executed_volume
  /\ trades' = outcome.trades

Submit(order) ==
  /\ order.id \notin RestingIds(resting)
  /\ executed_volume + order.quantity <= MaxVolume
  /\ Becomes(Outcome(resting, executed_volume, <<>>, order, order.quantity))

\* A call that trades nothing.
Quietly(queues) ==
  /\ resting' = queues
  /\ trades' = <<>>
  /\ UNCHANGED executed_volume

Cancel(id) == Quietly(Removed(resting, id))

\* A reprice or an increase is a cancel and a new limit order.
Modify(id, price, quantity) ==
  LET order == OrderOf(resting, id)
      renewed == [id |-> id, side |-> order.side, type |-> "Limit",
                  price |-> price, quantity |-> quantity]
  IN IF id \notin RestingIds(resting) \/ quantity <= 0 THEN Quietly(resting)
     ELSE IF KeepsPlace(order, price, quantity)
          THEN Quietly(Resized(resting, id, quantity))
          ELSE /\ executed_volume + quantity <= MaxVolume
               /\ Becomes(Outcome(Removed(resting, id), executed_volume, <<>>,
                                  renewed, quantity))

Next ==
  \E id \in OrderIds :
    \/ \E side \in Sides, quantity \in Quantities :
         \/ \E price \in Prices :
              Submit([id |-> id, side |-> side, type |-> "Limit",
                      price |-> price, quantity |-> quantity])
         \/ Submit([id |-> id, side |-> side, type |-> "Market",
                    price |-> 0, quantity |-> quantity])
    \/ Cancel(id)
    \/ \E price \in Prices, quantity \in ModifySizes : Modify(id, price, quantity)

Spec == Init /\ [][Next]_vars
=============================================================================
