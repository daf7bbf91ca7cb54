----------------------------- MODULE OrderBook -----------------------------
(***************************************************************************)
(* The std::map book (include/obme/OrderBook.hpp, src/OrderBook.cpp) as a  *)
(* state machine: any sequence of add_limit_order, cancel_order and        *)
(* modify_order calls that respects add_limit_order's precondition.        *)
(***************************************************************************)
EXTENDS BookOps

VARIABLE book

Init == book = EmptyBook

\* The three assertions of add_limit_order are its precondition: a limit
\* order, of positive size, whose id does not rest yet.
add_limit_order(order) ==
  /\ ~contains(book, order.id)
  /\ book' = insert_order(book, order)

Cancel(id) == book' = cancel_order(book, id)

Modify(id, new_price, new_quantity) ==
  book' = modify_order(book, id, new_price, new_quantity)

Next ==
  \E id \in OrderIds :
    \/ \E side \in Sides, price \in Prices, quantity \in Quantities :
         add_limit_order([id |-> id, side |-> side, price |-> price,
                          quantity |-> quantity])
    \/ Cancel(id)
    \/ \E new_price \in Prices, new_quantity \in ModifySizes :
         Modify(id, new_price, new_quantity)

Spec == Init /\ [][Next]_book

(***************************************************************************)
(* Properties                                                              *)
(***************************************************************************)

\* The two sorted maps and the index hold values of their types; resting
\* sizes stay positive, whatever a modify asks for.
TypeOK == WellTyped(book)

\* check_invariants() returns true after every call: no level is left empty,
\* each is priced to its key, every queued order is on its side and indexed
\* there, cached totals are exact, and the index has nothing more. The id,
\* the level and the index are updated by different statements, and modify
\* goes through a removal and an insertion.
ChecksOut == check_invariants(book)

\* The index and the queues say the same, in both directions: an id is
\* indexed exactly when one queue holds it, once, at the place the index
\* says. The code's own check counts instead, and a duplicate in one queue
\* could make up for an id missing from another.
IndexAgrees == Agrees(book)

\* No sequence of calls breaks the book: the type invariant and the agreement
\* of index and queues, which need each other.
StaysConsistent == TypeOK /\ IndexAgrees

\* The depth accessors that the replay's order-flow imbalance reads: from the
\* top, prices get strictly worse, no level is skipped, each level shows the
\* shares of exactly the orders the index puts at its price, and the levels
\* add up to total_shares.
DepthLadder ==
  \A side \in Sides :
    LET depth == Cardinality(DOMAIN book.levels[side])
        SharesAt(price) ==
          LET ids == {id \in DOMAIN book.locations :
                        book.locations[id] = [side |-> side, price |-> price]}
          IN SumFunction([id \in ids |-> find(book, id).quantity])
    IN /\ \A k \in 1 .. depth - 1 :
            Better(side, price_at_level(book, side, k), price_at_level(book, side, k + 1))
       /\ \A k \in 1 .. depth :
            quantity_at_level(book, side, k) = SharesAt(price_at_level(book, side, k))
       /\ depth > 0 => IsBest(book, side, price_at_level(book, side, 1))
       /\ total_shares(book, side) =
            SumFunction([k \in 1 .. depth |-> quantity_at_level(book, side, k)])

\* Sorted maps of FIFO levels with an index implement two priority queues:
\* snapshot() of each side is the abstract queue after every call.
Abstract == INSTANCE PriorityBook WITH
  resting <- [side \in Sides |-> PriorityQueue(book, side)]

ImplementsPriorityBook == Abstract!Spec
=============================================================================
