----------------------------- MODULE Snapshots -----------------------------
(***************************************************************************)
(* What both replays read from the book after every event (extract_l1 and  *)
(* extract_levels of src/EventReplay.cpp).                                 *)
(***************************************************************************)
EXTENDS BookOps

CONSTANT levels   \* ofi_levels, how deep the imbalance looks

\* main refuses an --ofi-levels below 1, and the default is 5.
ASSUME TrackedAssumption == levels \in Nat \ {0}

\* The best level of one side as a sequence of at most one level: best_bid()
\* and best_quantity(Buy), or best_ask() and best_quantity(Sell).
Touch(b, side) ==
  IF DOMAIN b.levels[side] = {} THEN <<>>
  ELSE LET best == CHOOSE price \in DOMAIN b.levels[side] : IsBest(b, side, price)
       IN <<[price |-> best, quantity |-> b.levels[side][best].total_quantity]>>

\* extract_l1: both best levels, read through the best-price accessors.
extract_l1(b) == [bid |-> Touch(b, "Buy"), ask |-> Touch(b, "Sell")]

\* Faulty variant: the walk starts one level below the top.
extract_levels_from_second(b, side) ==
  LET depth == Cardinality(DOMAIN b.levels[side])
  IN [k \in 1 .. Min({levels, depth - 1}) |->
        [price |-> price_at_level(b, side, k + 1),
         quantity |-> quantity_at_level(b, side, k + 1)]]

\* extract_levels: up to `levels` levels of one side from the top, read
\* through the depth accessors; a thinner book gives a shorter ladder.
extract_levels(b, side) ==
  LET depth == Cardinality(DOMAIN b.levels[side])
  IN [k \in 1 .. Min({levels, depth}) |->
        [price |-> price_at_level(b, side, k),
         quantity |-> quantity_at_level(b, side, k)]]
=============================================================================
