------------------------- MODULE MatchingRefinement -------------------------
(***************************************************************************)
(* The matching loop implements price-time priority (PriceTimePriority):   *)
(* seen from outside, a call has the effect of the closed form at once.    *)
(*                                                                         *)
(* A call that is still matching is mapped to the outcome it is about to   *)
(* have, computed by the closed form from the book, the trades and the     *)
(* shares left at that point.  The abstract call then happens where the    *)
(* order comes in, and every later step must leave the outcome as it is:   *)
(* the loop invariant of match.  The auxiliary variable `settled` only     *)
(* carries that value along; it restricts no step.                         *)
(***************************************************************************)
EXTENDS MatchingEngine

VARIABLE settled

Abstract == INSTANCE PriceTimePriority WITH
  resting <- settled.resting,
  executed_volume <- settled.executed_volume,
  trades <- settled.trades

\* snapshot() of each side, its orders in price-time priority.
Resting(b) == [side \in Sides |-> PriorityQueue(b, side)]

\* What the call will have made of a book b, when it is at p with the order o.
SettledFrom(b, volume, done, p, o, wanted) ==
  IF p = "match" THEN Abstract!Outcome(Resting(b), volume, done, o, wanted)
  ELSE [resting |-> Resting(b), executed_volume |-> volume, trades |-> done]

RefinementInit ==
  /\ Init
  /\ settled = SettledFrom(book, executed_volume, trades, pc, order, remaining)

RefinementNext ==
  /\ Next
  /\ settled' = SettledFrom(book', executed_volume', trades', pc', order', remaining')

RefinementSpec == RefinementInit /\ [][RefinementNext]_<<vars, settled>>

\* Every call of the engine, with its loop, its level queues and its index,
\* trades what price-time priority says: the same resting orders, in the same
\* order and with the same counterparties and prices as the closed form.
ImplementsPriceTimePriority == Abstract!Spec

\* Ids are only compared for equality.
IdSymmetry == Permutations(OrderIds)
=============================================================================
