------------------------- MODULE OrderFlowImbalance -------------------------
(***************************************************************************)
(* The order flow imbalance signal (include/obme/OrderFlowImbalance.hpp,   *)
(* src/OrderFlowImbalance.cpp): each update compares a snapshot of the top *)
(* `levels` price levels with the one of the update before.                *)
(*                                                                         *)
(* A ladder is a sequence of levels [price, quantity], best first: the     *)
(* paired vectors *_px and *_qty of one side.  The mid price is a double   *)
(* in the code and NaN for a one-sided book; here it is twice the mid, in  *)
(* a sequence of one element, or the empty sequence.                       *)
(***************************************************************************)
EXTENDS Orders, Sequences, SequencesExt

CONSTANT levels   \* levels_; the constructor turns 0 into 1

ASSUME LevelsAssumption == levels \in Nat \ {0}

VARIABLES
  prev,     \* have_prev_ and the four prev_* vectors
  sample    \* the last Sample returned

NoSnapshot == [have_prev |-> FALSE, bids |-> <<>>, asks |-> <<>>]

NoSample ==
  [mid |-> <<>>, l1 |-> 0, deep |-> 0, valid |-> FALSE,
   per_level |-> [m \in 1 .. levels |-> 0]]

Init == prev = NoSnapshot /\ sample = NoSample

(***************************************************************************)
(* One update                                                              *)
(***************************************************************************)

\* Faulty variant: an unchanged best price contributes the whole queue.
bid_e_whole_queue(cur, old) ==
  IF cur.price >= old.price THEN cur.quantity ELSE -old.quantity

\* bid_e: the whole new queue if the bid rose, the change of the queue if it
\* stayed, the loss of the old queue if it fell.
bid_e(cur, old) ==
  IF cur.price > old.price THEN cur.quantity
  ELSE IF cur.price = old.price THEN cur.quantity - old.quantity
  ELSE -old.quantity

\* Faulty variant: the ask is compared as if it were a bid.
ask_e_as_bid(cur, old) ==
  IF cur.price > old.price THEN cur.quantity
  ELSE IF cur.price = old.price THEN cur.quantity - old.quantity
  ELSE -old.quantity

\* ask_e: the same with the directions of the price exchanged.
ask_e(cur, old) ==
  IF cur.price < old.price THEN cur.quantity
  ELSE IF cur.price = old.price THEN cur.quantity - old.quantity
  ELSE -old.quantity

TwoSided(bids, asks, m) == m \in DOMAIN bids /\ m \in DOMAIN asks

\* Level m counts only if it is two-sided now and in the update before.
Comparable(old, bids, asks, m) ==
  /\ old.have_prev
  /\ TwoSided(bids, asks, m)
  /\ TwoSided(old.bids, old.asks, m)

PerLevel(old, bids, asks) ==
  [m \in 1 .. levels |->
     IF Comparable(old, bids, asks, m)
     THEN bid_e(bids[m], old.bids[m]) - ask_e(asks[m], old.asks[m])
     ELSE 0]

Sample(old, bids, asks) ==
  LET e == PerLevel(old, bids, asks)
  IN [mid |-> IF TwoSided(bids, asks, 1) THEN <<bids[1].price + asks[1].price>>
              ELSE <<>>,
      l1 |-> e[1],
      deep |-> SumFunction(e),
      valid |-> Comparable(old, bids, asks, 1),
      per_level |-> e]

\* Faulty variant: a one-sided snapshot is not remembered.
RolledIfTwoSided(old, bids, asks) ==
  IF TwoSided(bids, asks, 1)
  THEN [have_prev |-> TRUE, bids |-> bids, asks |-> asks] ELSE old

\* The current snapshot becomes the previous one, whatever its shape.
Rolled(old, bids, asks) == [have_prev |-> TRUE, bids |-> bids, asks |-> asks]

update(bids, asks) ==
  /\ sample' = Sample(prev, bids, asks)
  /\ prev' = Rolled(prev, bids, asks)

reset == prev' = NoSnapshot /\ UNCHANGED sample

(***************************************************************************)
(* Any sequence of snapshots                                               *)
(***************************************************************************)

\* Ladders of one side with at most `depth` levels, best first.
Ladders(side, depth) ==
  UNION {{ladder \in [1 .. n -> [price : Prices, quantity : Quantities]] :
            \A k \in 1 .. n - 1 : Better(side, ladder[k].price, ladder[k + 1].price)}
         : n \in 0 .. depth}

\* The caller may pass ladders that are longer than `levels`; the overload
\* for one level passes at most one level a side.
Next ==
  \/ \E bids \in Ladders("Buy", levels + 1), asks \in Ladders("Sell", levels + 1) :
       update(bids, asks)
  \/ \E bids \in Ladders("Buy", 1), asks \in Ladders("Sell", 1) : update(bids, asks)
  \/ reset

Spec == Init /\ [][Next]_<<prev, sample>>

(***************************************************************************)
(* Properties                                                              *)
(***************************************************************************)

\* Before the first update and after a reset nothing is remembered, and a
\* sample has one entry per tracked level and no L1 value unless it is valid.
TypeOK ==
  /\ prev.have_prev \in BOOLEAN
  /\ ~prev.have_prev => prev = NoSnapshot
  /\ sample.per_level \in [1 .. levels -> Int]
  /\ ~sample.valid => sample.l1 = 0
  /\ sample.valid => Len(sample.mid) = 1

\* 1{condition} of the formula in the class comment.
Indicator(condition) == IF condition THEN 1 ELSE 0

\* The contribution of a level as the class comment states it, from Cont,
\* Kukanov and Stoikov: queues weighted by indicators of the price move.
CksBid(cur, old) ==
  cur.quantity * Indicator(cur.price >= old.price)
    - old.quantity * Indicator(cur.price <= old.price)

CksAsk(cur, old) ==
  cur.quantity * Indicator(cur.price <= old.price)
    - old.quantity * Indicator(cur.price >= old.price)

\* Every sample is the formula applied to the last two snapshots, at every
\* level that both of them have on both sides and at no other, and `valid`
\* says exactly that the first level is one of them. A snapshot that was
\* remembered too long, or a reset that forgot too little, would show.
FollowsFormula ==
  [][prev'.have_prev =>
       LET old == prev
           new == prev'
           both == {m \in 1 .. levels :
                      m <= Min({Len(old.bids), Len(old.asks), Len(new.bids), Len(new.asks)})}
       IN /\ \A m \in 1 .. levels :
               sample'.per_level[m] =
                 IF m \in both
                 THEN CksBid(new.bids[m], old.bids[m]) - CksAsk(new.asks[m], old.asks[m])
                 ELSE 0
          /\ sample'.valid <=> 1 \in both
          /\ sample'.deep = SumFunction(sample'.per_level)
    ]_<<prev, sample>>
=============================================================================
