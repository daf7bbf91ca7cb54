--------------------------- MODULE FlatArrayBook ---------------------------
(***************************************************************************)
(* The array book (include/obme/FlatArrayBook.hpp, src/FlatArrayBook.cpp): *)
(* one level per price of a fixed band, indexed by price - min_price_, the *)
(* best price of a side kept as an index that is only searched again when  *)
(* its level empties, and a running share count per side.  A book is a     *)
(* record                                                                  *)
(*     levels     bids_ and asks_: for each side a level per index         *)
(*     locations  locations_                                               *)
(*     best       best_bid_idx_ and best_ask_idx_, None for an empty side  *)
(*     shares     bid_shares_ and ask_shares_                              *)
(***************************************************************************)
EXTENDS BookOps, PriceBand

VARIABLE flat

None == -1

Indexes == 0 .. max_price - min_price

index_of(price) == price - min_price

EmptyFlat ==
  [levels |-> [side \in Sides |-> [i \in Indexes |-> EmptyLevel(min_price + i)]],
   locations |-> [id \in {} |-> [side |-> "Buy", price |-> 0]],
   best |-> [side \in Sides |-> None],
   shares |-> [side \in Sides |-> 0]]

FlatInit == flat = EmptyFlat

\* Index i is closer to the top than the best so far: bids have their top at
\* the high end of the array, where None is below every index.
Improves(side, i, best) ==
  \/ side = "Buy" /\ i > best
  \/ side = "Sell" /\ (best = None \/ i < best)

\* insert.
insert(b, order) ==
  LET side == order.side
      i == index_of(order.price)
  IN [levels |-> [b.levels EXCEPT ![side][i] = LevelAdd(@, order)],
      locations |-> Emplace(b.locations, order.id,
                            [side |-> side, price |-> order.price]),
      best |-> [b.best EXCEPT ![side] = IF Improves(side, i, @) THEN i ELSE @],
      shares |-> [b.shares EXCEPT ![side] = @ + order.quantity]]

\* The indexes of one side from `from` away from the top.
Behind(side, from) ==
  IF side = "Buy" THEN 0 .. from ELSE from .. max_price - min_price

\* rescan_best_bid walks down from an index and rescan_best_ask up, to the
\* first level that is not empty.
rescan(levels, side, from) ==
  LET found == {i \in Behind(side, from) : levels[i].queue # <<>>}
  IN IF found = {} THEN None
     ELSE IF side = "Buy" THEN Max(found) ELSE Min(found)

\* Faulty variant: the best index is never searched again.
FlatCancelStaleBest(b, id) ==
  IF ~contains(b, id) THEN b
  ELSE LET side == b.locations[id].side
           i == index_of(b.locations[id].price)
           level == b.levels[side][i]
       IN [levels |-> [b.levels EXCEPT ![side][i] = LevelCancel(@, id)],
           locations |-> Without(b.locations, id),
           best |-> b.best,
           shares |-> [b.shares EXCEPT ![side] = @ - FindInLevel(level, id).quantity]]

\* cancel_order: the level stays in the array when it empties; if it was the
\* best one, the search goes on behind it. No level is looked at otherwise.
FlatCancel(b, id) ==
  IF ~contains(b, id) THEN b
  ELSE LET side == b.locations[id].side
           i == index_of(b.locations[id].price)
           level == b.levels[side][i]
           left == LevelCancel(level, id)
           levels == [b.levels EXCEPT ![side][i] = left]
           behind == IF side = "Buy" THEN i - 1 ELSE i + 1
       IN [levels |-> levels,
           locations |-> Without(b.locations, id),
           best |-> [b.best EXCEPT ![side] =
                       IF left.queue = <<>> /\ i = @
                       THEN rescan(levels[side], side, behind) ELSE @],
           shares |-> [b.shares EXCEPT ![side] = @ - FindInLevel(level, id).quantity]]

\* A same-price decrease: the level shrinks the order where it stands.
FlatReduced(b, id, new_quantity) ==
  LET side == b.locations[id].side
      i == index_of(b.locations[id].price)
      level == b.levels[side][i]
      lost == FindInLevel(level, id).quantity - new_quantity
  IN [b EXCEPT !.levels[side][i] = LevelReduce(@, id, new_quantity),
               !.shares[side] = @ - lost]

\* modify_order: a decrease at the same price in place, anything else a
\* cancel and an insertion of the order as it was, repriced and resized.
FlatModify(b, id, new_price, new_quantity) ==
  IF ~contains(b, id) \/ new_quantity <= 0 THEN b
  ELSE LET loc == b.locations[id]
           original == FindInLevel(b.levels[loc.side][index_of(loc.price)], id)
       IN IF new_price = loc.price /\ new_quantity <= original.quantity
          THEN FlatReduced(b, id, new_quantity)
          ELSE insert(FlatCancel(b, id), Repriced(original, new_price, new_quantity))

AddFlat(order) ==
  /\ ~contains(flat, order.id)
  /\ flat' = insert(flat, order)

CancelFlat(id) == flat' = FlatCancel(flat, id)

ModifyFlat(id, new_price, new_quantity) ==
  flat' = FlatModify(flat, id, new_price, new_quantity)

(***************************************************************************)
(* What the book answers                                                   *)
(***************************************************************************)

\* best_bid() and best_ask(), for a side that has a best index.
best_price(b, side) == min_price + b.best[side]

best_quantity(b, side) ==
  IF b.best[side] = None THEN 0 ELSE b.levels[side][b.best[side]].total_quantity

\* best_order(side), for a side that has a best index.
best_order(b, side) == Head(b.levels[side][b.best[side]].queue)

(***************************************************************************)
(* Properties                                                              *)
(***************************************************************************)

\* The arrays keep one level per price of the band, each priced to its index
\* whatever comes and goes, and a best index is None or inside the array.
FlatTypeOK ==
  /\ \A side \in Sides :
       /\ DOMAIN flat.levels[side] = Indexes
       /\ \A i \in Indexes :
            /\ flat.levels[side][i].price = min_price + i
            /\ flat.levels[side][i].queue \in Seq(Order)
       /\ flat.best[side] \in Indexes \cup {None}
       /\ flat.shares[side] \in Nat
  /\ DOMAIN flat.locations \subseteq OrderIds
  /\ \A id \in DOMAIN flat.locations : flat.locations[id] \in Location

\* The sorted maps that hold the same orders: the levels that are not empty.
AsMap(b) ==
  [levels |-> [side \in Sides |->
     LET used == {i \in Indexes : b.levels[side][i].queue # <<>>}
     IN [price \in {min_price + i : i \in used} |-> b.levels[side][index_of(price)]]],
   locations |-> b.locations]

\* An array book f answers as the map book b does (expect_same_state in
\* tests/test_flat_array_book.cpp): a side has a best price exactly when the
\* map has one, it is the same price with the same shares and the same first
\* order, and the running share counts are the sums of the levels.
AnswersAs(f, b) ==
  \A side \in Sides :
    /\ f.best[side] = None <=> DOMAIN b.levels[side] = {}
    /\ f.best[side] # None =>
         LET best == best_price(f, side)
         IN /\ IsBest(b, side, best)
            /\ best_quantity(f, side) = quantity_at(b, side, best)
            /\ best_order(f, side) = Head(b.levels[side][best].queue)
    /\ f.shares[side] = total_shares(b, side)
=============================================================================
