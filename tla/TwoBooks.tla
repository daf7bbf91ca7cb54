------------------------------ MODULE TwoBooks ------------------------------
(***************************************************************************)
(* The map book and the array book side by side, as the randomized test of *)
(* tests/test_flat_array_book.cpp runs them: each call is made on both.    *)
(***************************************************************************)
EXTENDS OrderBook, FlatArrayBook

PairInit == Init /\ FlatInit

AddToBoth(new) == add_limit_order(new) /\ AddFlat(new)

CancelInBoth(id) == Cancel(id) /\ CancelFlat(id)

ModifyInBoth(id, new_price, new_quantity) ==
  Modify(id, new_price, new_quantity) /\ ModifyFlat(id, new_price, new_quantity)

PairNext ==
  \E id \in OrderIds :
    \/ \E side \in Sides, price \in Prices, quantity \in Quantities :
         AddToBoth([id |-> id, side |-> side, price |-> price, quantity |-> quantity])
    \/ CancelInBoth(id)
    \/ \E new_price \in Prices, new_quantity \in ModifySizes :
         ModifyInBoth(id, new_price, new_quantity)

PairSpec == PairInit /\ [][PairNext]_<<book, flat>>

(***************************************************************************)
(* Properties                                                              *)
(***************************************************************************)

\* The array book is the map book: after any calls the maps that hold its
\* orders are the maps of the other, levels, queues, cached totals and index
\* alike, and it answers as the other does, though no call looks at all of
\* its levels: best price, shares and first order there, and share counts.
SameBooks ==
  /\ FlatTypeOK
  /\ AsMap(flat) = book
  /\ AnswersAs(flat, book)
=============================================================================
