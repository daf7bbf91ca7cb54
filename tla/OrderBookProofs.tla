--------------------------- MODULE OrderBookProofs ---------------------------
(***************************************************************************)
(* The order book stays well typed and its location index never disagrees  *)
(* with its queues, for every set of ids, prices and sizes.  The two facts *)
(* are one inductive invariant: each operation needs the agreement to find *)
(* the level it works on.  From it follow the checks and depths that the   *)
(* book reports, and that it implements two priority queues.               *)
(*                                                                         *)
(* The second part puts the array book beside it, and the third runs the   *)
(* benchmarks on both.  Only these two use the band of prices that the     *)
(* array has room for, and only the third the ids of the stream.           *)
(***************************************************************************)
EXTENDS Bench, BookLemmas

\* A limit order over the constants is an order of the book.
LEMMA LimitOrderTyped ==
  ASSUME NEW id \in OrderIds, NEW side \in Sides, NEW price \in Prices,
         NEW quantity \in Quantities
  PROVE  [id |-> id, side |-> side, price |-> price, quantity |-> quantity] \in Order
<1>1. quantity \in Nat \ {0}
  BY QuantitiesAssumption
<1> QED
  BY <1>1 DEF Order

\* What every call keeps: the book is consistent and its counts are exact.
\* The agreement of index and queues is what makes the counts inductive: an
\* id taken out of the index must have been in one queue, and in one only.
Sound == Consistent(book) /\ Counts(book)

LEMMA SoundInitially == Init => Sound
  BY EmptyConsistent, EmptyCounts DEF Init, Sound

LEMMA CallsKeepSound == Sound /\ [Next]_book => Sound'
<1> SUFFICES ASSUME Consistent(book), Counts(book), [Next]_book
             PROVE  Consistent(book') /\ Counts(book')
  BY DEF Sound
<1>1. ASSUME NEW id \in OrderIds, NEW side \in Sides, NEW price \in Prices,
             NEW quantity \in Quantities,
             add_limit_order([id |-> id, side |-> side, price |-> price,
                              quantity |-> quantity])
      PROVE  Consistent(book') /\ Counts(book')
  <2> DEFINE o == [id |-> id, side |-> side, price |-> price, quantity |-> quantity]
  <2>1. o \in Order
    BY LimitOrderTyped
  <2> HIDE DEF o
  <2>2. ~contains(book, o.id) /\ book' = insert_order(book, o)
    BY <1>1 DEF add_limit_order, o
  <2> QED
    BY <2>1, <2>2, InsertConsistent, InsertCounts
<1>2. ASSUME NEW id \in OrderIds, Cancel(id)
      PROVE  Consistent(book') /\ Counts(book')
  <2>1. CASE id \in DOMAIN book.locations
    BY <1>2, <2>1, CancelConsistent, CancelCounts DEF Cancel
  <2>2. CASE id \notin DOMAIN book.locations
    BY <1>2, <2>2 DEF Cancel, cancel_order, contains
  <2> QED
    BY <2>1, <2>2
<1>3. ASSUME NEW id \in OrderIds, NEW new_price \in Prices,
             NEW new_quantity \in ModifySizes, Modify(id, new_price, new_quantity)
      PROVE  Consistent(book') /\ Counts(book')
  <2>1. new_quantity \in Int
    BY QuantitiesAssumption DEF ModifySizes
  <2> QED
    BY <1>3, <2>1, ModifyConsistent, ModifyCounts DEF Modify
<1>4. CASE UNCHANGED book
  BY <1>4
<1> QED
  BY <1>1, <1>2, <1>3, <1>4 DEF Next

THEOREM SoundAlways == Spec => []Sound
  BY SoundInitially, CallsKeepSound, PTL DEF Spec

\* No call of any sequence of calls breaks the book's consistency.
THEOREM BookStaysConsistent == Spec => []StaysConsistent
<1>1. Sound => StaysConsistent
  BY DEF Sound, Consistent, StaysConsistent, TypeOK, IndexAgrees
<1> QED
  BY <1>1, SoundAlways, PTL

\* check_invariants() never returns false: the sums it takes over the queues
\* and over the levels come out right after any sequence of calls.
THEOREM InvariantsCheckOut == Spec => []ChecksOut
<1>1. Sound => ChecksOut
  BY CountsCheckOut DEF Sound, ChecksOut
<1> QED
  BY <1>1, SoundAlways, PTL

(***************************************************************************)
(* The depth accessors                                                     *)
(***************************************************************************)

\* The ids the index puts at a price have the shares of that level.
LEMMA LevelShares ==
  ASSUME NEW b, Consistent(b), Counts(b), NEW side \in Sides,
         NEW price \in DOMAIN b.levels[side], NEW ids,
         ids = {id \in DOMAIN b.locations :
                  b.locations[id] = [side |-> side, price |-> price]}
  PROVE  SumFunction([id \in ids |-> find(b, id).quantity])
           = b.levels[side][price].total_quantity
<1> DEFINE level == b.levels[side][price]
           S == 1 .. Len(level.queue)
           size == [i \in S |-> level.queue[i].quantity]
           into == [i \in S |-> level.queue[i].id]
           held == [id \in ids |-> find(b, id).quantity]
<1>1. level \in Level /\ LevelIndexed(b, side, price) /\ Exact(level)
  BY DEF Consistent, WellTyped, Agrees, Counts
<1>2. /\ IsFiniteSet(S) /\ S = Positions(level)
      /\ \A i \in S : level.queue[i] \in Order /\ level.queue[i].quantity \in Int
  <2> HIDE DEF level
  <2>1. /\ Len(level.queue) \in Nat
        /\ \A i \in 1 .. Len(level.queue) : /\ level.queue[i] \in Order
                                            /\ level.queue[i].quantity \in Nat \ {0}
    BY <1>1, QueuedSize
  <2>2. IsFiniteSet(1 .. Len(level.queue))
    BY <2>1, FS_Interval
  <2> QED
    BY <2>1, <2>2 DEF Positions
<1>3. NoTwins(level)
  BY <1>1 DEF LevelIndexed
<1>4. \A i \in S : StandsAt(b, side, price, level.queue[i], i)
  BY <1>2 DEF StandsAt
<1>5. \A i \in S : /\ level.queue[i].id \in ids
                   /\ find(b, level.queue[i].id) = level.queue[i]
  BY <1>4, FoundAt
<1>6. \A id \in ids : \E i \in S : level.queue[i].id = id
  <2> SUFFICES ASSUME NEW id \in ids PROVE \E i \in S : level.queue[i].id = id
    OBVIOUS
  <2>1. id \in DOMAIN b.locations
    OBVIOUS
  <2>2. b.locations[id].side = side /\ b.locations[id].price = price
    OBVIOUS
  <2>3. LET loc == b.locations[id]
        IN \E i \in Positions(b.levels[loc.side][loc.price]) :
             b.levels[loc.side][loc.price].queue[i].id = id
    BY <2>1, WhereQueued
  <2> QED
    BY <1>2, <2>2, <2>3
<1>7. SumFunctionOnSet(size, S) = level.total_quantity
  BY <1>1 DEF Exact, Shares, SumFunction
<1>8. SumFunction(held) = SumFunctionOnSet(held, ids)
  BY DEF SumFunction
<1>9. \A id \in ids : held[id] = find(b, id).quantity
  OBVIOUS
<1>10. \A i \in S : size[i] = level.queue[i].quantity /\ into[i] = level.queue[i].id
  OBVIOUS
<1>11. \A i, j \in S : into[i] = into[j] => i = j
  BY <1>2, <1>3, <1>10 DEF NoTwins
<1> HIDE DEF S, size, into, held
<1>12. \A i \in S : into[i] \in ids /\ size[i] = held[into[i]]
  BY <1>5, <1>9, <1>10
<1>13. \A id \in ids : held[id] \in Int
  BY <1>2, <1>5, <1>6, <1>9
<1>14. \A id \in ids : \E i \in S : into[i] = id
  BY <1>6, <1>10
<1>15. SumFunctionOnSet(size, S) = SumFunctionOnSet(held, ids)
  BY <1>2, <1>11, <1>12, <1>13, <1>14, SumRenamed
<1> QED
  BY <1>7, <1>8, <1>15 DEF held

\* total_shares adds up the levels that the accessors show.
LEMMA LadderShares ==
  ASSUME NEW b, WellTyped(b), NEW side \in Sides, NEW S, S = DOMAIN b.levels[side],
         IsFiniteSet(S)
  PROVE  /\ \A k \in 1 .. Cardinality(S) :
              /\ PriceLadder(b, side)[k] \in S
              /\ quantity_at_level(b, side, k)
                   = b.levels[side][PriceLadder(b, side)[k]].total_quantity
         /\ total_shares(b, side) =
              SumFunction([k \in 1 .. Cardinality(S) |-> quantity_at_level(b, side, k)])
<1> DEFINE n == Cardinality(S)
           ladder == PriceLadder(b, side)
           K == 1 .. n
           shown == [k \in K |-> quantity_at_level(b, side, k)]
           totals == Totals(b, side)
<1>0. S \subseteq Int
  BY PricesAssumption DEF WellTyped
<1>1. /\ n \in Nat /\ DOMAIN ladder = K
      /\ \A k \in K : ladder[k] \in S
      /\ \A j, k \in K : j < k => Better(side, ladder[j], ladder[k])
      /\ \A p \in S : \E k \in K : ladder[k] = p
  <2>1. Ladder(ladder, side, S)
    BY <1>0, LadderSorts
  <2> QED
    BY <2>1 DEF Ladder
<1>2. \A k \in K : quantity_at_level(b, side, k) = b.levels[side][ladder[k]].total_quantity
  <2> HIDE DEF ladder, K
  <2>1. \A k : quantity_at_level(b, side, k)
                 = IF k \in DOMAIN ladder THEN quantity_at(b, side, ladder[k]) ELSE 0
    BY DEF quantity_at_level, ladder
  <2> QED
    BY <1>1, <2>1 DEF quantity_at
<1>3. /\ total_shares(b, side) = SumFunctionOnSet(totals, S)
      /\ \A p \in S : totals[p] = b.levels[side][p].total_quantity /\ totals[p] \in Int
  <2>1. /\ total_shares(b, side) = SumFunction(totals) /\ DOMAIN totals = S
        /\ \A p \in S : totals[p] = b.levels[side][p].total_quantity /\ totals[p] \in Int
    BY TotalsSummable
  <2> QED
    BY <2>1 DEF SumFunction
<1>4. SumFunction(shown) = SumFunctionOnSet(shown, K)
  BY DEF SumFunction
<1>5. IsFiniteSet(K) /\ K \subseteq Int
  BY <1>1, FS_Interval
<1>6. \A k \in K : shown[k] = quantity_at_level(b, side, k)
  OBVIOUS
<1> HIDE DEF n, K, shown, totals, ladder
<1>7. \A j, k \in K : ladder[j] = ladder[k] => j = k
  BY <1>0, <1>1, <1>5 DEF Better
<1>8. \A k \in K : ladder[k] \in S /\ shown[k] = totals[ladder[k]]
  BY <1>1, <1>2, <1>3, <1>6
<1>9. SumFunctionOnSet(shown, K) = SumFunctionOnSet(totals, S)
  BY <1>1, <1>3, <1>5, <1>7, <1>8, SumRenamed
<1>10. total_shares(b, side) = SumFunction(shown)
  BY <1>3, <1>4, <1>9
<1> QED
  BY <1>1, <1>2, <1>10 DEF n, K, ladder, shown

\* The depth accessors never skip or repeat a level, and show the shares of
\* exactly the orders that the index has at their price.
THEOREM DepthIsTheBook == Spec => []DepthLadder
<1>1. ASSUME Sound, NEW side \in Sides,
             NEW depth, depth = Cardinality(DOMAIN book.levels[side])
      PROVE  /\ \A k \in 1 .. depth - 1 :
                  Better(side, price_at_level(book, side, k), price_at_level(book, side, k + 1))
             /\ \A k \in 1 .. depth :
                  /\ price_at_level(book, side, k) \in DOMAIN book.levels[side]
                  /\ quantity_at_level(book, side, k)
                       = book.levels[side][price_at_level(book, side, k)].total_quantity
             /\ depth > 0 => IsBest(book, side, price_at_level(book, side, 1))
             /\ total_shares(book, side) =
                  SumFunction([k \in 1 .. depth |-> quantity_at_level(book, side, k)])
  <2> DEFINE S == DOMAIN book.levels[side]
             ladder == PriceLadder(book, side)
  <2>1. WellTyped(book) /\ IsFiniteSet(S)
    BY <1>1 DEF Sound, Consistent, Counts
  <2>2. S \subseteq Int
    BY <2>1, PricesAssumption DEF WellTyped
  <2> HIDE DEF S
  <2>3. /\ depth \in Nat
        /\ \A k \in 1 .. depth : ladder[k] \in S
        /\ \A j, k \in 1 .. depth : j < k => Better(side, ladder[j], ladder[k])
        /\ \A p \in S : \E k \in 1 .. depth : ladder[k] = p
    <3>1. Ladder(PriceLadder(book, side), side, S)
      BY <2>1, <2>2, LadderSorts DEF S
    <3>2. depth = Cardinality(S)
      BY <1>1 DEF S
    <3> QED
      BY <3>1, <3>2 DEF Ladder
  <2>4. /\ \A k \in 1 .. depth : quantity_at_level(book, side, k)
                                   = book.levels[side][ladder[k]].total_quantity
        /\ total_shares(book, side) =
             SumFunction([k \in 1 .. depth |-> quantity_at_level(book, side, k)])
    BY <1>1, <2>1, LadderShares DEF S
  <2>5. \A k : price_at_level(book, side, k) = ladder[k]
    BY DEF price_at_level
  <2> HIDE DEF ladder
  <2>6. ASSUME NEW k \in 1 .. depth - 1 PROVE Better(side, ladder[k], ladder[k + 1])
    <3>1. k \in 1 .. depth /\ k + 1 \in 1 .. depth /\ k < k + 1
      BY <2>3
    <3> QED
      BY <2>3, <3>1
  <2>7. ASSUME depth > 0 PROVE IsBest(book, side, ladder[1])
    <3>1. 1 \in 1 .. depth
      BY <2>3, <2>7
    <3>2. \A p \in S : ~Better(side, p, ladder[1])
      <4> SUFFICES ASSUME NEW p \in S PROVE ~Better(side, p, ladder[1])
        OBVIOUS
      <4>1. PICK k \in 1 .. depth : ladder[k] = p
        BY <2>3
      <4>2. k = 1 \/ Better(side, ladder[1], p)
        BY <2>3, <3>1, <4>1
      <4>3. p \in Int /\ ladder[1] \in Int
        BY <2>2, <2>3, <3>1
      <4> QED
        BY <4>1, <4>2, <4>3 DEF Better
    <3> QED
      BY <2>3, <3>1, <3>2 DEF IsBest, S
  <2> QED
    BY <2>3, <2>4, <2>5, <2>6, <2>7 DEF S
<1>2. ASSUME Sound PROVE DepthLadder
  <2> SUFFICES ASSUME NEW side \in Sides,
                      NEW depth, depth = Cardinality(DOMAIN book.levels[side])
               PROVE  /\ \A k \in 1 .. depth - 1 :
                           Better(side, price_at_level(book, side, k),
                                  price_at_level(book, side, k + 1))
                      /\ \A k \in 1 .. depth :
                           quantity_at_level(book, side, k) =
                             SumFunction([id \in {o \in DOMAIN book.locations :
                                book.locations[o] = [side |-> side,
                                  price |-> price_at_level(book, side, k)]}
                              |-> find(book, id).quantity])
                      /\ depth > 0 => IsBest(book, side, price_at_level(book, side, 1))
                      /\ total_shares(book, side) =
                           SumFunction([k \in 1 .. depth |-> quantity_at_level(book, side, k)])
    BY DEF DepthLadder
  <2>1. ASSUME NEW k \in 1 .. depth
        PROVE  quantity_at_level(book, side, k) =
                 SumFunction([id \in {o \in DOMAIN book.locations :
                    book.locations[o] = [side |-> side,
                      price |-> price_at_level(book, side, k)]}
                  |-> find(book, id).quantity])
    <3> DEFINE price == price_at_level(book, side, k)
    <3>1. /\ price \in DOMAIN book.levels[side]
          /\ quantity_at_level(book, side, k) = book.levels[side][price].total_quantity
      BY <1>1, <1>2, <2>1
    <3> HIDE DEF price
    <3>2. SumFunction([id \in {o \in DOMAIN book.locations :
                                book.locations[o] = [side |-> side, price |-> price]}
                        |-> find(book, id).quantity])
            = book.levels[side][price].total_quantity
      BY <1>2, <3>1, LevelShares DEF Sound
    <3> QED
      BY <3>1, <3>2 DEF price
  <2> QED
    BY <1>1, <1>2, <2>1
<1> QED
  BY <1>2, SoundAlways, PTL
(***************************************************************************)
(* The book implements two priority queues                                 *)
(***************************************************************************)

\* The operators of the abstract book are those the lemmas speak of.
LEMMA AbstractOperators ==
  /\ Abstract!NoOrders = Queues!NoOrders
  /\ \A queues : Abstract!RestingIds(queues) = Queues!RestingIds(queues)
  /\ \A queues, id : Abstract!OrderOf(queues, id) = Queues!OrderOf(queues, id)
  /\ \A queues, o : Abstract!Queued(queues, o) = Queues!Queued(queues, o)
  /\ \A queues, id : Abstract!Removed(queues, id) = Queues!Removed(queues, id)
  /\ \A queues, id, quantity :
       Abstract!Resized(queues, id, quantity) = Queues!Resized(queues, id, quantity)
<1>1. /\ Abstract!Sides = Queues!Sides
      /\ \A side, p, r : Abstract!Better(side, p, r) = Queues!Better(side, p, r)
      /\ \A s, n, e : Abstract!InsertAt(s, n, e) = Queues!InsertAt(s, n, e)
      /\ \A s, n : Abstract!RemoveAt(s, n) = Queues!RemoveAt(s, n)
      /\ \A S : Abstract!Cardinality(S) = Queues!Cardinality(S)
  <2>1. Abstract!Sides = Queues!Sides
    BY DEF Abstract!Sides, Queues!Sides
  <2>2. \A side, p, r : Abstract!Better(side, p, r) = Queues!Better(side, p, r)
    BY DEF Abstract!Better, Queues!Better
  <2>3. \A s, n, e : Abstract!InsertAt(s, n, e) = Queues!InsertAt(s, n, e)
    BY DEF Abstract!InsertAt, Queues!InsertAt
  <2>4. \A s, n : Abstract!RemoveAt(s, n) = Queues!RemoveAt(s, n)
    BY DEF Abstract!RemoveAt, Queues!RemoveAt
  <2>5. \A S : Abstract!Cardinality(S) = Queues!Cardinality(S)
    BY DEF Abstract!Cardinality, Queues!Cardinality
  <2> QED
    BY <2>1, <2>2, <2>3, <2>4, <2>5
<1>2. Abstract!NoOrders = Queues!NoOrders
  BY <1>1 DEF Abstract!NoOrders, Queues!NoOrders
<1>3. \A queues : Abstract!RestingIds(queues) = Queues!RestingIds(queues)
  BY DEF Abstract!RestingIds, Queues!RestingIds
<1>4. \A queues, id : Abstract!SideOf(queues, id) = Queues!SideOf(queues, id)
  BY <1>1 DEF Abstract!SideOf, Queues!SideOf
<1>5. \A queue, id : Abstract!IndexOf(queue, id) = Queues!IndexOf(queue, id)
  BY DEF Abstract!IndexOf, Queues!IndexOf
<1>6. \A queues, id : Abstract!OrderOf(queues, id) = Queues!OrderOf(queues, id)
  BY <1>4, <1>5 DEF Abstract!OrderOf, Queues!OrderOf
<1>7. \A queues, o : Abstract!Queued(queues, o) = Queues!Queued(queues, o)
  BY <1>1 DEF Abstract!Queued, Queues!Queued
<1>8. \A queues, id : Abstract!Removed(queues, id) = Queues!Removed(queues, id)
  BY <1>1, <1>3, <1>4, <1>5 DEF Abstract!Removed, Queues!Removed
<1>9. \A queues, id, quantity :
        Abstract!Resized(queues, id, quantity) = Queues!Resized(queues, id, quantity)
  BY <1>4, <1>5 DEF Abstract!Resized, Queues!Resized
<1> QED
  BY <1>2, <1>3, <1>6, <1>7, <1>8, <1>9

\* Changing the price and the size of an order leaves the order repriced.
LEMMA RepricedFields ==
  ASSUME NEW o \in Order, NEW price, NEW quantity
  PROVE  Abstract!Repriced(o, price, quantity) = Repriced(o, price, quantity)
<1> DEFINE once == [o EXCEPT !.price = price]
<1>1. PICK id, side, p, q : o = [id |-> id, side |-> side, price |-> p, quantity |-> q]
  BY DEF Order
<1>2. once = [id |-> id, side |-> side, price |-> price, quantity |-> q]
  BY <1>1
<1> HIDE DEF once
<1>3. [once EXCEPT !.quantity = quantity]
        = [id |-> id, side |-> side, price |-> price, quantity |-> quantity]
  BY <1>2
<1>4. Repriced(o, price, quantity)
        = [id |-> id, side |-> side, price |-> price, quantity |-> quantity]
  BY <1>1 DEF Repriced
<1>5. Abstract!Repriced(o, price, quantity) = [once EXCEPT !.quantity = quantity]
  BY DEF Abstract!Repriced, once
<1> QED
  BY <1>3, <1>4, <1>5

\* A modify that moves an order lists it last among its equals on the new
\* price, after the queue it left has closed up.
LEMMA MovedLists ==
  ASSUME NEW b, Consistent(b), NEW id \in DOMAIN b.locations,
         NEW o \in Order, o.id = id, NEW queues, ListsBook(queues, b)
  PROVE  ListsBook(Queues!Queued(Queues!Removed(queues, id), o),
                   insert_order(cancel_order(b, id), o))
<1> DEFINE between == cancel_order(b, id)
           removed == Queues!Removed(queues, id)
<1>1. Consistent(between) /\ DOMAIN between.locations = DOMAIN b.locations \ {id}
  BY CancelConsistent
<1>2. ListsBook(removed, between)
  BY RemovedLists
<1> HIDE DEF between, removed
<1>3. ~contains(between, o.id)
  BY <1>1 DEF contains
<1>4. ListsBook(Queues!Queued(removed, o), insert_order(between, o))
  BY <1>1, <1>2, <1>3, QueuedLists
<1> QED
  BY <1>4 DEF between, removed

\* Each call maps to the abstract call of the same name, or changes nothing.
LEMMA AddRefines ==
  ASSUME Sound, Sound', NEW o \in Order, add_limit_order(o)
  PROVE  Abstract!Add(o)
<1> DEFINE now == Snapshots(book)
           next == Snapshots(book')
<1>1. /\ Consistent(book) /\ Consistent(book')
      /\ ListsBook(now, book) /\ ListsBook(next, book')
  BY SnapshotsList DEF Sound
<1>2. ~contains(book, o.id) /\ book' = insert_order(book, o)
  BY DEF add_limit_order
<1>3. o.id \notin Queues!RestingIds(now)
  BY <1>1, <1>2, RestingFinds DEF contains
<1>4. ListsBook(Queues!Queued(now, o), book')
  BY <1>1, <1>2, QueuedLists
<1>5. next = Queues!Queued(now, o)
  BY <1>1, <1>4, ListsBookOnce
<1> QED
  BY <1>3, <1>5, AbstractOperators DEF Abstract!Add, Snapshots

LEMMA CancelRefines ==
  ASSUME Sound, Sound', NEW id, Cancel(id)
  PROVE  Abstract!Cancel(id)
<1> DEFINE now == Snapshots(book)
           next == Snapshots(book')
<1>1. /\ Consistent(book) /\ Consistent(book')
      /\ ListsBook(now, book) /\ ListsBook(next, book')
  BY SnapshotsList DEF Sound
<1>2. ListsBook(Queues!Removed(now, id), book')
  BY <1>1, RemovedLists DEF Cancel
<1>3. next = Queues!Removed(now, id)
  BY <1>1, <1>2, ListsBookOnce
<1> QED
  BY <1>3, AbstractOperators DEF Abstract!Cancel, Snapshots

LEMMA ModifyRefines ==
  ASSUME Sound, Sound', NEW id \in OrderIds, NEW new_price \in Prices,
         NEW new_quantity \in ModifySizes, Modify(id, new_price, new_quantity)
  PROVE  \/ new_quantity \in Quantities /\ Abstract!Modify(id, new_price, new_quantity)
         \/ UNCHANGED book
<1> DEFINE now == Snapshots(book)
           next == Snapshots(book')
           o == find(book, id)
           moved == Repriced(o, new_price, new_quantity)
<1>1. /\ Consistent(book) /\ Consistent(book')
      /\ ListsBook(now, book) /\ ListsBook(next, book')
  BY SnapshotsList DEF Sound
<1>0. new_quantity \in Nat
  BY QuantitiesAssumption DEF ModifySizes
<1>2. CASE ~contains(book, id) \/ new_quantity <= 0
  BY <1>2 DEF Modify, modify_order
<1>3. CASE contains(book, id) /\ new_quantity > 0
  <2>1. id \in DOMAIN book.locations /\ new_quantity \in Quantities /\ new_quantity \in Nat \ {0}
    BY <1>3, QuantitiesAssumption DEF ModifySizes, contains
  <2>2. /\ o \in Order /\ o.id = id
        /\ o.price = book.locations[id].price
    BY <1>1, <2>1, FindResting
  <2>3. /\ Queues!RestingIds(now) = DOMAIN book.locations
        /\ Queues!OrderOf(now, id) = o
    BY <1>1, <2>1, RestingFinds
  <2>4. book' = IF new_price = o.price /\ new_quantity <= o.quantity
                THEN Reduced(book, id, new_quantity)
                ELSE insert_order(cancel_order(book, id), moved)
    <3>1. book' = modify_order(book, id, new_price, new_quantity) /\ ~(new_quantity <= 0)
      BY <1>0, <1>3 DEF Modify
    <3> QED
      BY <1>3, <2>2, <3>1 DEF modify_order
  <2> HIDE DEF o
  <2>5. moved \in Order /\ moved.id = id
    BY <2>1, <2>2 DEF Repriced, Order
  <2>6. Abstract!Repriced(o, new_price, new_quantity) = moved
    BY <2>2, RepricedFields
  <2>7. next = IF new_price = o.price /\ new_quantity <= o.quantity
               THEN Queues!Resized(now, id, new_quantity)
               ELSE Queues!Queued(Queues!Removed(now, id), moved)
    <3>1. CASE new_price = o.price /\ new_quantity <= o.quantity
      <4>1. ListsBook(Queues!Resized(now, id, new_quantity), book')
        BY <1>1, <2>1, <2>4, <3>1, ResizedLists DEF o
      <4> QED
        BY <1>1, <3>1, <4>1, ListsBookOnce
    <3>2. CASE ~(new_price = o.price /\ new_quantity <= o.quantity)
      <4> HIDE DEF now, next, moved
      <4>1. ListsBook(Queues!Queued(Queues!Removed(now, id), moved),
                      insert_order(cancel_order(book, id), moved))
        BY <1>1, <2>1, <2>5, MovedLists
      <4>2. book' = insert_order(cancel_order(book, id), moved)
        BY <2>4, <3>2
      <4>3. ListsBook(Queues!Queued(Queues!Removed(now, id), moved), book')
        BY <4>1, <4>2
      <4>4. next = Queues!Queued(Queues!Removed(now, id), moved)
        BY <1>1, <4>3, ListsBookOnce
      <4> QED
        BY <3>2, <4>4
    <3> QED
      BY <3>1, <3>2
  <2> HIDE DEF moved
  <2>8. Abstract!Modify(id, new_price, new_quantity)
    BY <2>1, <2>3, <2>6, <2>7, <1>3, AbstractOperators
    DEF Abstract!Modify, Abstract!KeepsPlace, Snapshots
  <2> QED
    BY <2>1, <2>8
<1> QED
  BY <1>0, <1>2, <1>3

\* Sorted maps of levels with an index behave as two queues in price-time
\* priority: after every call, snapshot() of each side is the queue that the
\* abstract call leaves.
THEOREM BookImplementsPriorityBook == Spec => ImplementsPriorityBook
<1>1. ASSUME Init PROVE Abstract!Init
  <2>1. ListsBook(Snapshots(book), book) /\ Consistent(book)
    BY <1>1, EmptyConsistent, EmptyCounts, SnapshotsList DEF Init
  <2>2. ListsBook(Queues!NoOrders, book)
    BY <1>1, NoOrdersListed DEF Init
  <2>3. Snapshots(book) = Queues!NoOrders
    BY <2>1, <2>2, ListsBookOnce
  <2> QED
    BY <2>3, AbstractOperators DEF Abstract!Init, Snapshots
<1>2. ASSUME Sound, Sound', Next
      PROVE  Abstract!Next \/ UNCHANGED book
  <2>1. PICK id \in OrderIds :
          \/ \E side \in Sides, price \in Prices, quantity \in Quantities :
               add_limit_order([id |-> id, side |-> side, price |-> price,
                                quantity |-> quantity])
          \/ Cancel(id)
          \/ \E new_price \in Prices, new_quantity \in ModifySizes :
               Modify(id, new_price, new_quantity)
    BY <1>2 DEF Next
  <2>2. ASSUME NEW side \in Sides, NEW price \in Prices, NEW quantity \in Quantities,
               add_limit_order([id |-> id, side |-> side, price |-> price,
                                quantity |-> quantity])
        PROVE  Abstract!Next
    <3>1. [id |-> id, side |-> side, price |-> price, quantity |-> quantity] \in Order
      BY LimitOrderTyped
    <3>2. Abstract!Add([id |-> id, side |-> side, price |-> price, quantity |-> quantity])
      BY <1>2, <2>2, <3>1, AddRefines
    <3> QED
      BY <3>2 DEF Abstract!Next, Abstract!Sides, Sides
  <2>3. ASSUME Cancel(id) PROVE Abstract!Next
    <3>1. Abstract!Cancel(id)
      BY <1>2, <2>3, CancelRefines
    <3> QED
      BY <3>1 DEF Abstract!Next
  <2>4. ASSUME NEW new_price \in Prices, NEW new_quantity \in ModifySizes,
               Modify(id, new_price, new_quantity)
        PROVE  Abstract!Next \/ UNCHANGED book
    <3>1. \/ new_quantity \in Quantities /\ Abstract!Modify(id, new_price, new_quantity)
          \/ UNCHANGED book
      BY <1>2, <2>4, ModifyRefines
    <3> QED
      BY <3>1 DEF Abstract!Next
  <2> QED
    BY <2>1, <2>2, <2>3, <2>4
<1>3. ASSUME Sound, Sound', [Next]_book
      PROVE  [Abstract!Next]_(Snapshots(book))
  BY <1>2, <1>3 DEF Snapshots
<1>4. ASSUME Sound, Sound', [Next]_book
      PROVE  [Abstract!Next]_([side \in Sides |-> PriorityQueue(book, side)])
  BY <1>3, <1>4 DEF Snapshots
<1> QED
  BY <1>1, <1>4, SoundAlways, PTL DEF Spec, ImplementsPriorityBook, Abstract!Spec

(***************************************************************************)
(* The array book                                                          *)
(*                                                                         *)
(* It is the map book, for every band, set of ids and sizes.  The          *)
(* invariant says what each array cell holds for the map book: the map's   *)
(* level at that price or, where the map has none, an empty level with     *)
(* nothing left in its total.  That needs exact totals, so the map book's  *)
(* consistency and its counts are part of it.                              *)
(***************************************************************************)

\* A map book is a record of maps, and nothing else.
Maps(b) ==
  /\ b = [levels |-> b.levels, locations |-> b.locations]
  /\ b.levels = [side \in Sides |-> b.levels[side]]
  /\ \A side \in Sides :
       b.levels[side] = [price \in DOMAIN b.levels[side] |-> b.levels[side][price]]

LEMMA EmptyMaps == Maps(EmptyBook)
BY DEF Maps, EmptyBook, NoLevels

LEMMA WithLevelMaps ==
  ASSUME NEW b, Maps(b), NEW s \in Sides, NEW after, NEW locations,
         NEW new, new = [price \in DOMAIN new |-> new[price]],
         after = [levels |-> [b.levels EXCEPT ![s] = new], locations |-> locations]
  PROVE  Maps(after)
<1>2. after.levels = [b.levels EXCEPT ![s] = new] /\ DOMAIN b.levels = Sides
  BY DEF Maps
<1>3. after.levels = [side \in Sides |-> after.levels[side]]
  BY <1>2
<1>4. \A side \in Sides : after.levels[side] = IF side = s THEN new ELSE b.levels[side]
  BY <1>2
<1>5. \A side \in Sides :
        after.levels[side] = [price \in DOMAIN after.levels[side] |-> after.levels[side][price]]
  BY <1>4 DEF Maps
<1>6. after = [levels |-> after.levels, locations |-> after.locations]
  OBVIOUS
<1> QED
  BY <1>3, <1>5, <1>6 DEF Maps

\* The best index of a side is that of the map book's best price.
BestMirrors(best, b, side) ==
  IF DOMAIN b.levels[side] = {} THEN best = None
  ELSE best \in Indexes /\ IsBest(b, side, min_price + best)

\* Arrays of the band's size, with the level of each price in its cell.
Cells(levels, b) ==
  /\ DOMAIN levels = Sides
  /\ \A side \in Sides : DOMAIN levels[side] = Indexes
  /\ \A side \in Sides : \A i \in Indexes :
       levels[side][i] = LevelAt(b, side, min_price + i)

Shaped(f) ==
  /\ DOMAIN f = {"levels", "locations", "best", "shares"}
  /\ DOMAIN f.best = Sides
  /\ DOMAIN f.shares = Sides

Mirrors(f, b) ==
  /\ Shaped(f)
  /\ Cells(f.levels, b)
  /\ f.locations = b.locations
  /\ \A side \in Sides : f.shares[side] = total_shares(b, side)
  /\ \A side \in Sides : BestMirrors(f.best[side], b, side)

\* A price of the band has its index, and an index its price.
LEMMA IndexOfPrice ==
  ASSUME NEW price \in Prices
  PROVE  /\ index_of(price) \in Indexes
         /\ min_price + index_of(price) = price
         /\ \A i \in Indexes : min_price + i = price => i = index_of(price)
<1>1. price \in min_price .. max_price
  BY BandAssumption
<1> QED
  BY <1>1, BandAssumption DEF index_of, Indexes

LEMMA EmptyMirrors == Mirrors(EmptyFlat, EmptyBook)
<1>1. \A side \in Sides : EmptyBook.levels[side] = NoLevels /\ DOMAIN NoLevels = {}
  BY DEF EmptyBook, NoLevels
<1>2. Shaped(EmptyFlat)
  BY DEF EmptyFlat, Shaped
<1>3. Cells(EmptyFlat.levels, EmptyBook)
  BY <1>1 DEF Cells, EmptyFlat, LevelAt
<1>4. EmptyFlat.locations = EmptyBook.locations
  BY DEF EmptyFlat, EmptyBook
<1>5. ASSUME NEW side \in Sides PROVE total_shares(EmptyBook, side) = 0
  <2> DEFINE f == Totals(EmptyBook, side)
  <2>1. DOMAIN f = {}
    BY <1>1 DEF Totals
  <2>2. total_shares(EmptyBook, side) = SumFunctionOnSet(f, DOMAIN f)
    BY DEF total_shares, Totals, SumFunction
  <2> HIDE DEF f
  <2> QED
    BY <2>1, <2>2, SumEmpty
<1>6. \A side \in Sides : BestMirrors(EmptyFlat.best[side], EmptyBook, side)
  BY <1>1 DEF BestMirrors, EmptyFlat
<1>7. \A side \in Sides : EmptyFlat.shares[side] = total_shares(EmptyBook, side)
  BY <1>5 DEF EmptyFlat
<1> QED
  BY <1>2, <1>3, <1>4, <1>6, <1>7 DEF Mirrors

(***************************************************************************)
(* What the invariant gives                                                *)
(***************************************************************************)

\* The cell of a price that the map has a level for is that level.
LEMMA CellOfPrice ==
  ASSUME NEW f, NEW b, Mirrors(f, b), WellTyped(b), NEW side \in Sides,
         NEW price \in DOMAIN b.levels[side]
  PROVE  f.levels[side][index_of(price)] = b.levels[side][price]
<1>1. price \in Prices
  BY DEF WellTyped
<1>2. index_of(price) \in Indexes /\ min_price + index_of(price) = price
  BY <1>1, IndexOfPrice
<1> QED
  BY <1>2 DEF Mirrors, Cells, LevelAt

\* A cell is empty exactly where the map has no level.
LEMMA UsedCells ==
  ASSUME NEW levels, NEW b, Cells(levels, b), Consistent(b),
         NEW side \in Sides, NEW i \in Indexes
  PROVE  /\ levels[side][i].queue # <<>> <=> min_price + i \in DOMAIN b.levels[side]
         /\ levels[side][i].price = min_price + i
         /\ levels[side][i].queue \in Seq(Order)
<1>1. levels[side][i] = LevelAt(b, side, min_price + i)
  BY DEF Cells
<1>2. CASE min_price + i \in DOMAIN b.levels[side]
  <2>1. LevelIndexed(b, side, min_price + i) /\ b.levels[side][min_price + i] \in Level
    BY <1>2 DEF Consistent, WellTyped, Agrees
  <2> QED
    BY <1>1, <1>2, <2>1 DEF LevelAt, LevelIndexed, Level
<1>3. CASE min_price + i \notin DOMAIN b.levels[side]
  <2>1. levels[side][i] = EmptyLevel(min_price + i)
    BY <1>1, <1>3 DEF LevelAt
  <2>2. <<>> \in Seq(Order)
    BY EmptySeq
  <2> QED
    BY <1>3, <2>1, <2>2 DEF EmptyLevel
<1> QED
  BY <1>2, <1>3

LEMMA MirrorsAsMap ==
  ASSUME NEW f, NEW b, Mirrors(f, b), Consistent(b), Maps(b)
  PROVE  AsMap(f) = b
<1> DEFINE used(side) == {i \in Indexes : f.levels[side][i].queue # <<>>}
           held(side) == [price \in {min_price + i : i \in used(side)} |->
                            f.levels[side][index_of(price)]]
<1>1. WellTyped(b)
  BY DEF Consistent
<1>2. ASSUME NEW side \in Sides
      PROVE  held(side) = b.levels[side]
  <2>1. {min_price + i : i \in used(side)} = DOMAIN b.levels[side]
    <3>1. ASSUME NEW i \in used(side) PROVE min_price + i \in DOMAIN b.levels[side]
      BY <3>1, UsedCells DEF Mirrors
    <3>2. ASSUME NEW price \in DOMAIN b.levels[side]
          PROVE  \E i \in used(side) : price = min_price + i
      <4>1. index_of(price) \in Indexes /\ min_price + index_of(price) = price
        BY <1>1, IndexOfPrice DEF WellTyped
      <4>2. f.levels[side][index_of(price)].queue # <<>>
        BY <4>1, UsedCells DEF Mirrors
      <4> QED
        BY <4>1, <4>2
    <3> QED
      BY <3>1, <3>2
  <2>2. \A price \in DOMAIN b.levels[side] :
          f.levels[side][index_of(price)] = b.levels[side][price]
    BY <1>1, CellOfPrice
  <2>3. b.levels[side] = [price \in DOMAIN b.levels[side] |-> b.levels[side][price]]
    BY DEF Maps
  <2>4. held(side) = [price \in DOMAIN b.levels[side] |-> f.levels[side][index_of(price)]]
    BY <2>1
  <2> QED
    BY <2>2, <2>3, <2>4
<1> HIDE DEF held
<1>3. [side \in Sides |-> held(side)] = b.levels
  <2>1. b.levels = [side \in Sides |-> b.levels[side]]
    BY DEF Maps
  <2> QED
    BY <1>2, <2>1
<1>4. AsMap(f) = [levels |-> [side \in Sides |-> held(side)], locations |-> f.locations]
  BY DEF AsMap, held
<1>5. b = [levels |-> b.levels, locations |-> b.locations] /\ f.locations = b.locations
  BY DEF Maps, Mirrors
<1> QED
  BY <1>3, <1>4, <1>5

LEMMA SharesOfSide ==
  ASSUME NEW b, Consistent(b), Counts(b), NEW side \in Sides
  PROVE  total_shares(b, side) \in Nat
<1> DEFINE S == DOMAIN b.levels[side]
           f == Totals(b, side)
<1>1. total_shares(b, side) = SumFunctionOnSet(f, S)
  BY DEF total_shares, Totals, SumFunction
<1>2. ASSUME NEW key \in S PROVE f[key] \in Nat
  <2>1. b.levels[side][key] \in Level /\ Exact(b.levels[side][key])
    BY DEF Consistent, WellTyped, Counts
  <2>2. b.levels[side][key].queue \in Seq(Order)
    BY <2>1 DEF Level
  <2>3. Shares(b.levels[side][key].queue) \in Nat
    BY <2>2, SharesNat
  <2> QED
    BY <2>1, <2>3 DEF Totals, Exact
<1>3. IsFiniteSet(S)
  BY DEF Counts
<1> HIDE DEF S, f
<1> QED
  BY <1>1, <1>2, <1>3, SumNat

LEMMA MirrorsAnswers ==
  ASSUME NEW f, NEW b, Mirrors(f, b), Consistent(b)
  PROVE  AnswersAs(f, b)
<1> SUFFICES ASSUME NEW side \in Sides
             PROVE  /\ f.best[side] = None <=> DOMAIN b.levels[side] = {}
                    /\ f.best[side] # None =>
                         LET best == best_price(f, side)
                         IN /\ IsBest(b, side, best)
                            /\ best_quantity(f, side) = quantity_at(b, side, best)
                            /\ best_order(f, side) = Head(b.levels[side][best].queue)
                    /\ f.shares[side] = total_shares(b, side)
  BY DEF AnswersAs
<1>1. BestMirrors(f.best[side], b, side) /\ f.shares[side] = total_shares(b, side)
  BY DEF Mirrors
<1>2. CASE DOMAIN b.levels[side] = {}
  BY <1>1, <1>2 DEF BestMirrors
<1>3. CASE DOMAIN b.levels[side] # {}
  <2>1. f.best[side] \in Indexes /\ IsBest(b, side, min_price + f.best[side])
    BY <1>1, <1>3 DEF BestMirrors
  <2>2. f.best[side] # None
    BY <2>1, BandAssumption DEF Indexes, None
  <2>3. f.levels[side][f.best[side]] = b.levels[side][min_price + f.best[side]]
    BY <2>1 DEF Mirrors, Cells, LevelAt, IsBest
  <2> QED
    BY <1>1, <1>3, <2>1, <2>2, <2>3
    DEF best_price, best_quantity, best_order, quantity_at, IsBest
<1> QED
  BY <1>2, <1>3

LEMMA MirrorsTyped ==
  ASSUME NEW b, Mirrors(flat, b), Consistent(b), Counts(b)
  PROVE  FlatTypeOK
<1>1. ASSUME NEW side \in Sides
      PROVE  /\ flat.best[side] \in Indexes \cup {None}
             /\ flat.shares[side] \in Nat
  BY SharesOfSide DEF Mirrors, BestMirrors
<1>2. \A side \in Sides : DOMAIN flat.levels[side] = Indexes
  BY DEF Mirrors, Cells
<1>3. \A side \in Sides : \A i \in Indexes :
         /\ flat.levels[side][i].price = min_price + i
         /\ flat.levels[side][i].queue \in Seq(Order)
  BY UsedCells DEF Mirrors
<1>4. /\ DOMAIN flat.locations \subseteq OrderIds
      /\ \A id \in DOMAIN flat.locations : flat.locations[id] \in Location
  BY DEF Mirrors, Consistent, WellTyped
<1> QED
  BY <1>1, <1>2, <1>3, <1>4 DEF FlatTypeOK

(***************************************************************************)
(* The operations                                                          *)
(***************************************************************************)

\* The level at any price after one level was put in place.
LEMMA LevelAtPut ==
  ASSUME NEW b, DOMAIN b.levels = Sides, NEW s \in Sides, NEW p, NEW new, NEW after,
         after.levels = WithLevel(b, s, p, new), NEW side \in Sides, NEW price
  PROVE  LevelAt(after, side, price) =
           IF side = s /\ price = p THEN new ELSE LevelAt(b, side, price)
BY DEF LevelAt, WithLevel, Put

\* Book `after` has level new at price p of side s, and is b everywhere else.
LevelChanged(after, b, s, p, new) ==
  \A side \in Sides : \A price :
    LevelAt(after, side, price) =
      IF side = s /\ price = p THEN new ELSE LevelAt(b, side, price)

CellPut(levels, s, i, new) == [levels EXCEPT ![s][i] = new]

\* One cell replaced in the array as in the map.
LEMMA CellReplaced ==
  ASSUME NEW f, NEW b, Mirrors(f, b), NEW s \in Sides, NEW p \in Prices, NEW new,
         NEW after, LevelChanged(after, b, s, p, new)
  PROVE  Cells(CellPut(f.levels, s, index_of(p), new), after)
<1> DEFINE levels == CellPut(f.levels, s, index_of(p), new)
<1>1. DOMAIN f.levels = Sides /\ \A side \in Sides : DOMAIN f.levels[side] = Indexes
  BY DEF Mirrors, Cells
<1>2. /\ index_of(p) \in Indexes /\ min_price + index_of(p) = p
      /\ \A i \in Indexes : min_price + i = p => i = index_of(p)
  BY IndexOfPrice
<1>3. \A side \in Sides : \A i \in Indexes :
        f.levels[side][i] = LevelAt(b, side, min_price + i)
  BY DEF Mirrors, Cells
<1>4. \A side \in Sides : \A i \in Indexes :
        levels[side][i] = IF side = s /\ i = index_of(p) THEN new ELSE f.levels[side][i]
  BY <1>1 DEF CellPut
<1>0. DOMAIN levels = Sides /\ \A side \in Sides : DOMAIN levels[side] = Indexes
  BY <1>1 DEF CellPut
<1> HIDE DEF levels
<1>5. \A side \in Sides : \A i \in Indexes :
        (side = s /\ i = index_of(p)) <=> (side = s /\ min_price + i = p)
  BY <1>2
<1>6. \A side \in Sides : \A i \in Indexes :
        levels[side][i] = LevelAt(after, side, min_price + i)
  BY <1>3, <1>4, <1>5 DEF LevelChanged
<1> QED
  BY <1>0, <1>6 DEF Cells, levels

\* insert: the order joins the same queue in both, and becomes the best index
\* exactly when no better price was there.
LEMMA InsertMirrors ==
  ASSUME NEW f, NEW b, Mirrors(f, b), Consistent(b), Counts(b),
         NEW o \in Order, ~contains(b, o.id)
  PROVE  Mirrors(insert(f, o), insert_order(b, o))
<1> DEFINE after == insert_order(b, o)
           g == insert(f, o)
           s == o.side
           p == o.price
           i == index_of(p)
           new == LevelAdd(LevelAt(b, s, p), o)
<1>1. s \in Sides /\ p \in Prices /\ WellTyped(b)
  BY DEF Order, Consistent
<1>2. i \in Indexes /\ min_price + i = p
  BY <1>1, IndexOfPrice
<1>3. DOMAIN f.levels = Sides /\ DOMAIN f.levels[s] = Indexes
  BY <1>1 DEF Mirrors, Cells
<1>4. f.levels[s][i] = LevelAt(b, s, p)
  BY <1>1, <1>2 DEF Mirrors, Cells
<1>5. g.levels = CellPut(f.levels, s, i, new)
  BY <1>1, <1>2, <1>3, <1>4 DEF insert, CellPut
<1>6. after.levels = WithLevel(b, s, p, new)
  BY DEF insert_order
<1>7. after.locations = Emplace(b.locations, o.id, [side |-> s, price |-> p])
  BY DEF insert_order
<1>8. g.locations = after.locations
  BY <1>7 DEF insert, Mirrors
<1>9. /\ g.shares = [f.shares EXCEPT ![s] = @ + o.quantity]
      /\ g.best = [f.best EXCEPT ![s] = IF Improves(s, i, @) THEN i ELSE @]
  BY DEF insert
<1> HIDE DEF after, g, new, i
<1>10. LevelChanged(after, b, s, p, new)
  BY <1>1, <1>6, LevelAtPut DEF WellTyped, LevelChanged
<1>11. Cells(g.levels, after)
  BY <1>1, <1>5, <1>10, CellReplaced DEF i
<1>12. \A side \in Sides : g.shares[side] = total_shares(after, side)
  <2>1. DOMAIN f.shares = Sides /\ \A side \in Sides : f.shares[side] = total_shares(b, side)
    BY DEF Mirrors, Shaped
  <2>2. /\ total_shares(after, s) = total_shares(b, s) + o.quantity
        /\ \A side \in Sides : side # s => total_shares(after, side) = total_shares(b, side)
    BY InsertShares DEF after
  <2> QED
    BY <1>1, <1>9, <2>1, <2>2
<1>13. \A side \in Sides : DOMAIN after.levels[side] =
         IF side = s THEN DOMAIN b.levels[side] \cup {p} ELSE DOMAIN b.levels[side]
  BY InsertConsistent DEF after
<1>14. DOMAIN f.best = Sides /\ \A side \in Sides : BestMirrors(f.best[side], b, side)
  BY DEF Mirrors, Shaped
<1>15. ASSUME NEW side \in Sides, side # s
       PROVE  BestMirrors(g.best[side], after, side)
  <2>1. g.best[side] = f.best[side] /\ DOMAIN after.levels[side] = DOMAIN b.levels[side]
    BY <1>9, <1>13, <1>14, <1>15
  <2> QED
    BY <1>14, <2>1 DEF BestMirrors, IsBest
<1>16. BestMirrors(g.best[s], after, s)
  <2> DEFINE was == f.best[s]
  <2>1. g.best[s] = IF Improves(s, i, was) THEN i ELSE was
    BY <1>1, <1>9, <1>14
  <2>2. DOMAIN after.levels[s] = DOMAIN b.levels[s] \cup {p}
    BY <1>1, <1>13
  <2>3. DOMAIN b.levels[s] \subseteq Int /\ p \in Int /\ i \in Nat /\ min_price \in Int
    <3>1. DOMAIN b.levels[s] \subseteq Prices
      BY <1>1 DEF WellTyped
    <3>2. i \in Nat /\ min_price \in Int
      BY <1>2, BandAssumption DEF Indexes
    <3> QED
      BY <1>1, <3>1, <3>2, PricesAssumption
  <2>4. CASE DOMAIN b.levels[s] = {}
    <3>1. was = None
      BY <1>1, <1>14, <2>4 DEF BestMirrors
    <3>2. g.best[s] = i
      BY <1>1, <2>1, <2>3, <3>1 DEF Improves, None, Sides
    <3> QED
      BY <1>2, <2>2, <2>3, <2>4, <3>2 DEF BestMirrors, IsBest, Better
  <2>5. CASE DOMAIN b.levels[s] # {}
    <3>1. was \in Indexes /\ IsBest(b, s, min_price + was)
      BY <1>1, <1>14, <2>5 DEF BestMirrors
    <3> HIDE DEF was
    <3>2. was \in Nat
      BY <3>1, BandAssumption DEF Indexes
    <3>3. Improves(s, i, was) <=> Better(s, p, min_price + was)
      BY <1>1, <1>2, <2>3, <3>2 DEF Improves, Better, None, Sides
    <3>4. CASE Improves(s, i, was)
      <4>1. IsBest(after, s, p)
        BY <2>2, <2>3, <3>1, <3>2, <3>3, <3>4 DEF IsBest, Better
      <4> QED
        BY <1>2, <2>1, <2>2, <3>4, <4>1 DEF BestMirrors
    <3>5. CASE ~Improves(s, i, was)
      <4>1. IsBest(after, s, min_price + was)
        BY <2>2, <3>1, <3>3, <3>5 DEF IsBest
      <4> QED
        BY <2>1, <2>2, <3>1, <3>5, <4>1 DEF BestMirrors
    <3> QED
      BY <3>4, <3>5
  <2> QED
    BY <2>4, <2>5
<1>17. DOMAIN g.best = Sides /\ DOMAIN g.shares = Sides
  BY <1>9 DEF Mirrors, Shaped
<1>18. Shaped(g)
  <2>1. DOMAIN g = {"levels", "locations", "best", "shares"}
    BY DEF insert, g
  <2> QED
    BY <1>17, <2>1 DEF Shaped
<1>19. \A side \in Sides : BestMirrors(g.best[side], after, side)
  BY <1>15, <1>16
<1> QED
  BY <1>8, <1>11, <1>12, <1>18, <1>19 DEF Mirrors, g, after

\* cancel_order: the order leaves the same queue in both. A level that empties
\* is erased in the map and is an empty cell in the array.
LEMMA CancelLevels ==
  ASSUME NEW b, Consistent(b), Counts(b), NEW id \in DOMAIN b.locations,
         NEW s, s = b.locations[id].side, NEW p, p = b.locations[id].price,
         NEW new, new = LevelCancel(b.levels[s][p], id),
         NEW after, after = cancel_order(b, id)
  PROVE  /\ LevelChanged(after, b, s, p, new)
         /\ \A side \in Sides : DOMAIN after.levels[side] =
              IF side = s /\ new.queue = <<>> THEN DOMAIN b.levels[side] \ {p}
              ELSE DOMAIN b.levels[side]
<1> DEFINE old == b.levels[s][p]
<1>1. /\ s \in Sides /\ p \in DOMAIN b.levels[s]
      /\ old \in Level /\ HasOrder(old, id) /\ Exact(old) /\ old.price = p
      /\ DOMAIN b.levels = Sides
  <2>1. /\ s \in Sides /\ p \in DOMAIN b.levels[s]
        /\ old \in Level /\ HasOrder(old, id) /\ LevelIndexed(b, s, p)
    BY FindResting DEF Location
  <2>2. old.price = p
    BY <2>1 DEF LevelIndexed
  <2>3. Exact(old)
    BY <2>1 DEF Counts
  <2>4. DOMAIN b.levels = Sides
    BY DEF Consistent, WellTyped
  <2> QED
    BY <2>1, <2>2, <2>3, <2>4
<1>2. after.levels = IF new.queue = <<>>
                     THEN [b.levels EXCEPT ![s] = Without(@, p)]
                     ELSE WithLevel(b, s, p, new)
  BY DEF cancel_order, contains, LeftLevel
<1> HIDE DEF old
<1>3. new \in Level /\ Exact(new) /\ new.price = p
  BY <1>1, LevelCancelQueue, LevelCancelExact DEF old
<1>4. CASE new.queue = <<>>
  <2>1. new.total_quantity = 0
    <3>1. Shares(<<>>) = 0
      BY EmptyLevelExact DEF Exact, EmptyLevel
    <3> QED
      BY <1>3, <1>4, <3>1 DEF Exact
  <2>2. new = EmptyLevel(p)
    BY <1>3, <1>4, <2>1 DEF Level, EmptyLevel
  <2>3. /\ \A side \in Sides : side # s => after.levels[side] = b.levels[side]
        /\ after.levels[s] = Without(b.levels[s], p)
    BY <1>1, <1>2, <1>4
  <2>4. DOMAIN after.levels[s] = DOMAIN b.levels[s] \ {p}
    BY <2>3 DEF Without
  <2>5. \A price \in DOMAIN b.levels[s] \ {p} : after.levels[s][price] = b.levels[s][price]
    BY <2>3 DEF Without
  <2>6. LevelChanged(after, b, s, p, new)
    BY <1>1, <2>2, <2>3, <2>4, <2>5 DEF LevelChanged, LevelAt
  <2> QED
    BY <1>4, <2>3, <2>4, <2>6
<1>5. CASE new.queue # <<>>
  <2>0. after.levels = WithLevel(b, s, p, new)
    BY <1>2, <1>5
  <2>1. LevelChanged(after, b, s, p, new)
    BY <1>1, <2>0, LevelAtPut DEF LevelChanged
  <2>2. \A side \in Sides : DOMAIN after.levels[side] = DOMAIN b.levels[side]
    <3>1. \A side \in Sides : side # s => after.levels[side] = b.levels[side]
      BY <1>1, <2>0 DEF WithLevel
    <3>2. after.levels[s] = Put(b.levels[s], p, new)
      BY <1>1, <2>0 DEF WithLevel
    <3>3. DOMAIN after.levels[s] = DOMAIN b.levels[s] \cup {p}
      BY <3>2 DEF Put
    <3>4. p \in DOMAIN b.levels[s]
      BY <1>1
    <3> QED
      BY <3>1, <3>3, <3>4
  <2> QED
    BY <1>5, <2>1, <2>2
<1> QED
  BY <1>4, <1>5

\* A set of indexes has a first and a last member.
LEMMA FirstOfIndexes ==
  ASSUME NEW S \in SUBSET Indexes, S # {}
  PROVE  Min(S) \in S /\ \A i \in S : Min(S) <= i
<1>1. S \in SUBSET Nat
  BY BandAssumption DEF Indexes
<1>2. \E n \in S : \A i \in S : n <= i
  BY <1>1, LeastNatural
<1> QED
  BY <1>2 DEF Min

LEMMA LastOfIndexes ==
  ASSUME NEW S \in SUBSET Indexes, S # {}
  PROVE  Max(S) \in S /\ \A i \in S : i <= Max(S)
<1> DEFINE top == max_price - min_price
           T == {top - i : i \in S}
<1>1. top \in Nat /\ \A i \in S : i \in Nat /\ i <= top
  BY BandAssumption DEF Indexes
<1> HIDE DEF top
<1>2. T \in SUBSET Nat /\ T # {}
  BY <1>1
<1>3. PICK m \in T : \A n \in T : m <= n
  BY <1>2, LeastNatural
<1>4. PICK last \in S : m = top - last
  BY <1>3
<1>5. \A i \in S : i <= last
  <2> SUFFICES ASSUME NEW i \in S PROVE i <= last
    OBVIOUS
  <2>1. m <= top - i
    BY <1>3
  <2> QED
    BY <1>1, <1>4, <2>1
<1>6. \E x \in S : \A y \in S : x >= y
  BY <1>1, <1>5
<1>7. Max(S) \in S /\ \A y \in S : Max(S) >= y
  BY <1>6 DEF Max
<1> QED
  BY <1>1, <1>7

\* The search finds the best index when no order rests outside its stretch.
LEMMA RescanMirrors ==
  ASSUME NEW levels, NEW b, Cells(levels, b), Consistent(b),
         NEW s \in Sides, NEW from, Behind(s, from) \subseteq Indexes,
         \A price \in DOMAIN b.levels[s] : index_of(price) \in Behind(s, from)
  PROVE  BestMirrors(rescan(levels[s], s, from), b, s)
<1> DEFINE found == {i \in Behind(s, from) : levels[s][i].queue # <<>>}
           best == rescan(levels[s], s, from)
<1>1. best = IF found = {} THEN None ELSE IF s = "Buy" THEN Max(found) ELSE Min(found)
  BY DEF rescan
<1>2. found \in SUBSET Indexes
  OBVIOUS
<1>3. \A i \in found : min_price + i \in DOMAIN b.levels[s]
  BY UsedCells
<1>4. \A price \in DOMAIN b.levels[s] :
        price \in Prices /\ min_price + index_of(price) = price
  BY IndexOfPrice DEF Consistent, WellTyped
<1>5. \A price \in DOMAIN b.levels[s] : index_of(price) \in found
  BY <1>4, UsedCells
<1> HIDE DEF found, best
<1>6. CASE DOMAIN b.levels[s] = {}
  <2>1. found = {}
    BY <1>3, <1>6
  <2> QED
    BY <1>1, <1>6, <2>1 DEF BestMirrors, best
<1>7. CASE DOMAIN b.levels[s] # {}
  <2>1. found # {}
    BY <1>5, <1>7
  <2>2. best \in found /\ \A i \in found : IF s = "Buy" THEN i <= best ELSE best <= i
    BY <1>1, <1>2, <2>1, FirstOfIndexes, LastOfIndexes
  <2>3. best \in Indexes /\ min_price + best \in DOMAIN b.levels[s]
    BY <1>2, <1>3, <2>2
  <2>4. ASSUME NEW other \in DOMAIN b.levels[s]
        PROVE  ~Better(s, other, min_price + best)
    <3>1. min_price + index_of(other) = other /\ index_of(other) \in found
      BY <1>4, <1>5
    <3>2. index_of(other) \in Int /\ best \in Int /\ min_price \in Int
      BY <1>2, <2>3, <3>1, BandAssumption DEF Indexes
    <3>3. IF s = "Buy" THEN index_of(other) <= best ELSE best <= index_of(other)
      BY <2>2, <3>1
    <3> QED
      BY <3>1, <3>2, <3>3 DEF Better
  <2> QED
    BY <1>7, <2>3, <2>4 DEF BestMirrors, IsBest, best
<1> QED
  BY <1>6, <1>7

\* cancel_order: the best index moves only when its own level empties, and
\* then to the next level that holds an order.
LEMMA CancelMirrors ==
  ASSUME NEW f, NEW b, Mirrors(f, b), Consistent(b), Counts(b),
         NEW id \in DOMAIN b.locations
  PROVE  Mirrors(FlatCancel(f, id), cancel_order(b, id))
<1> DEFINE s == b.locations[id].side
           p == b.locations[id].price
           i == index_of(p)
           old == b.levels[s][p]
           new == LevelCancel(old, id)
           after == cancel_order(b, id)
           g == FlatCancel(f, id)
           from == IF s = "Buy" THEN i - 1 ELSE i + 1
           mine == find(b, id)
<1>1. s \in Sides /\ p \in DOMAIN b.levels[s] /\ p \in Prices
  BY WhereQueued
<1>2. WellTyped(b) /\ Consistent(after)
  BY CancelConsistent DEF Consistent
<1>3. i \in Indexes /\ min_price + i = p
  BY <1>1, IndexOfPrice
<1>4. f.levels[s][i] = old
  BY <1>1, <1>2, CellOfPrice
<1>5. DOMAIN f.levels = Sides /\ DOMAIN f.levels[s] = Indexes
  BY <1>1 DEF Mirrors, Cells
<1>6. f.locations = b.locations /\ contains(f, id)
  BY DEF Mirrors, contains
<1>7. /\ g.levels = [f.levels EXCEPT ![s][i] = LevelCancel(f.levels[s][i], id)]
      /\ g.locations = Without(b.locations, id)
      /\ g.shares = [f.shares EXCEPT
                       ![s] = @ - FindInLevel(f.levels[s][i], id).quantity]
      /\ g.best = [f.best EXCEPT
                     ![s] = IF LevelCancel(f.levels[s][i], id).queue = <<>> /\ i = @
                            THEN rescan(g.levels[s], s, from) ELSE @]
  BY <1>6 DEF FlatCancel
<1>8. FindInLevel(old, id).quantity = mine.quantity
  BY DEF find
<1> HIDE DEF g, after, i, old, from, s, p, mine
<1>9. /\ g.levels = CellPut(f.levels, s, i, new)
      /\ g.shares = [f.shares EXCEPT ![s] = @ - mine.quantity]
      /\ g.best = [f.best EXCEPT ![s] = IF new.queue = <<>> /\ i = @
                                         THEN rescan(g.levels[s], s, from) ELSE @]
  BY <1>4, <1>7, <1>8 DEF CellPut
<1>10. /\ LevelChanged(after, b, s, p, new)
       /\ \A side \in Sides : DOMAIN after.levels[side] =
            IF side = s /\ new.queue = <<>> THEN DOMAIN b.levels[side] \ {p}
            ELSE DOMAIN b.levels[side]
  BY CancelLevels DEF after, old, s, p
<1> HIDE DEF new
<1>11. Cells(g.levels, after)
  BY <1>1, <1>9, <1>10, CellReplaced DEF i
<1>12. g.locations = after.locations
  BY <1>7 DEF after, cancel_order, contains
<1>13. \A side \in Sides : g.shares[side] = total_shares(after, side)
  <2>1. DOMAIN f.shares = Sides /\ \A side \in Sides : f.shares[side] = total_shares(b, side)
    BY DEF Mirrors, Shaped
  <2>2. /\ total_shares(after, s) = total_shares(b, s) - mine.quantity
        /\ \A side \in Sides : side # s => total_shares(after, side) = total_shares(b, side)
    BY CancelShares DEF after, mine, s
  <2> QED
    BY <1>1, <1>9, <2>1, <2>2
<1>14. DOMAIN f.best = Sides /\ \A side \in Sides : BestMirrors(f.best[side], b, side)
  BY DEF Mirrors, Shaped
<1>15. ASSUME NEW side \in Sides, side # s
       PROVE  BestMirrors(g.best[side], after, side)
  <2>1. g.best[side] = f.best[side] /\ DOMAIN after.levels[side] = DOMAIN b.levels[side]
    BY <1>9, <1>10, <1>14, <1>15
  <2> QED
    BY <1>14, <2>1 DEF BestMirrors, IsBest
<1>16. BestMirrors(g.best[s], after, s)
  <2> DEFINE was == f.best[s]
  <2>1. g.best[s] = IF new.queue = <<>> /\ i = was THEN rescan(g.levels[s], s, from) ELSE was
    BY <1>1, <1>9, <1>14
  <2>2. was \in Indexes /\ IsBest(b, s, min_price + was)
    BY <1>1, <1>14 DEF BestMirrors
  <2>3. DOMAIN after.levels[s] =
          IF new.queue = <<>> THEN DOMAIN b.levels[s] \ {p} ELSE DOMAIN b.levels[s]
    BY <1>1, <1>10
  <2> HIDE DEF was
  <2>4. CASE new.queue # <<>>
    BY <1>1, <2>1, <2>2, <2>3, <2>4 DEF BestMirrors, IsBest
  <2>5. CASE new.queue = <<>> /\ i # was
    <3>1. min_price + was # p
      BY <1>3, <2>2, <2>5, BandAssumption DEF Indexes
    <3>2. g.best[s] = was /\ DOMAIN after.levels[s] = DOMAIN b.levels[s] \ {p}
      BY <2>1, <2>3, <2>5
    <3> QED
      BY <2>2, <3>1, <3>2 DEF BestMirrors, IsBest
  <2>6. CASE new.queue = <<>> /\ i = was
    <3>1. g.best[s] = rescan(g.levels[s], s, from)
      BY <2>1, <2>6
    <3>2. Behind(s, from) \subseteq Indexes
      BY <1>3, BandAssumption DEF Behind, Indexes, from
    <3>3. ASSUME NEW price \in DOMAIN after.levels[s]
          PROVE  index_of(price) \in Behind(s, from)
      <4>1. price \in DOMAIN b.levels[s] /\ price # p
        BY <2>3, <2>6, <3>3
      <4>2. price \in Prices /\ ~Better(s, price, p)
        BY <1>1, <1>2, <1>3, <2>2, <2>6, <4>1 DEF IsBest, WellTyped
      <4>3. index_of(price) \in Indexes /\ min_price + index_of(price) = price
        BY <4>2, IndexOfPrice
      <4>4. IF s = "Buy" THEN index_of(price) < i ELSE index_of(price) > i
        BY <1>3, <4>1, <4>2, <4>3, BandAssumption DEF Better, Indexes
      <4> QED
        BY <1>3, <4>3, <4>4, BandAssumption DEF Behind, Indexes, from
    <3> QED
      BY <1>1, <1>2, <1>11, <3>1, <3>2, <3>3, RescanMirrors
  <2> QED
    BY <2>4, <2>5, <2>6
<1>17. Shaped(g)
  <2>1. DOMAIN g = {"levels", "locations", "best", "shares"}
    BY <1>6 DEF FlatCancel, g
  <2> QED
    BY <1>9, <2>1 DEF Mirrors, Shaped
<1>18. \A side \in Sides : BestMirrors(g.best[side], after, side)
  BY <1>15, <1>16
<1> QED
  BY <1>11, <1>12, <1>13, <1>17, <1>18 DEF Mirrors, g, after

\* The in-place branch of modify_order: no level empties and no best moves.
LEMMA ReducedMirrors ==
  ASSUME NEW f, NEW b, Mirrors(f, b), Consistent(b), Counts(b),
         NEW id \in DOMAIN b.locations,
         NEW new_quantity \in Nat \ {0}, new_quantity <= find(b, id).quantity
  PROVE  Mirrors(FlatReduced(f, id, new_quantity), Reduced(b, id, new_quantity))
<1> DEFINE s == b.locations[id].side
           p == b.locations[id].price
           i == index_of(p)
           old == b.levels[s][p]
           new == LevelReduce(old, id, new_quantity)
           after == Reduced(b, id, new_quantity)
           g == FlatReduced(f, id, new_quantity)
           mine == find(b, id)
<1>1. s \in Sides /\ p \in DOMAIN b.levels[s] /\ p \in Prices
  BY WhereQueued
<1>2. WellTyped(b) /\ DOMAIN b.levels = Sides
  BY DEF Consistent, WellTyped
<1>3. f.levels[s][i] = old
  BY <1>1, <1>2, CellOfPrice
<1>4. f.locations = b.locations /\ DOMAIN f = {"levels", "locations", "best", "shares"}
  BY DEF Mirrors, Shaped
<1>5. /\ g.levels = [f.levels EXCEPT ![s][i] = LevelReduce(f.levels[s][i], id, new_quantity)]
      /\ g.shares = [f.shares EXCEPT
                       ![s] = @ - (FindInLevel(f.levels[s][i], id).quantity - new_quantity)]
      /\ g.best = f.best
      /\ g.locations = f.locations
      /\ DOMAIN g = DOMAIN f
  BY <1>3, <1>4 DEF FlatReduced
<1>6. FindInLevel(old, id).quantity = mine.quantity
  BY DEF find
<1>7. after.levels = WithLevel(b, s, p, new) /\ after.locations = b.locations
  BY DEF Reduced
<1> HIDE DEF g, after, i, old, s, p, mine
<1>8. /\ g.levels = CellPut(f.levels, s, i, new)
      /\ g.shares = [f.shares EXCEPT ![s] = @ - (mine.quantity - new_quantity)]
  BY <1>3, <1>5, <1>6 DEF CellPut
<1> HIDE DEF new
<1>9. LevelChanged(after, b, s, p, new)
  BY <1>1, <1>2, <1>7, LevelAtPut DEF LevelChanged
<1>10. Cells(g.levels, after)
  BY <1>1, <1>8, <1>9, CellReplaced DEF i
<1>11. \A side \in Sides : g.shares[side] = total_shares(after, side)
  <2>1. DOMAIN f.shares = Sides /\ \A side \in Sides : f.shares[side] = total_shares(b, side)
    BY DEF Mirrors, Shaped
  <2>2. /\ total_shares(after, s) = total_shares(b, s) - (mine.quantity - new_quantity)
        /\ \A side \in Sides : side # s => total_shares(after, side) = total_shares(b, side)
    BY ReducedShares DEF after, mine, s
  <2> QED
    BY <1>1, <1>8, <2>1, <2>2
<1>12. \A side \in Sides : BestMirrors(g.best[side], after, side)
  <2>1. \A side \in Sides : DOMAIN after.levels[side] = DOMAIN b.levels[side]
    BY ReducedConsistent DEF after
  <2>2. \A side \in Sides : BestMirrors(f.best[side], b, side)
    BY DEF Mirrors
  <2> QED
    BY <1>5, <2>1, <2>2 DEF BestMirrors, IsBest
<1>13. Shaped(g)
  BY <1>4, <1>5, <1>8 DEF Mirrors, Shaped
<1> QED
  BY <1>4, <1>5, <1>7, <1>10, <1>11, <1>12, <1>13 DEF Mirrors, g, after

LEMMA ModifyMirrors ==
  ASSUME NEW f, NEW b, Mirrors(f, b), Consistent(b), Counts(b), NEW id,
         NEW new_price \in Prices, NEW new_quantity \in Int
  PROVE  Mirrors(FlatModify(f, id, new_price, new_quantity),
                 modify_order(b, id, new_price, new_quantity))
<1>1. f.locations = b.locations /\ (contains(f, id) <=> contains(b, id))
  BY DEF Mirrors, contains
<1>2. CASE ~contains(b, id) \/ new_quantity <= 0
  BY <1>1, <1>2 DEF FlatModify, modify_order
<1>3. CASE contains(b, id) /\ ~(new_quantity <= 0)
  <2> DEFINE loc == b.locations[id]
             mine == find(b, id)
             small == new_price = loc.price /\ new_quantity <= mine.quantity
             moved == Repriced(mine, new_price, new_quantity)
  <2>1. id \in DOMAIN b.locations /\ new_quantity \in Nat \ {0} /\ WellTyped(b)
    BY <1>3 DEF contains, Consistent
  <2>2. loc.side \in Sides /\ loc.price \in DOMAIN b.levels[loc.side]
    BY <2>1, WhereQueued
  <2>3. f.levels[loc.side][index_of(loc.price)] = b.levels[loc.side][loc.price]
    BY <2>1, <2>2, CellOfPrice
  <2>4. FindInLevel(f.levels[loc.side][index_of(loc.price)], id) = mine
    BY <2>3 DEF find
  <2>5. mine \in Order /\ mine.id = id
    BY <2>1, FindResting
  <2>6. FlatModify(f, id, new_price, new_quantity) =
          IF small THEN FlatReduced(f, id, new_quantity)
          ELSE insert(FlatCancel(f, id), moved)
    BY <1>1, <1>3, <2>4 DEF FlatModify
  <2>7. modify_order(b, id, new_price, new_quantity) =
          IF small THEN Reduced(b, id, new_quantity)
          ELSE insert_order(cancel_order(b, id), moved)
    BY <1>3 DEF modify_order
  <2>8. moved \in Order /\ moved.id = id
    BY <2>1, <2>5 DEF Repriced, Order
  <2>9. CASE small
    <3>1. Mirrors(FlatReduced(f, id, new_quantity), Reduced(b, id, new_quantity))
      BY <2>1, <2>9, ReducedMirrors
    <3> QED
      BY <2>6, <2>7, <2>9, <3>1
  <2>10. CASE ~small
    <3> DEFINE left == cancel_order(b, id)
               gone == FlatCancel(f, id)
    <3> HIDE DEF moved, mine
    <3>1. Mirrors(gone, left) /\ Counts(left)
      BY <2>1, CancelMirrors, CancelCounts
    <3>2. Consistent(left) /\ DOMAIN left.locations = DOMAIN b.locations \ {id}
      BY <2>1, CancelConsistent
    <3>3. ~contains(left, moved.id)
      BY <2>8, <3>2 DEF contains
    <3> HIDE DEF left, gone
    <3>4. Mirrors(insert(gone, moved), insert_order(left, moved))
      BY <2>8, <3>1, <3>2, <3>3, InsertMirrors
    <3> QED
      BY <2>6, <2>7, <2>10, <3>4 DEF left, gone
  <2> QED
    BY <2>9, <2>10
<1> QED
  BY <1>2, <1>3

\* The map book stays a record of maps.
LEMMA InsertMaps ==
  ASSUME NEW b, Maps(b), NEW o \in Order
  PROVE  Maps(insert_order(b, o))
<1> DEFINE s == o.side
           held == LevelAdd(LevelAt(b, s, o.price), o)
           new == Put(b.levels[s], o.price, held)
           locations == Emplace(b.locations, o.id, [side |-> s, price |-> o.price])
<1>1. s \in Sides /\ DOMAIN b.levels = Sides
  BY DEF Order, Maps
<1>2. insert_order(b, o) =
        [levels |-> [b.levels EXCEPT ![s] = new], locations |-> locations]
  BY DEF insert_order, WithLevel
<1> HIDE DEF held, s, locations
<1>3. new = [price \in DOMAIN new |-> new[price]]
  BY DEF Put
<1> HIDE DEF new
<1> QED
  BY <1>1, <1>2, <1>3, WithLevelMaps

LEMMA CancelMaps ==
  ASSUME NEW b, Maps(b), Consistent(b), NEW id \in DOMAIN b.locations
  PROVE  Maps(cancel_order(b, id))
<1> DEFINE s == b.locations[id].side
           p == b.locations[id].price
           new == IF LeftLevel(b, id).queue = <<>> THEN Without(b.levels[s], p)
                  ELSE Put(b.levels[s], p, LeftLevel(b, id))
           locations == Without(b.locations, id)
<1>1. s \in Sides
  BY WhereQueued
<1>2. cancel_order(b, id) =
        [levels |-> [b.levels EXCEPT ![s] = new], locations |-> locations]
  BY DEF cancel_order, contains, WithLevel
<1> HIDE DEF s, p, locations
<1>3. new = [price \in DOMAIN new |-> new[price]]
  BY DEF Put, Without
<1> HIDE DEF new
<1> QED
  BY <1>1, <1>2, <1>3, WithLevelMaps

LEMMA ReducedMaps ==
  ASSUME NEW b, Maps(b), Consistent(b), NEW id \in DOMAIN b.locations, NEW new_quantity
  PROVE  Maps(Reduced(b, id, new_quantity))
<1> DEFINE s == b.locations[id].side
           p == b.locations[id].price
           held == LevelReduce(b.levels[s][p], id, new_quantity)
           new == Put(b.levels[s], p, held)
           locations == b.locations
<1>1. s \in Sides
  BY WhereQueued
<1>2. Reduced(b, id, new_quantity) =
        [levels |-> [b.levels EXCEPT ![s] = new], locations |-> locations]
  BY DEF Reduced, WithLevel
<1> HIDE DEF s, p, held, locations
<1>3. new = [price \in DOMAIN new |-> new[price]]
  BY DEF Put
<1> HIDE DEF new
<1> QED
  BY <1>1, <1>2, <1>3, WithLevelMaps

LEMMA ModifyMaps ==
  ASSUME NEW b, Maps(b), Consistent(b), NEW id, NEW new_price \in Prices,
         NEW new_quantity \in Int
  PROVE  Maps(modify_order(b, id, new_price, new_quantity))
<1>1. CASE ~contains(b, id) \/ new_quantity <= 0
  BY <1>1 DEF modify_order
<1>2. CASE contains(b, id) /\ ~(new_quantity <= 0)
  <2> DEFINE moved == Repriced(find(b, id), new_price, new_quantity)
             small == new_price = b.locations[id].price /\ new_quantity <= find(b, id).quantity
  <2>1. id \in DOMAIN b.locations
    BY <1>2 DEF contains
  <2>2. modify_order(b, id, new_price, new_quantity) =
          IF small THEN Reduced(b, id, new_quantity)
          ELSE insert_order(cancel_order(b, id), moved)
    BY <1>2 DEF modify_order
  <2>3. moved \in Order
    BY <1>2, <2>1, FindResting DEF Repriced, Order
  <2> HIDE DEF moved, small
  <2>4. Maps(Reduced(b, id, new_quantity))
    BY <2>1, ReducedMaps
  <2>5. Maps(insert_order(cancel_order(b, id), moved))
    BY <2>1, <2>3, CancelMaps, InsertMaps
  <2> QED
    BY <2>2, <2>4, <2>5
<1> QED
  BY <1>1, <1>2

(***************************************************************************)
(* The two books together                                                  *)
(***************************************************************************)

\* What every state of the pair satisfies.
PairInv ==
  /\ Consistent(book)
  /\ Counts(book)
  /\ Maps(book)
  /\ Mirrors(flat, book)

LEMMA PairStep ==
  ASSUME PairInv, [PairNext]_<<book, flat>>
  PROVE  PairInv'
<1>1. CASE UNCHANGED <<book, flat>>
  BY <1>1 DEF PairInv
<1>2. ASSUME NEW o \in Order, AddToBoth(o)
      PROVE  PairInv'
  <2>1. /\ ~contains(book, o.id)
        /\ book' = insert_order(book, o)
        /\ flat' = insert(flat, o)
    BY <1>2 DEF AddToBoth, add_limit_order, AddFlat
  <2>2. /\ Consistent(insert_order(book, o))
        /\ Counts(insert_order(book, o))
        /\ Maps(insert_order(book, o))
        /\ Mirrors(insert(flat, o), insert_order(book, o))
    BY <2>1, InsertConsistent, InsertCounts, InsertMaps, InsertMirrors DEF PairInv
  <2> QED
    BY <2>1, <2>2 DEF PairInv
<1>3. ASSUME NEW id \in OrderIds, CancelInBoth(id)
      PROVE  PairInv'
  <2>1. book' = cancel_order(book, id) /\ flat' = FlatCancel(flat, id)
    BY <1>3 DEF CancelInBoth, Cancel, CancelFlat
  <2>2. CASE id \in DOMAIN book.locations
    <3>1. /\ Consistent(cancel_order(book, id))
          /\ Counts(cancel_order(book, id))
          /\ Maps(cancel_order(book, id))
          /\ Mirrors(FlatCancel(flat, id), cancel_order(book, id))
      BY <2>2, CancelConsistent, CancelCounts, CancelMaps, CancelMirrors DEF PairInv
    <3> QED
      BY <2>1, <3>1 DEF PairInv
  <2>3. CASE id \notin DOMAIN book.locations
    <3>1. ~contains(book, id) /\ ~contains(flat, id)
      BY <2>3 DEF PairInv, Mirrors, contains
    <3>2. book' = book /\ flat' = flat
      BY <2>1, <3>1 DEF cancel_order, FlatCancel
    <3> QED
      BY <3>2 DEF PairInv
  <2> QED
    BY <2>2, <2>3
<1>4. ASSUME NEW id \in OrderIds, NEW new_price \in Prices,
             NEW new_quantity \in ModifySizes, ModifyInBoth(id, new_price, new_quantity)
      PROVE  PairInv'
  <2>1. /\ book' = modify_order(book, id, new_price, new_quantity)
        /\ flat' = FlatModify(flat, id, new_price, new_quantity)
    BY <1>4 DEF ModifyInBoth, Modify, ModifyFlat
  <2>2. new_quantity \in Int
    BY QuantitiesAssumption DEF ModifySizes
  <2>3. /\ Consistent(modify_order(book, id, new_price, new_quantity))
        /\ Counts(modify_order(book, id, new_price, new_quantity))
        /\ Maps(modify_order(book, id, new_price, new_quantity))
        /\ Mirrors(FlatModify(flat, id, new_price, new_quantity),
                   modify_order(book, id, new_price, new_quantity))
    BY <2>2, ModifyConsistent, ModifyCounts, ModifyMaps, ModifyMirrors DEF PairInv
  <2> QED
    BY <2>1, <2>3 DEF PairInv
<1>5. ASSUME NEW id \in OrderIds, NEW side \in Sides, NEW price \in Prices,
             NEW quantity \in Quantities
      PROVE  [id |-> id, side |-> side, price |-> price, quantity |-> quantity] \in Order
  BY QuantitiesAssumption DEF Order
<1> QED
  BY <1>1, <1>2, <1>3, <1>4, <1>5 DEF PairNext

\* Whatever calls are made on both books, the array book holds the maps of
\* the other and answers as it does: its best index is right although it is
\* only searched again when the best level empties.
THEOREM ArrayBookIsTheMapBook == PairSpec => []SameBooks
<1>1. PairInit => PairInv
  BY EmptyConsistent, EmptyCounts, EmptyMaps, EmptyMirrors
  DEF PairInit, Init, FlatInit, PairInv
<1>2. PairInv /\ [PairNext]_<<book, flat>> => PairInv'
  BY PairStep
<1>3. PairInv => SameBooks
  BY MirrorsAsMap, MirrorsAnswers, MirrorsTyped DEF PairInv, SameBooks
<1> QED
  BY <1>1, <1>2, <1>3, PTL DEF PairSpec

(***************************************************************************)
(* The benchmarks                                                          *)
(*                                                                         *)
(* The stream is made without a look at any book, so that what it can name *)
(* and what rests are related by what the operations do to both.  The      *)
(* invariant says how, in the middle of a match as well: an order that is  *)
(* being matched is out of the book and back in it only if it is in the    *)
(* vector.  In the second benchmark the two agree but for the operation    *)
(* that has been made and not yet run, and the books are a pair as above.  *)
(***************************************************************************)

\* The ids that the stream can still name: those in the vector, and that of a
\* cancel that has not been run.
Reach == Stream!Live \cup (IF op.kind = "Cancel" THEN {op.id} ELSE {})

\* The vector.
LivePart ==
  /\ with_market \in BOOLEAN
  /\ live \in Seq(Nat)
  /\ \A j, k \in DOMAIN live : live[j] = live[k] => j = k
  /\ next_id \in 1 .. MaxIds + 1
  /\ Stream!Live \subseteq 1 .. next_id - 1

\* The operation that was made last.
OpPart ==
  \/ op = Stream!NoOp
  \/ /\ op.id \in 1 .. next_id - 1
     /\ \/ /\ op.kind = "Add" /\ op.id \in Stream!Live
           /\ op.side \in Sides /\ op.price \in Prices /\ op.quantity \in Quantities
        \/ /\ op.kind = "Market" /\ op.id \notin Stream!Live /\ with_market
           /\ op.side \in Sides /\ op.quantity \in Quantities
        \/ /\ op.kind = "Cancel" /\ op.id \notin Stream!Live
        \/ /\ op.kind = "Modify" /\ op.id \in Stream!Live
           /\ op.price \in Prices /\ op.quantity \in Quantities

\* The book, and the order that the engine matches.
RestPart ==
  /\ Consistent(book)
  /\ DOMAIN book.locations \subseteq Reach
  /\ op.kind = "Add" /\ pc = "idle" => op.id \notin DOMAIN book.locations
  /\ pc \in {"idle", "match"}
  /\ pc = "match" =>
       /\ with_market
       /\ op.kind \in {"Add", "Market", "Modify"}
       /\ order.id = op.id /\ op.id \notin DOMAIN book.locations
       /\ order.side \in Sides
       /\ order.type = "Limit" => op.kind # "Market" /\ order.price \in Prices
       /\ remaining \in Nat

\* The array book waits for the second benchmark, in which all that the stream
\* can name rests, but for the order whose add has not been run.
SecondPart ==
  /\ with_market => flat = EmptyFlat
  /\ ~with_market =>
       /\ pc = "idle"
       /\ PairInv
       /\ DOMAIN book.locations = Reach \ (IF op.kind = "Add" THEN {op.id} ELSE {})

BenchInv == LivePart /\ OpPart /\ RestPart /\ SecondPart

\* The operations of the engine's books are those of the map book.
LEMMA EngineOperations ==
  /\ Engine!EmptyBook = EmptyBook
  /\ \A b, id : Engine!contains(b, id) <=> contains(b, id)
  /\ \A b, id : Engine!find(b, id) = find(b, id)
  /\ \A b, o : Engine!insert_order(b, o) = insert_order(b, o)
  /\ \A b, id : Engine!cancel_order(b, id) = cancel_order(b, id)
  /\ \A b, id, price, quantity :
       Engine!modify_order(b, id, price, quantity) = modify_order(b, id, price, quantity)
<1>1. Engine!EmptyBook = EmptyBook
  BY DEF EmptyBook, Engine!EmptyBook, NoLevels, Engine!NoLevels, EmptyLevel,
         Engine!EmptyLevel, Sides, Engine!Sides
<1>2. ASSUME NEW b, NEW id PROVE Engine!contains(b, id) <=> contains(b, id)
  BY DEF contains, Engine!contains
<1>3. ASSUME NEW b, NEW id PROVE Engine!find(b, id) = find(b, id)
  BY DEF find, Engine!find, FindInLevel, Engine!FindInLevel, PositionOf,
         Engine!PositionOf, Positions, Engine!Positions
<1>4. ASSUME NEW b, NEW o PROVE Engine!insert_order(b, o) = insert_order(b, o)
  BY DEF insert_order, Engine!insert_order, WithLevel, Engine!WithLevel, Put,
         Engine!Put, Emplace, Engine!Emplace, LevelAt, Engine!LevelAt, EmptyLevel,
         Engine!EmptyLevel, LevelAdd, Engine!LevelAdd
<1>5. ASSUME NEW b, NEW id PROVE Engine!cancel_order(b, id) = cancel_order(b, id)
  BY DEF cancel_order, Engine!cancel_order, contains, Engine!contains, LeftLevel,
         Engine!LeftLevel, LevelCancel, Engine!LevelCancel, HasOrder, Engine!HasOrder,
         Positions, Engine!Positions, PositionOf, Engine!PositionOf, FindInLevel,
         Engine!FindInLevel, RemoveAt, Engine!RemoveAt, Without, Engine!Without,
         WithLevel, Engine!WithLevel, Put, Engine!Put
<1>6. ASSUME NEW b, NEW id, NEW new_quantity
      PROVE  Engine!Reduced(b, id, new_quantity) = Reduced(b, id, new_quantity)
  BY DEF Reduced, Engine!Reduced, LevelReduce, Engine!LevelReduce, CanReduce,
         Engine!CanReduce, HasOrder, Engine!HasOrder, Positions, Engine!Positions,
         PositionOf, Engine!PositionOf, FindInLevel, Engine!FindInLevel, WithLevel,
         Engine!WithLevel, Put, Engine!Put
<1>7. ASSUME NEW o, NEW price, NEW quantity
      PROVE  Engine!Repriced(o, price, quantity) = Repriced(o, price, quantity)
  BY DEF Repriced, Engine!Repriced
<1>8. ASSUME NEW b, NEW id, NEW price, NEW quantity
      PROVE  Engine!modify_order(b, id, price, quantity)
               = modify_order(b, id, price, quantity)
  BY <1>2, <1>3, <1>4, <1>5, <1>6, <1>7 DEF modify_order, Engine!modify_order
<1> QED
  BY <1>1, <1>2, <1>3, <1>4, <1>5, <1>8

\* Writing the last element over the k-th and dropping the last takes out the
\* k-th and nothing else.
LEMMA DropForgets ==
  ASSUME live \in Seq(Nat), \A i, j \in DOMAIN live : live[i] = live[j] => i = j,
         NEW k \in DOMAIN live
  PROVE  LET left == Stream!Drop(k)
         IN /\ left \in Seq(Nat)
            /\ \A i, j \in DOMAIN left : left[i] = left[j] => i = j
            /\ {left[i] : i \in DOMAIN left} = Stream!Live \ {live[k]}
<1> DEFINE n == Len(live)
           moved == [live EXCEPT ![k] = live[n]]
           left == SubSeq(moved, 1, n - 1)
<1>1. n \in Nat /\ DOMAIN live = 1 .. n /\ live[n] \in Nat /\ n >= 1
  BY LenProperties, ElementOfSeq
<1>2. moved \in Seq(Nat) /\ Len(moved) = n
  BY <1>1, ExceptSeq
<1>3. \A i \in 1 .. n : moved[i] = IF i = k THEN live[n] ELSE live[i]
  BY <1>1
<1> HIDE DEF n, moved
<1>4. left \in Seq(Nat) /\ DOMAIN left = 1 .. n - 1
      /\ \A i \in 1 .. n - 1 : left[i] = moved[i]
  <2>1. /\ left \in Seq(Nat)
        /\ Len(left) = IF 1 <= n - 1 THEN ((n - 1) - 1) + 1 ELSE 0
        /\ \A i \in 1 .. ((n - 1) - 1) + 1 : left[i] = moved[(1 + i) - 1]
    <3>1. 1 \in Int /\ n - 1 \in Int /\ \A i \in 1 .. n - 1 : moved[i] \in Nat
      BY <1>1, <1>2, ElementOfSeq
    <3>2. /\ SubSeq(moved, 1, n - 1) \in Seq(Nat)
          /\ Len(SubSeq(moved, 1, n - 1)) = IF 1 <= n - 1 THEN ((n - 1) - 1) + 1 ELSE 0
          /\ \A i \in 1 .. ((n - 1) - 1) + 1 :
               SubSeq(moved, 1, n - 1)[i] = moved[(1 + i) - 1]
      BY <3>1, SubSeqProperties
    <3> QED
      BY <3>2
  <2> HIDE DEF left
  <2>2. Len(left) = n - 1
    BY <1>1, <2>1
  <2> QED
    BY <1>1, <2>1, <2>2, LenProperties
<1> HIDE DEF left
<1>5. \A i \in 1 .. n - 1 : left[i] = IF i = k THEN live[n] ELSE live[i]
  <2> TAKE i \in 1 .. n - 1
  <2>1. i \in 1 .. n
    BY <1>1
  <2> QED
    BY <1>3, <1>4, <2>1
<1> DEFINE from(i) == IF i = k THEN n ELSE i
<1>6. k \in 1 .. n
  BY <1>1
<1>7. \A i \in 1 .. n - 1 : from(i) \in 1 .. n /\ from(i) # k /\ left[i] = live[from(i)]
  BY <1>1, <1>5, <1>6
<1>8. \A i, j \in 1 .. n - 1 : from(i) = from(j) => i = j
  BY <1>1, <1>6
<1>9. \A j \in 1 .. n : j # k => \E i \in 1 .. n - 1 : from(i) = j
  <2> SUFFICES ASSUME NEW j \in 1 .. n, j # k PROVE \E i \in 1 .. n - 1 : from(i) = j
    OBVIOUS
  <2>1. CASE j = n
    BY <1>1, <1>6, <2>1
  <2>2. CASE j # n
    BY <1>1, <2>2
  <2> QED
    BY <2>1, <2>2
<1> HIDE DEF from
<1>10. \A i, j \in DOMAIN left : left[i] = left[j] => i = j
  BY <1>1, <1>4, <1>7, <1>8
<1>11. \A i \in DOMAIN left : \E j \in DOMAIN live : left[i] = live[j] /\ j # k
  BY <1>1, <1>4, <1>7
<1>12. \A j \in DOMAIN live : j # k => \E i \in DOMAIN left : left[i] = live[j]
  BY <1>1, <1>4, <1>7, <1>9
<1>13. {left[i] : i \in DOMAIN left} = {live[j] : j \in DOMAIN live} \ {live[k]}
  BY <1>11, <1>12
<1> QED
  BY <1>4, <1>10, <1>13 DEF Stream!Drop, Stream!Live, left, moved, n

\* The order that a fill meets is one that the index has.
LEMMA FrontTyped ==
  ASSUME NEW b, Consistent(b), NEW side \in Sides, NEW price \in DOMAIN b.levels[side]
  PROVE  LET front == Head(b.levels[side][price].queue)
         IN front \in Order /\ front.id \in DOMAIN b.locations
<1> DEFINE level == b.levels[side][price]
<1>1. level \in Level /\ LevelIndexed(b, side, price)
  BY DEF Consistent, WellTyped, Agrees
<1>2. /\ level.queue # <<>> /\ level.queue \in Seq(Order)
      /\ \A i \in Positions(level) : OrderIndexed(b, level.queue[i], side, price)
  BY <1>1 DEF LevelIndexed, Level
<1>3. 1 \in Positions(level) /\ Head(level.queue) = level.queue[1]
  BY <1>2, EmptySeq, LenProperties DEF Positions
<1> QED
  BY <1>2, <1>3, ElementOfSeq DEF Positions, OrderIndexed, contains

\* After the fill it is gone or smaller.
LEMMA FillKeepsIds ==
  ASSUME NEW b, Consistent(b), NEW side \in Sides, NEW price \in DOMAIN b.levels[side],
         NEW fill \in Int
  PROVE  LET after == Engine!AfterFill(b, Head(b.levels[side][price].queue), fill)
         IN Consistent(after) /\ DOMAIN after.locations \subseteq DOMAIN b.locations
<1> DEFINE front == Head(b.levels[side][price].queue)
           after == Engine!AfterFill(b, front, fill)
<1>1. front \in Order /\ front.id \in DOMAIN b.locations
  BY FrontTyped
<1> HIDE DEF front
<1>2. front.price \in Prices /\ front.quantity - fill \in Int
  BY <1>1 DEF Order
<1>3. after = IF fill = front.quantity THEN cancel_order(b, front.id)
              ELSE modify_order(b, front.id, front.price, front.quantity - fill)
  BY EngineOperations DEF Engine!AfterFill
<1>4. /\ Consistent(cancel_order(b, front.id))
      /\ DOMAIN cancel_order(b, front.id).locations \subseteq DOMAIN b.locations
  BY <1>1, CancelConsistent
<1>5. /\ Consistent(modify_order(b, front.id, front.price, front.quantity - fill))
      /\ DOMAIN modify_order(b, front.id, front.price, front.quantity - fill).locations
           \subseteq DOMAIN b.locations
  BY <1>2, ModifyConsistent
<1> QED
  BY <1>3, <1>4, <1>5 DEF front

\* An id that was given out is one of the ids of orders.
LEMMA IdsAreOrderIds ==
  ASSUME LivePart
  PROVE  1 .. next_id - 1 \subseteq OrderIds /\ next_id \in Nat
BY IdsAssumption DEF LivePart

\* The first stream starts with nothing given out, and with empty books.
LEMMA BenchStarts == BenchInit => BenchInv
<1> SUFFICES ASSUME BenchInit PROVE BenchInv
  OBVIOUS
<1>1. /\ with_market = TRUE /\ live = <<>> /\ next_id = 1 /\ op = Stream!NoOp
      /\ book = EmptyBook /\ pc = "idle" /\ flat = EmptyFlat
  BY EngineOperations DEF BenchInit, Stream!Init, Engine!Init, FlatInit
<1>2. live \in Seq(Nat) /\ DOMAIN live = {}
  BY <1>1, EmptySeq
<1>3. Stream!Live = {}
  BY <1>2 DEF Stream!Live
<1>4. LivePart
  BY <1>1, <1>2, <1>3, IdsAssumption DEF LivePart
<1>5. OpPart
  BY <1>1 DEF OpPart
<1>6. Consistent(book) /\ DOMAIN book.locations = {}
  BY <1>1, EmptyConsistent DEF EmptyBook
<1>7. RestPart
  BY <1>1, <1>6 DEF RestPart, Stream!NoOp
<1>8. SecondPart
  BY <1>1 DEF SecondPart
<1> QED
  BY <1>4, <1>5, <1>7, <1>8 DEF BenchInv

\* What stays as it is stays a pair of equal books.
LEMMA PairUnchanged ==
  ASSUME PairInv, UNCHANGED <<book, flat>>
  PROVE  PairInv'
BY PairStep

\* What a new operation starts from.
LEMMA BetweenOps ==
  ASSUME BenchInv, op = Stream!NoOp
  PROVE  /\ pc = "idle"
         /\ DOMAIN book.locations \subseteq Stream!Live
         /\ ~with_market => DOMAIN book.locations = Stream!Live
<1>1. op.kind = "None"
  BY DEF Stream!NoOp
<1> QED
  BY <1>1 DEF BenchInv, RestPart, SecondPart, Reach

\* A new operation leaves the books alone; it remains to say that what it
\* names is in reach.
LEMMA GenerateKeeps ==
  ASSUME BenchInv, Generate
  PROVE  BenchInv'
<1>1. UNCHANGED <<book, pc, order, remaining, flat>>
  BY DEF Generate, engine, matching
<1>2. Stream!Generate
  BY DEF Generate
<1>3. /\ op = Stream!NoOp
      /\ UNCHANGED with_market
  BY <1>2 DEF Stream!Generate, Stream!PushMarket, Stream!PushAdd, Stream!PushCancel,
              Stream!PushModify, Stream!Push
<1>4. /\ pc = "idle"
      /\ DOMAIN book.locations \subseteq Stream!Live
      /\ ~with_market => DOMAIN book.locations = Stream!Live
  BY <1>3, BetweenOps
<1>5. /\ with_market \in BOOLEAN /\ live \in Seq(Nat)
      /\ \A j, k \in DOMAIN live : live[j] = live[k] => j = k
      /\ next_id \in 1 .. MaxIds + 1 /\ Stream!Live \subseteq 1 .. next_id - 1
      /\ MaxIds \in Nat
  BY IdsAssumption DEF BenchInv, LivePart
<1>6. Consistent(book) /\ (with_market => flat = EmptyFlat) /\ (~with_market => PairInv)
  BY DEF BenchInv, RestPart, SecondPart
<1>7. PairInv => PairInv'
  BY <1>1, PairUnchanged
<1>8. Stream!Sides = Sides
  BY DEF Stream!Sides, Sides
<1>9. ASSUME LivePart', OpPart', Stream!Live \subseteq Reach',
             op'.kind = "Add" => op'.id \notin Stream!Live,
             ~with_market => Stream!Live = Reach' \ (IF op'.kind = "Add" THEN {op'.id} ELSE {})
      PROVE  BenchInv'
  <2>1. RestPart'
    BY <1>1, <1>4, <1>6, <1>9 DEF RestPart
  <2>2. SecondPart'
    BY <1>1, <1>3, <1>4, <1>6, <1>7, <1>9 DEF SecondPart
  <2> QED
    BY <1>9, <2>1, <2>2 DEF BenchInv
<1>10. ASSUME NEW side \in Sides, NEW quantity \in Quantities,
              Stream!PushMarket(side, quantity)
       PROVE  BenchInv'
  <2>1. /\ op' = [kind |-> "Market", id |-> next_id, side |-> side, price |-> 0,
                  quantity |-> quantity]
        /\ with_market /\ live' = live
        /\ next_id <= MaxIds /\ next_id' = next_id + 1
    BY <1>10 DEF Stream!PushMarket, Stream!Push, Stream!NewId
  <2>2. /\ op'.kind = "Market" /\ op'.id = next_id /\ op'.side = side
        /\ op'.quantity = quantity
    BY <2>1
  <2>3. Stream!Live' = Stream!Live
    BY <2>1 DEF Stream!Live
  <2>4. /\ next_id \notin Stream!Live /\ next_id \in 1 .. next_id' - 1
        /\ Stream!Live \subseteq 1 .. next_id' - 1 /\ next_id' \in 1 .. MaxIds + 1
    BY <1>5, <2>1
  <2>5. LivePart'
    BY <1>3, <1>5, <2>1, <2>3, <2>4 DEF LivePart
  <2>6. OpPart'
    BY <1>3, <2>1, <2>2, <2>3, <2>4 DEF OpPart
  <2>7. Reach' = Stream!Live
    BY <2>2, <2>3 DEF Reach
  <2> QED
    BY <1>9, <2>1, <2>2, <2>5, <2>6, <2>7
<1>11. ASSUME NEW side \in Sides, NEW quantity \in Quantities, NEW price \in Prices,
              Stream!PushAdd(side, price, quantity)
       PROVE  BenchInv'
  <2>1. /\ op' = [kind |-> "Add", id |-> next_id, side |-> side, price |-> price,
                  quantity |-> quantity]
        /\ live' = Append(live, next_id)
        /\ next_id <= MaxIds /\ next_id' = next_id + 1
    BY <1>11 DEF Stream!PushAdd, Stream!Push, Stream!NewId
  <2>2. /\ op'.kind = "Add" /\ op'.id = next_id /\ op'.side = side
        /\ op'.price = price /\ op'.quantity = quantity
    BY <2>1
  <2>3. /\ next_id \notin Stream!Live /\ next_id \in 1 .. next_id' - 1
        /\ Stream!Live \subseteq 1 .. next_id' - 1 /\ next_id' \in 1 .. MaxIds + 1
        /\ next_id \in Nat
    BY <1>5, <2>1
  <2>4. /\ live' \in Seq(Nat) /\ DOMAIN live = 1 .. Len(live) /\ Len(live) \in Nat
        /\ DOMAIN live' = 1 .. Len(live) + 1
        /\ \A k \in 1 .. Len(live) : live'[k] = live[k]
        /\ live'[Len(live) + 1] = next_id
    BY <1>5, <2>1, <2>3, AppendProperties, LenProperties
  <2>5. DOMAIN live' = DOMAIN live \cup {Len(live) + 1} /\ Len(live) + 1 \notin DOMAIN live
    BY <2>4
  <2>6. Stream!Live' = Stream!Live \cup {next_id}
    BY <2>4, <2>5 DEF Stream!Live
  <2>7. \A j, k \in DOMAIN live' : live'[j] = live'[k] => j = k
    <3>1. \A j \in DOMAIN live : live[j] # next_id
      BY <2>3 DEF Stream!Live
    <3> QED
      BY <1>5, <2>4, <2>5, <3>1
  <2>8. LivePart'
    BY <1>3, <1>5, <2>3, <2>4, <2>6, <2>7 DEF LivePart
  <2>9. OpPart'
    BY <2>2, <2>3, <2>6 DEF OpPart
  <2>10. Reach' = Stream!Live \cup {next_id}
    BY <2>2, <2>6 DEF Reach
  <2> QED
    BY <1>9, <2>2, <2>3, <2>8, <2>9, <2>10
<1>12. ASSUME NEW k, Stream!PushCancel(k)
       PROVE  BenchInv'
  <2>1. /\ op' = [kind |-> "Cancel", id |-> live[k], side |-> "Buy", price |-> 0,
                  quantity |-> 0]
        /\ live' = Stream!Drop(k) /\ k \in DOMAIN live
        /\ next_id' = next_id
    BY <1>12 DEF Stream!PushCancel, Stream!Push
  <2>2. op'.kind = "Cancel" /\ op'.id = live[k]
    BY <2>1
  <2>3. /\ live' \in Seq(Nat)
        /\ \A i, j \in DOMAIN live' : live'[i] = live'[j] => i = j
        /\ {live'[i] : i \in DOMAIN live'} = Stream!Live \ {live[k]}
    BY <1>5, <2>1, DropForgets
  <2>4. Stream!Live' = Stream!Live \ {live[k]}
    BY <2>3 DEF Stream!Live
  <2>5. live[k] \in Stream!Live
    BY <2>1 DEF Stream!Live
  <2>6. LivePart'
    BY <1>3, <1>5, <2>1, <2>3, <2>4 DEF LivePart
  <2>7. OpPart'
    BY <1>5, <2>1, <2>2, <2>4, <2>5 DEF OpPart
  <2>8. Reach' = Stream!Live
    BY <2>2, <2>4, <2>5 DEF Reach
  <2> QED
    BY <1>9, <2>2, <2>6, <2>7, <2>8
<1>13. ASSUME NEW k, NEW price \in Prices, NEW quantity \in Quantities,
              Stream!PushModify(k, price, quantity)
       PROVE  BenchInv'
  <2>1. /\ op' = [kind |-> "Modify", id |-> live[k], side |-> "Buy", price |-> price,
                  quantity |-> quantity]
        /\ live' = live /\ k \in DOMAIN live /\ next_id' = next_id
    BY <1>13 DEF Stream!PushModify, Stream!Push
  <2>2. /\ op'.kind = "Modify" /\ op'.id = live[k] /\ op'.price = price
        /\ op'.quantity = quantity
    BY <2>1
  <2>3. Stream!Live' = Stream!Live /\ live[k] \in Stream!Live
    BY <2>1 DEF Stream!Live
  <2>4. LivePart'
    BY <1>3, <1>5, <2>1, <2>3 DEF LivePart
  <2>5. OpPart'
    BY <1>5, <2>1, <2>2, <2>3 DEF OpPart
  <2>6. Reach' = Stream!Live
    BY <2>2, <2>3 DEF Reach
  <2> QED
    BY <1>9, <2>2, <2>4, <2>5, <2>6
<1> QED
  BY <1>2, <1>8, <1>10, <1>11, <1>12, <1>13 DEF Stream!Generate

\* An operation that has been run, and one that is still being run.
LEMMA DoneKeeps ==
  ASSUME LivePart, Done
  PROVE  /\ LivePart' /\ OpPart'
         /\ with_market' = with_market
         /\ op'.kind = "None" /\ Reach' = Stream!Live
<1>1. UNCHANGED <<with_market, live, next_id>> /\ op' = Stream!NoOp
  BY DEF Done
<1>2. Stream!Live' = Stream!Live
  BY <1>1 DEF Stream!Live
<1>3. op'.kind = "None"
  BY <1>1 DEF Stream!NoOp
<1> QED
  BY <1>1, <1>2, <1>3 DEF LivePart, OpPart, Reach

LEMMA OpStays ==
  ASSUME LivePart, OpPart, UNCHANGED <<with_market, live, next_id, op>>
  PROVE  LivePart' /\ OpPart' /\ Reach' = Reach
<1>1. Stream!Live' = Stream!Live
  BY DEF Stream!Live
<1> QED
  BY <1>1 DEF LivePart, OpPart, Reach

\* submit enters the match with an order that does not rest.
LEMMA SubmitKeeps ==
  ASSUME BenchInv, Submit
  PROVE  BenchInv'
<1> DEFINE o == [id |-> op.id, side |-> op.side, price |-> op.price,
                 quantity |-> op.quantity,
                 type |-> IF op.kind = "Market" THEN "Market" ELSE "Limit"]
<1>1. /\ UNCHANGED <<with_market, live, next_id, op, flat, book>>
      /\ with_market /\ op.kind \in {"Add", "Market"}
      /\ pc' = "match" /\ order' = o /\ remaining' = o.quantity
      /\ ~contains(book, op.id)
  BY EngineOperations DEF Submit, Engine!Submit, Engine!StartMatch
<1>2. LivePart' /\ OpPart' /\ Reach' = Reach
  BY <1>1, OpStays DEF BenchInv
<1>3. /\ op.side \in Sides /\ op.quantity \in Nat
      /\ op.kind = "Add" => op.price \in Prices
  <2>1. op.side \in Sides /\ op.quantity \in Quantities /\ (op.kind = "Add" => op.price \in Prices)
    BY <1>1 DEF BenchInv, OpPart, Stream!NoOp
  <2> QED
    BY <2>1, QuantitiesAssumption
<1>4. /\ order'.id = op'.id /\ order'.side \in Sides /\ remaining' \in Nat
      /\ order'.type = "Limit" => op'.kind # "Market" /\ order'.price \in Prices
  BY <1>1, <1>3
<1>5. RestPart'
  BY <1>1, <1>2, <1>4 DEF BenchInv, RestPart, contains
<1>6. SecondPart'
  BY <1>1 DEF BenchInv, SecondPart
<1> QED
  BY <1>2, <1>5, <1>6 DEF BenchInv

\* cancel takes the id out of the book, which the vector had lost already.
LEMMA EngineCancelKeeps ==
  ASSUME BenchInv, EngineCancel
  PROVE  BenchInv'
<1>1. /\ with_market /\ op.kind = "Cancel" /\ Done
      /\ pc = "idle" /\ pc' = pc /\ flat' = flat
      /\ book' = cancel_order(book, op.id)
  BY EngineOperations DEF EngineCancel, Engine!Cancel
<1>2. /\ LivePart' /\ OpPart' /\ with_market' = with_market
      /\ op'.kind = "None" /\ Reach' = Stream!Live
  BY <1>1, DoneKeeps DEF BenchInv
<1>3. Consistent(book) /\ DOMAIN book.locations \subseteq Stream!Live \cup {op.id}
  BY <1>1 DEF BenchInv, RestPart, Reach
<1>4. Consistent(book') /\ DOMAIN book'.locations = DOMAIN book.locations \ {op.id}
  <2>1. CASE op.id \in DOMAIN book.locations
    BY <1>1, <1>3, <2>1, CancelConsistent
  <2>2. CASE op.id \notin DOMAIN book.locations
    BY <1>1, <1>3, <2>2 DEF cancel_order, contains
  <2> QED
    BY <2>1, <2>2
<1>5. RestPart'
  BY <1>1, <1>2, <1>3, <1>4 DEF RestPart
<1>6. SecondPart'
  BY <1>1, <1>2 DEF BenchInv, SecondPart
<1> QED
  BY <1>2, <1>5, <1>6 DEF BenchInv

\* modify adds no id: a reprice takes its order out until its match is over.
LEMMA EngineModifyKeeps ==
  ASSUME BenchInv, EngineModify
  PROVE  BenchInv'
<1>1. /\ with_market /\ op.kind = "Modify" /\ pc = "idle" /\ flat' = flat
      /\ Engine!Modify(op.id, op.price, op.quantity)
      /\ IF pc' = "match" THEN UNCHANGED <<with_market, live, next_id, op>> ELSE Done
  BY DEF EngineModify, Engine!Modify
<1>2. /\ op.id \in Stream!Live /\ op.price \in Prices /\ op.quantity \in Quantities
      /\ op.quantity \in Nat \ {0} /\ op.quantity \in Int
  <2>1. op.id \in Stream!Live /\ op.price \in Prices /\ op.quantity \in Quantities
    BY <1>1 DEF BenchInv, OpPart, Stream!NoOp
  <2>2. op.quantity \in Nat \ {0}
    BY <2>1, QuantitiesAssumption
  <2>3. op.quantity \in Int
    BY <2>2
  <2> QED
    BY <2>1, <2>2, <2>3
<1>3. Consistent(book) /\ DOMAIN book.locations \subseteq Stream!Live
  BY <1>1 DEF BenchInv, RestPart, Reach
<1>4. ASSUME pc' = "idle", Consistent(book'),
             DOMAIN book'.locations \subseteq DOMAIN book.locations
      PROVE  BenchInv'
  <2>1. /\ LivePart' /\ OpPart' /\ with_market' = with_market
        /\ op'.kind = "None" /\ Reach' = Stream!Live
    BY <1>1, <1>4, DoneKeeps DEF BenchInv
  <2>2. RestPart'
    BY <1>3, <1>4, <2>1 DEF RestPart
  <2>3. SecondPart'
    BY <1>1, <2>1 DEF BenchInv, SecondPart
  <2> QED
    BY <2>1, <2>2, <2>3 DEF BenchInv
<1>5. CASE Engine!ModifyNothing(op.id, op.quantity)
  BY <1>1, <1>3, <1>4, <1>5 DEF Engine!ModifyNothing
<1>6. CASE Engine!ModifyInPlace(op.id, op.price, op.quantity)
  <2>1. pc' = "idle" /\ book' = modify_order(book, op.id, op.price, op.quantity)
    BY <1>1, <1>6, EngineOperations DEF Engine!ModifyInPlace
  <2>2. Consistent(book') /\ DOMAIN book'.locations = DOMAIN book.locations
    BY <1>2, <1>3, <2>1, ModifyConsistent
  <2> QED
    BY <1>4, <2>1, <2>2
<1>7. CASE Engine!ModifyAsNew(op.id, op.price, op.quantity)
  <2> DEFINE o == [id |-> op.id, side |-> find(book, op.id).side, type |-> "Limit",
                   price |-> op.price, quantity |-> op.quantity]
  <2>1. /\ contains(book, op.id) /\ pc' = "match" /\ order' = o
        /\ remaining' = o.quantity
        /\ book' = cancel_order(book, op.id)
    BY <1>7, EngineOperations DEF Engine!ModifyAsNew, Engine!StartMatch
  <2>2. op.id \in DOMAIN book.locations
    BY <2>1 DEF contains
  <2>3. find(book, op.id).side \in Sides
    BY <1>3, <2>2, FindResting DEF Order
  <2>4. Consistent(book') /\ DOMAIN book'.locations = DOMAIN book.locations \ {op.id}
    BY <1>3, <2>1, <2>2, CancelConsistent
  <2>5. /\ UNCHANGED <<with_market, live, next_id, op>>
        /\ LivePart' /\ OpPart' /\ Reach' = Reach
    BY <1>1, <2>1, OpStays DEF BenchInv
  <2>6. /\ order'.id = op'.id /\ order'.side \in Sides /\ remaining' \in Nat
        /\ order'.price \in Prices /\ op'.kind = "Modify" /\ pc' = "match"
    BY <1>1, <1>2, <2>1, <2>3, <2>5
  <2>7. DOMAIN book'.locations \subseteq Reach' /\ op'.id \notin DOMAIN book'.locations
    BY <2>4, <2>5 DEF BenchInv, RestPart
  <2>8. RestPart'
    BY <1>1, <2>4, <2>5, <2>6, <2>7 DEF RestPart
  <2>9. SecondPart'
    BY <1>1, <2>5 DEF BenchInv, SecondPart
  <2> QED
    BY <2>5, <2>8, <2>9 DEF BenchInv
<1> QED
  BY <1>1, <1>5, <1>6, <1>7 DEF Engine!Modify

\* What is known while the engine matches.
LEMMA WhileMatching ==
  ASSUME BenchInv, pc = "match"
  PROVE  /\ with_market /\ flat = EmptyFlat
         /\ Consistent(book) /\ DOMAIN book.locations \subseteq Stream!Live
         /\ op.kind \in {"Add", "Market", "Modify"}
         /\ op.kind # "Market" => op.id \in Stream!Live
         /\ op.id \in OrderIds
         /\ order.id = op.id /\ op.id \notin DOMAIN book.locations
         /\ order.side \in Sides
         /\ order.type = "Limit" => op.kind # "Market" /\ order.price \in Prices
         /\ remaining \in Nat
<1>1. RestPart /\ OpPart /\ LivePart /\ SecondPart
  BY DEF BenchInv
<1>2. op.kind \in {"Add", "Market", "Modify"} /\ with_market
  BY <1>1 DEF RestPart
<1>3. op.id \in 1 .. next_id - 1 /\ (op.kind # "Market" => op.id \in Stream!Live)
  BY <1>1, <1>2 DEF OpPart, Stream!NoOp
<1>4. op.id \in OrderIds
  BY <1>1, <1>3, IdsAreOrderIds
<1>5. flat = EmptyFlat
  BY <1>1, <1>2 DEF SecondPart
<1> QED
  BY <1>1, <1>2, <1>3, <1>4, <1>5 DEF RestPart, Reach

\* A fill can only take out ids.
LEMMA FillKeeps ==
  ASSUME BenchInv, Fill
  PROVE  BenchInv'
<1>1. /\ pc = "match" /\ UNCHANGED <<with_market, live, next_id, op, flat, pc, order>>
      /\ Engine!Fill
  BY DEF Fill, Engine!Fill
<1>2. /\ with_market /\ flat = EmptyFlat
      /\ Consistent(book) /\ DOMAIN book.locations \subseteq Stream!Live
      /\ op.kind \in {"Add", "Market", "Modify"}
      /\ order.id = op.id /\ op.id \notin DOMAIN book.locations
      /\ order.side \in Sides
      /\ order.type = "Limit" => op.kind # "Market" /\ order.price \in Prices
      /\ remaining \in Nat
  BY <1>1, WhileMatching
<1>3. PICK best \in DOMAIN book.levels[Engine!opposite(order.side)] :
        LET resting == Engine!best_order(Engine!opposite(order.side), best)
            fill == Engine!Min({remaining, resting.quantity})
        IN /\ remaining' = remaining - fill
           /\ book' = Engine!AfterFill(book, resting, fill)
  BY <1>1 DEF Engine!Fill
<1> DEFINE side == Engine!opposite(order.side)
           front == Head(book.levels[side][best].queue)
           fill == Min({remaining, front.quantity})
<1>4. side \in Sides /\ best \in DOMAIN book.levels[side]
  BY <1>3 DEF Engine!opposite, Sides
<1>5. /\ remaining' = remaining - fill
      /\ book' = Engine!AfterFill(book, front, fill)
  BY <1>3 DEF Engine!best_order, Engine!Min, Min
<1>6. front.quantity \in Nat
  BY <1>2, <1>4, FrontTyped DEF Order
<1> HIDE DEF side, front
<1>7. fill \in Int /\ fill <= remaining
  BY <1>2, <1>6, SmallerOfTwo
<1> HIDE DEF fill
<1>8. Consistent(book') /\ DOMAIN book'.locations \subseteq DOMAIN book.locations
  BY <1>2, <1>4, <1>5, <1>7, FillKeepsIds DEF front
<1>9. remaining' \in Nat
  BY <1>2, <1>5, <1>7
<1>10. LivePart' /\ OpPart' /\ Reach' = Reach
  BY <1>1, OpStays DEF BenchInv
<1>11. RestPart'
  BY <1>1, <1>2, <1>8, <1>9, <1>10 DEF RestPart, Reach
<1>12. SecondPart'
  BY <1>1, <1>2 DEF SecondPart
<1> QED
  BY <1>10, <1>11, <1>12 DEF BenchInv

\* A limit order that rests is one the vector has: only a market order is not
\* in it, and that one never rests.
LEMMA FinishKeeps ==
  ASSUME BenchInv, Finish
  PROVE  BenchInv'
<1> DEFINE part == [id |-> order.id, side |-> order.side, price |-> order.price,
                    quantity |-> remaining]
<1>1. /\ pc = "match" /\ pc' = "idle" /\ Done /\ flat' = flat
      /\ book' = IF remaining > 0 /\ order.type = "Limit" THEN insert_order(book, part)
                 ELSE book
  BY EngineOperations DEF Finish, Engine!Finish, Engine!Rests, Engine!RestingPart
<1>2. /\ with_market /\ flat = EmptyFlat
      /\ Consistent(book) /\ DOMAIN book.locations \subseteq Stream!Live
      /\ op.kind # "Market" => op.id \in Stream!Live
      /\ op.id \in OrderIds
      /\ order.id = op.id /\ op.id \notin DOMAIN book.locations
      /\ order.side \in Sides
      /\ order.type = "Limit" => op.kind # "Market" /\ order.price \in Prices
      /\ remaining \in Nat
  BY <1>1, WhileMatching
<1>3. /\ LivePart' /\ OpPart' /\ with_market' = with_market
      /\ op'.kind = "None" /\ Reach' = Stream!Live
  BY <1>1, DoneKeeps DEF BenchInv
<1>4. Consistent(book') /\ DOMAIN book'.locations \subseteq Stream!Live
  <2>1. CASE remaining > 0 /\ order.type = "Limit"
    <3>1. /\ part \in Order /\ part.id = op.id /\ op.id \in Stream!Live
          /\ ~contains(book, part.id)
      BY <1>2, <2>1 DEF Order, contains
    <3> HIDE DEF part
    <3> QED
      BY <1>1, <1>2, <2>1, <3>1, InsertConsistent
  <2>2. CASE ~(remaining > 0 /\ order.type = "Limit")
    BY <1>1, <1>2, <2>2
  <2> QED
    BY <2>1, <2>2
<1>5. RestPart'
  BY <1>1, <1>3, <1>4 DEF RestPart
<1>6. SecondPart'
  BY <1>1, <1>2, <1>3 DEF SecondPart
<1> QED
  BY <1>3, <1>5, <1>6 DEF BenchInv

\* The second benchmark starts over.
LEMMA SecondBenchmarkKeeps ==
  ASSUME BenchInv, SecondBenchmark
  PROVE  BenchInv'
<1>1. /\ with_market' = FALSE /\ live' = <<>> /\ next_id' = 1
      /\ op = Stream!NoOp /\ op' = op
      /\ book' = EmptyBook /\ flat' = flat /\ pc = "idle" /\ pc' = pc /\ with_market
  BY DEF SecondBenchmark, Stream!Restart
<1>2. live' \in Seq(Nat) /\ DOMAIN live' = {}
  BY <1>1, EmptySeq
<1>3. Stream!Live' = {} /\ op'.kind = "None"
  BY <1>1, <1>2 DEF Stream!Live, Stream!NoOp
<1>4. LivePart'
  <2>1. next_id' \in 1 .. MaxIds + 1 /\ Stream!Live' \subseteq 1 .. next_id' - 1
    BY <1>1, <1>3, IdsAssumption
  <2> QED
    BY <1>1, <1>2, <2>1 DEF LivePart
<1>5. OpPart'
  BY <1>1 DEF OpPart
<1>6. Consistent(book') /\ DOMAIN book'.locations = {} /\ Reach' = {}
  BY <1>1, <1>3, EmptyConsistent DEF EmptyBook, Reach
<1>7. RestPart'
  BY <1>1, <1>3, <1>6 DEF RestPart
<1>8. PairInv'
  <2>1. flat' = EmptyFlat
    BY <1>1 DEF BenchInv, SecondPart
  <2> QED
    BY <1>1, <2>1, EmptyConsistent, EmptyCounts, EmptyMaps, EmptyMirrors DEF PairInv
<1>9. SecondPart'
  BY <1>1, <1>3, <1>6, <1>8 DEF SecondPart
<1> QED
  BY <1>4, <1>5, <1>7, <1>9 DEF BenchInv

\* In the second benchmark every operation is one that the pair may make.
LEMMA OnBooksKeeps ==
  ASSUME BenchInv, AddOp \/ CancelOp \/ ModifyOp
  PROVE  BenchInv'
<1>1. ~with_market /\ Done /\ UNCHANGED <<pc, order, remaining>>
  BY DEF AddOp, CancelOp, ModifyOp, OnBooks, matching
<1>2. /\ LivePart' /\ OpPart' /\ with_market' = with_market
      /\ op'.kind = "None" /\ Reach' = Stream!Live
  BY <1>1, DoneKeeps DEF BenchInv
<1>3. /\ pc = "idle" /\ PairInv /\ Consistent(book)
      /\ DOMAIN book.locations = Reach \ (IF op.kind = "Add" THEN {op.id} ELSE {})
  BY <1>1 DEF BenchInv, SecondPart, PairInv
<1>4. ASSUME PairNext, DOMAIN book'.locations = Stream!Live
      PROVE  BenchInv'
  <2>1. PairInv'
    BY <1>3, <1>4, PairStep
  <2>2. RestPart'
    BY <1>1, <1>2, <1>3, <1>4, <2>1 DEF RestPart, PairInv
  <2>3. SecondPart'
    BY <1>1, <1>2, <1>3, <1>4, <2>1 DEF SecondPart
  <2> QED
    BY <1>2, <2>2, <2>3 DEF BenchInv
<1>5. LivePart /\ OpPart
  BY DEF BenchInv
<1>6. op.kind # "None" => op.id \in OrderIds
  BY <1>5, IdsAreOrderIds DEF OpPart, Stream!NoOp
<1>7. CASE AddOp
  <2> DEFINE o == [id |-> op.id, side |-> op.side, price |-> op.price,
                   quantity |-> op.quantity]
  <2>1. op.kind = "Add" /\ AddToBoth(o)
    BY <1>7 DEF AddOp
  <2>2. /\ op.id \in OrderIds /\ op.id \in Stream!Live /\ op.side \in Sides
        /\ op.price \in Prices /\ op.quantity \in Quantities
    BY <1>5, <1>6, <2>1 DEF OpPart, Stream!NoOp
  <2>3. PairNext
    BY <2>1, <2>2 DEF PairNext
  <2>4. o \in Order /\ o.id = op.id
    BY <2>2, QuantitiesAssumption DEF Order
  <2> HIDE DEF o
  <2>5. ~contains(book, o.id) /\ book' = insert_order(book, o)
    BY <2>1 DEF AddToBoth, add_limit_order
  <2>6. DOMAIN book'.locations = DOMAIN book.locations \cup {op.id}
    BY <1>3, <2>4, <2>5, InsertConsistent
  <2>7. Reach = Stream!Live
    BY <2>1 DEF Reach
  <2> QED
    BY <1>3, <1>4, <2>1, <2>2, <2>3, <2>6, <2>7
<1>8. CASE CancelOp
  <2>1. op.kind = "Cancel" /\ CancelInBoth(op.id)
    BY <1>8 DEF CancelOp
  <2>2. PairNext
    BY <1>6, <2>1 DEF PairNext
  <2>3. op.id \notin Stream!Live /\ Reach = Stream!Live \cup {op.id}
    BY <1>5, <2>1 DEF OpPart, Stream!NoOp, Reach
  <2>4. DOMAIN book.locations = Stream!Live \cup {op.id}
    BY <1>3, <2>1, <2>3
  <2>5. book' = cancel_order(book, op.id)
    BY <2>1 DEF CancelInBoth, Cancel
  <2>6. DOMAIN book'.locations = DOMAIN book.locations \ {op.id}
    <3>1. op.id \in DOMAIN book.locations
      BY <2>4
    <3> QED
      BY <1>3, <2>5, <3>1, CancelConsistent
  <2>7. DOMAIN book'.locations = Stream!Live
    BY <2>3, <2>4, <2>6
  <2> QED
    BY <1>4, <2>2, <2>7
<1>9. CASE ModifyOp
  <2>1. op.kind = "Modify" /\ ModifyInBoth(op.id, op.price, op.quantity)
    BY <1>9 DEF ModifyOp
  <2>2. /\ op.id \in OrderIds /\ op.price \in Prices /\ op.quantity \in Quantities
        /\ op.quantity \in ModifySizes
    BY <1>5, <1>6, <2>1 DEF OpPart, Stream!NoOp, ModifySizes
  <2>3. PairNext
    BY <2>1, <2>2 DEF PairNext
  <2>4. book' = modify_order(book, op.id, op.price, op.quantity) /\ op.quantity \in Int
    <3>1. op.quantity \in Nat \ {0}
      BY <2>2, QuantitiesAssumption
    <3>2. op.quantity \in Int
      BY <3>1
    <3> QED
      BY <2>1, <3>2 DEF ModifyInBoth, Modify
  <2>5. DOMAIN book'.locations = DOMAIN book.locations
    BY <1>3, <2>2, <2>4, ModifyConsistent
  <2>6. Reach = Stream!Live
    BY <2>1 DEF Reach
  <2> QED
    BY <1>3, <1>4, <2>1, <2>3, <2>5, <2>6
<1> QED
  BY <1>7, <1>8, <1>9

\* The four parts are inductive together.
LEMMA BenchInvariant == BenchSpec => []BenchInv
<1>1. ASSUME BenchInv, UNCHANGED bench_vars
      PROVE  BenchInv'
  <2>1. UNCHANGED <<with_market, live, next_id, op, book, pc, order, remaining, flat>>
    BY <1>1 DEF bench_vars, engine, matching
  <2>2. LivePart' /\ OpPart' /\ Reach' = Reach
    BY <1>1, <2>1, OpStays DEF BenchInv
  <2>3. RestPart'
    BY <1>1, <2>1, <2>2 DEF BenchInv, RestPart
  <2>4. PairInv => PairInv'
    BY <2>1, PairUnchanged
  <2>5. SecondPart'
    BY <1>1, <2>1, <2>2, <2>4 DEF BenchInv, SecondPart
  <2> QED
    BY <2>2, <2>3, <2>5 DEF BenchInv
<1>2. BenchInv /\ [BenchNext]_bench_vars => BenchInv'
  BY <1>1, GenerateKeeps, SubmitKeeps, EngineCancelKeeps, EngineModifyKeeps, FillKeeps,
     FinishKeeps, SecondBenchmarkKeeps, OnBooksKeeps DEF BenchNext
<1> QED
  BY <1>2, BenchStarts, PTL DEF BenchSpec

\* No run of the benchmark breaks the precondition of submit and
\* add_limit_order that Release does not check: an id that is submitted does
\* not rest, though the generator never learns what has traded.
THEOREM StreamSubmitsFreshIds == BenchSpec => []SubmitsFreshIds
<1>1. BenchInv => SubmitsFreshIds
  BY DEF BenchInv, OpPart, RestPart, Reach, SubmitsFreshIds, contains, Stream!NoOp
<1> QED
  BY <1>1, BenchInvariant, PTL

\* The vector of the generator never loses sight of an order that rests, while
\* ids are moved about in it; without matching it is exactly what rests in
\* either book, so that every cancel and modify that is timed finds its order.
THEOREM StreamReachesWhatRests == BenchSpec => []RestingIsLive
<1>1. BenchInv => RestingIsLive
  <2> SUFFICES ASSUME BenchInv PROVE RestingIsLive
    OBVIOUS
  <2>1. Stream!LiveIsASet
    BY DEF BenchInv, LivePart, OpPart, Stream!LiveIsASet
  <2>2. ~with_market /\ op = Stream!NoOp => Stream!Live = DOMAIN book.locations
    BY BetweenOps
  <2>3. ~with_market => flat.locations = book.locations
    BY DEF BenchInv, SecondPart, PairInv, Mirrors
  <2> QED
    BY <2>1, <2>2, <2>3 DEF BenchInv, RestPart, Reach, RestingIsLive
<1> QED
  BY <1>1, BenchInvariant, PTL
=============================================================================
