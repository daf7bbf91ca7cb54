------------------------ MODULE MatchingEngineProofs ------------------------
(***************************************************************************)
(* The matching engine never rests a buyer at or above a resting seller,   *)
(* makes and loses no share, touches the other orders by trades only, and  *)
(* trades what price-time priority says, for every set of ids, prices and  *)
(* sizes and between two fills as well.                                    *)
(*                                                                         *)
(* The invariant needs the book's consistency: the loop trades with the    *)
(* front order of the best level, and only because the index agrees with   *)
(* the queues is that the order which the book then removes or shrinks.    *)
(* The refinement adds that each fill is what the closed form takes first, *)
(* and leaves the rest of the outcome as it was.                           *)
(***************************************************************************)
EXTENDS MatchingRefinement, BookLemmas

\* A book that has no prices but those of an uncrossed book is uncrossed.
LEMMA FewerPricesUncrossed ==
  ASSUME NEW b, NEW after, Uncrossed(b),
         \A side \in Sides : DOMAIN after.levels[side] \subseteq DOMAIN b.levels[side]
  PROVE  Uncrossed(after)
BY DEF Uncrossed, Sides

\* Cancelling, found or not, keeps a consistent book consistent and its counts
\* right, and adds no id and no price.
LEMMA CancelShrinks ==
  ASSUME NEW b, Consistent(b), Counts(b), NEW id
  PROVE  LET after == cancel_order(b, id)
         IN /\ Consistent(after)
            /\ Counts(after)
            /\ DOMAIN after.locations = DOMAIN b.locations \ {id}
            /\ \A side \in Sides :
                 DOMAIN after.levels[side] \subseteq DOMAIN b.levels[side]
<1>1. CASE id \in DOMAIN b.locations
  BY <1>1, CancelConsistent, CancelCounts
<1>2. CASE id \notin DOMAIN b.locations
  BY <1>2 DEF cancel_order, contains
<1> QED
  BY <1>1, <1>2

\* A decrease at the order's own price is done in place.
LEMMA DecreaseInPlace ==
  ASSUME NEW b, Consistent(b), Counts(b), NEW id \in DOMAIN b.locations,
         NEW new_quantity \in Nat \ {0}, new_quantity <= find(b, id).quantity
  PROVE  LET after == modify_order(b, id, find(b, id).price, new_quantity)
         IN /\ after = Reduced(b, id, new_quantity)
            /\ Consistent(after)
            /\ Counts(after)
            /\ DOMAIN after.locations = DOMAIN b.locations
            /\ \A side \in Sides : DOMAIN after.levels[side] = DOMAIN b.levels[side]
<1>1. find(b, id).price = b.locations[id].price
  BY FindResting
<1>2. modify_order(b, id, find(b, id).price, new_quantity) = Reduced(b, id, new_quantity)
  BY <1>1 DEF modify_order, contains
<1> QED
  BY <1>2, ReducedConsistent, ReducedCounts

\* The front order of a level is the one the index finds under its id.
LEMMA FrontIsIndexed ==
  ASSUME NEW b, Consistent(b), NEW side \in Sides, NEW price \in DOMAIN b.levels[side]
  PROVE  LET front == Head(b.levels[side][price].queue)
         IN /\ front \in Order
            /\ front.price = price
            /\ front.id \in DOMAIN b.locations
            /\ find(b, front.id) = front
<1> DEFINE level == b.levels[side][price]
<1>1. level \in Level /\ LevelIndexed(b, side, price)
  BY DEF Consistent, WellTyped, Agrees
<1>2. /\ level.queue # <<>> /\ NoTwins(level)
      /\ \A i \in Positions(level) : OrderIndexed(b, level.queue[i], side, price)
  BY <1>1 DEF LevelIndexed
<1>3. level.queue \in Seq(Order)
  BY <1>1 DEF Level
<1>4. 1 \in Positions(level) /\ Head(level.queue) = level.queue[1]
  BY <1>2, <1>3, EmptySeq, LenProperties DEF Positions
<1> HIDE DEF level
<1>5. level.queue[1] \in Order
  BY <1>3, <1>4, ElementOfSeq DEF Positions
<1>6. FindInLevel(level, level.queue[1].id) = level.queue[1]
  BY <1>1, <1>2, <1>4, PositionOfUnique
<1>7. OrderIndexed(b, level.queue[1], side, price)
  BY <1>2, <1>4
<1>8. find(b, level.queue[1].id) = FindInLevel(level, level.queue[1].id)
  BY <1>7 DEF find, OrderIndexed, level
<1> QED
  BY <1>4, <1>5, <1>6, <1>7, <1>8 DEF OrderIndexed, contains, level

\* One iteration takes at least one share and no more than is wanted; a
\* partly filled resting order keeps at least one share.
LEMMA FillSize ==
  ASSUME NEW wanted \in Nat \ {0}, NEW size \in Nat \ {0}
  PROVE  LET fill == Min({wanted, size})
         IN /\ fill \in 1 .. wanted
            /\ fill \in 1 .. size
            /\ fill = wanted \/ fill = size
<1>1. \E x \in {wanted, size} : \A y \in {wanted, size} : x <= y
  OBVIOUS
<1>2. /\ Min({wanted, size}) \in {wanted, size}
      /\ \A y \in {wanted, size} : Min({wanted, size}) <= y
  BY <1>1 DEF Min
<1> QED
  BY <1>2

\* What the fill does to the book: it stays sound, and no id joins it.
LEMMA AfterFillBook ==
  ASSUME NEW b, Consistent(b), Counts(b), Uncrossed(b), NEW side \in Sides,
         NEW price \in DOMAIN b.levels[side], NEW fill \in Nat \ {0},
         fill <= Head(b.levels[side][price].queue).quantity
  PROVE  LET after == AfterFill(b, Head(b.levels[side][price].queue), fill)
         IN /\ Consistent(after)
            /\ Counts(after)
            /\ Uncrossed(after)
            /\ DOMAIN after.locations \subseteq DOMAIN b.locations
<1> DEFINE front == Head(b.levels[side][price].queue)
           after == AfterFill(b, front, fill)
<1>1. /\ front \in Order
      /\ front.id \in DOMAIN b.locations
      /\ find(b, front.id) = front
  BY FrontIsIndexed
<1> HIDE DEF front
<1>2. fill <= front.quantity
  BY DEF front
<1>3. CASE fill = front.quantity
  <2>1. after = cancel_order(b, front.id)
    BY <1>3 DEF AfterFill
  <2>2. /\ Consistent(after) /\ Counts(after)
        /\ DOMAIN after.locations \subseteq DOMAIN b.locations
        /\ \A s \in Sides : DOMAIN after.levels[s] \subseteq DOMAIN b.levels[s]
    BY <2>1, CancelShrinks
  <2> QED
    BY <2>2, FewerPricesUncrossed DEF front
<1>4. CASE fill # front.quantity
  <2>1. after = modify_order(b, front.id, front.price, front.quantity - fill)
    BY <1>4 DEF AfterFill
  <2>2. front.quantity - fill \in Nat \ {0} /\ front.quantity - fill <= front.quantity
    BY <1>1, <1>2, <1>4 DEF Order
  <2>3. /\ Consistent(after) /\ Counts(after)
        /\ DOMAIN after.locations = DOMAIN b.locations
        /\ \A s \in Sides : DOMAIN after.levels[s] = DOMAIN b.levels[s]
    BY <1>1, <2>1, <2>2, DecreaseInPlace
  <2> QED
    BY <2>3, FewerPricesUncrossed DEF front
<1> QED
  BY <1>3, <1>4

\* The remainder of a limit order that no best opposite price reaches can
\* rest: it crosses nothing, since every other price is worse than the best.
LEMMA RestUncrossed ==
  ASSUME NEW b, Consistent(b), Uncrossed(b), NEW o \in Order, ~contains(b, o.id),
         \/ DOMAIN b.levels[opposite(o.side)] = {}
         \/ \E best \in DOMAIN b.levels[opposite(o.side)] :
              /\ IsBest(b, opposite(o.side), best)
              /\ ~Crosses("Limit", o.side, o.price, best)
  PROVE  Uncrossed(insert_order(b, o))
<1> DEFINE after == insert_order(b, o)
<1>1. \A side \in Sides :
        DOMAIN after.levels[side] =
          IF side = o.side THEN DOMAIN b.levels[side] \cup {o.price}
          ELSE DOMAIN b.levels[side]
  BY InsertConsistent
<1>2. \A side \in Sides : DOMAIN b.levels[side] \subseteq Int
  BY PricesAssumption DEF Consistent, WellTyped
<1>3. o.price \in Int /\ o.side \in Sides
  BY PricesAssumption DEF Order
<1> HIDE DEF after
<1>4. CASE o.side = "Buy"
  <2>1. \A ask \in DOMAIN b.levels["Sell"] : o.price < ask
    BY <1>2, <1>3, <1>4 DEF opposite, IsBest, Better, Crosses, Sides
  <2> QED
    BY <1>1, <1>4, <2>1 DEF Uncrossed, Sides, after
<1>5. CASE o.side = "Sell"
  <2>1. \A bid \in DOMAIN b.levels["Buy"] : bid < o.price
    BY <1>2, <1>3, <1>5 DEF opposite, IsBest, Better, Crosses, Sides
  <2> QED
    BY <1>1, <1>5, <2>1 DEF Uncrossed, Sides, after
<1> QED
  BY <1>3, <1>4, <1>5 DEF Sides

(***************************************************************************)
(* The inductive invariant                                                 *)
(***************************************************************************)

\* What it says of the book, and of the call in progress.
BookPart == Consistent(book) /\ Counts(book) /\ Uncrossed(book)

CallPart ==
  /\ executed_volume \in Nat
  /\ executed_volume + remaining <= MaxVolume
  /\ pc \in {"idle", "match"}
  /\ pc = "idle" => order = NoOrder /\ remaining = 0
  /\ pc = "match" => /\ order \in Aggressor
                     /\ remaining \in 0 .. order.quantity
                     /\ ~contains(book, order.id)
  /\ trades \in Seq(TradeRecord)

IInv == BookPart /\ CallPart

LEMMA IInvImplies == IInv => BookStaysSound
<1> SUFFICES ASSUME IInv PROVE BookStaysSound
  OBVIOUS
<1>1. TypeOK /\ IndexAgrees /\ NeverCrossed
  BY DEF IInv, BookPart, CallPart, TypeOK, IndexAgrees, NeverCrossed, Consistent
<1>2. ChecksOut
  BY CountsCheckOut DEF IInv, BookPart, ChecksOut
<1> QED
  BY <1>1, <1>2 DEF BookStaysSound

LEMMA InitIInv == Init => IInv
<1> SUFFICES ASSUME Init PROVE IInv
  OBVIOUS
<1>1. Consistent(book)
  BY EmptyConsistent DEF Init
<1>6. Counts(book)
  BY EmptyCounts DEF Init
<1>2. Uncrossed(book)
  BY DEF Init, Uncrossed, EmptyBook, NoLevels, Sides
<1>3. trades \in Seq(TradeRecord)
  BY EmptySeq DEF Init
<1>4. executed_volume + remaining <= MaxVolume
  BY MaxVolumeAssumption DEF Init
<1>5. CallPart
  BY <1>3, <1>4 DEF Init, CallPart
<1> QED
  BY <1>1, <1>2, <1>5, <1>6 DEF IInv, BookPart

\* Entering match: the same facts for submit and for the repricing modify.
LEMMA StartMatchStep ==
  ASSUME IInv, NEW o \in Aggressor, StartMatch(o), ~contains(book', o.id)
  PROVE  CallPart'
<1>1. o.quantity \in Nat
  BY DEF Aggressor
<1>2. trades' \in Seq(TradeRecord)
  BY EmptySeq DEF StartMatch
<1> QED
  BY <1>1, <1>2 DEF IInv, StartMatch, CallPart

LEMMA SubmitStep ==
  ASSUME IInv, NEW o \in Aggressor, Submit(o)
  PROVE  IInv'
<1>1. BookPart'
  BY DEF IInv, Submit, BookPart
<1>2. CallPart'
  BY StartMatchStep DEF Submit
<1> QED
  BY <1>1, <1>2 DEF IInv

LEMMA FillStep ==
  ASSUME IInv, Fill
  PROVE  IInv' /\ remaining' \in 0 .. remaining - 1
<1>1. BookPart /\ CallPart /\ pc = "match" /\ remaining > 0
  BY DEF IInv, Fill
<1>2. order \in Aggressor /\ remaining \in Nat \ {0} /\ order.side \in Sides
  BY <1>1 DEF CallPart, Aggressor
<1> DEFINE side == opposite(order.side)
<1>3. side \in Sides
  BY <1>2 DEF opposite, Sides
<1>4. PICK best \in DOMAIN book.levels[side] :
        LET resting == Head(book.levels[side][best].queue)
            fill == Min({remaining, resting.quantity})
        IN /\ trades' = Append(trades, Trade(order, resting, fill))
           /\ executed_volume' = executed_volume + fill
           /\ remaining' = remaining - fill
           /\ book' = AfterFill(book, resting, fill)
  BY DEF Fill, best_order
<1> DEFINE resting == Head(book.levels[side][best].queue)
           fill == Min({remaining, resting.quantity})
<1>5. resting \in Order
  BY <1>1, <1>3, FrontIsIndexed DEF BookPart
<1>6. fill \in 1 .. remaining /\ fill \in 1 .. resting.quantity
  <2>1. resting.quantity \in Nat \ {0}
    BY <1>5 DEF Order
  <2> QED
    BY <1>2, <2>1, FillSize
<1>7. /\ Consistent(book') /\ Counts(book') /\ Uncrossed(book')
      /\ DOMAIN book'.locations \subseteq DOMAIN book.locations
  <2>1. fill \in Nat \ {0} /\ fill <= resting.quantity
    BY <1>5, <1>6 DEF Order
  <2> QED
    BY <1>1, <1>3, <1>4, <2>1, AfterFillBook DEF BookPart
<1>8. Trade(order, resting, fill) \in TradeRecord
  <2>1. fill \in Nat \ {0}
    BY <1>2, <1>6
  <2>2. resting.id \in OrderIds /\ resting.price \in Prices
    BY <1>5 DEF Order
  <2>3. order.id \in OrderIds
    BY <1>2 DEF Aggressor
  <2> HIDE DEF fill, resting
  <2> QED
    BY <1>2, <2>1, <2>2, <2>3 DEF Trade, TradeRecord
<1>9. trades' \in Seq(TradeRecord)
  BY <1>1, <1>4, <1>8, AppendProperties DEF CallPart
<1> HIDE DEF fill, resting, side
<1>10. /\ executed_volume' = executed_volume + fill
       /\ remaining' = remaining - fill
  BY <1>4 DEF fill, resting
<1>11. remaining' \in 0 .. remaining - 1
  BY <1>2, <1>6, <1>10
<1>12. CallPart'
  <2>1. pc' = "match" /\ order' = order
    BY <1>1 DEF Fill
  <2>2. executed_volume' \in Nat /\ executed_volume' + remaining' <= MaxVolume
    BY <1>1, <1>2, <1>6, <1>10, MaxVolumeAssumption DEF CallPart
  <2>3. remaining' \in 0 .. order.quantity
    BY <1>1, <1>2, <1>11 DEF CallPart, Aggressor
  <2>4. ~contains(book', order.id)
    BY <1>1, <1>7 DEF CallPart, contains
  <2> QED
    BY <1>2, <1>9, <2>1, <2>2, <2>3, <2>4 DEF CallPart
<1> QED
  BY <1>7, <1>11, <1>12 DEF IInv, BookPart

LEMMA FinishStep ==
  ASSUME IInv, Finish
  PROVE  IInv'
<1>1. BookPart /\ CallPart /\ pc = "match" /\ MatchIsOver
  BY DEF IInv, Finish
<1>2. /\ order \in Aggressor /\ remaining \in 0 .. order.quantity
      /\ ~contains(book, order.id)
  BY <1>1 DEF CallPart
<1>3. CallPart'
  <2>1. executed_volume' + remaining' <= MaxVolume
    BY <1>1, <1>2, MaxVolumeAssumption DEF Finish, CallPart, Aggressor
  <2> QED
    BY <1>1, <2>1 DEF Finish, CallPart
<1>4. BookPart'
  <2>1. CASE ~Rests(order, remaining)
    BY <1>1, <2>1 DEF Finish, BookPart
  <2>2. CASE Rests(order, remaining)
    <3> DEFINE o == RestingPart(order, remaining)
    <3>1. remaining \in Nat \ {0} /\ order.type = "Limit"
      BY <1>2, <2>2 DEF Rests, Aggressor
    <3>2. o \in Order /\ o.id = order.id /\ o.side = order.side /\ o.price = order.price
      BY <1>2, <3>1 DEF RestingPart, Aggressor, Order
    <3>3. book' = insert_order(book, o)
      BY <2>2 DEF Finish
    <3> HIDE DEF o
    <3>4. Consistent(book') /\ Counts(book')
      BY <1>1, <1>2, <3>2, <3>3, InsertConsistent, InsertCounts DEF BookPart
    <3>5. \/ DOMAIN book.levels[opposite(o.side)] = {}
          \/ \E best \in DOMAIN book.levels[opposite(o.side)] :
               /\ IsBest(book, opposite(o.side), best)
               /\ ~Crosses("Limit", o.side, o.price, best)
      BY <1>1, <3>1, <3>2 DEF MatchIsOver
    <3>6. Uncrossed(book')
      BY <1>1, <1>2, <3>2, <3>3, <3>5, RestUncrossed DEF BookPart
    <3> QED
      BY <3>4, <3>6 DEF BookPart
  <2> QED
    BY <2>1, <2>2
<1> QED
  BY <1>3, <1>4 DEF IInv

LEMMA CancelStep ==
  ASSUME IInv, NEW id, Cancel(id)
  PROVE  IInv'
<1>1. BookPart /\ CallPart /\ pc = "idle" /\ book' = cancel_order(book, id)
  BY DEF IInv, Cancel
<1>2. BookPart'
  <2>1. /\ Consistent(book') /\ Counts(book')
        /\ \A side \in Sides : DOMAIN book'.levels[side] \subseteq DOMAIN book.levels[side]
    BY <1>1, CancelShrinks DEF BookPart
  <2> QED
    BY <1>1, <2>1, FewerPricesUncrossed DEF BookPart
<1>3. CallPart'
  BY <1>1, EmptySeq DEF Cancel, CallPart
<1> QED
  BY <1>2, <1>3 DEF IInv

LEMMA ModifyStep ==
  ASSUME IInv, NEW id \in OrderIds, NEW new_price \in Prices,
         NEW new_quantity \in Int, Modify(id, new_price, new_quantity)
  PROVE  IInv'
<1>1. BookPart /\ CallPart /\ pc = "idle"
  BY DEF IInv, Modify
<1>2. CASE ModifyNothing(id, new_quantity) /\ trades' = <<>>
  <2>1. BookPart'
    BY <1>1, <1>2 DEF ModifyNothing, BookPart
  <2>2. CallPart'
    BY <1>1, <1>2, EmptySeq DEF ModifyNothing, CallPart
  <2> QED
    BY <2>1, <2>2 DEF IInv
<1>3. CASE ModifyInPlace(id, new_price, new_quantity) /\ trades' = <<>>
  <2>1. /\ id \in DOMAIN book.locations
        /\ new_quantity \in Nat \ {0}
        /\ new_quantity <= find(book, id).quantity
        /\ book' = modify_order(book, id, find(book, id).price, new_quantity)
    BY <1>3 DEF ModifyInPlace, contains
  <2>2. /\ Consistent(book') /\ Counts(book')
        /\ \A side \in Sides : DOMAIN book'.levels[side] = DOMAIN book.levels[side]
    BY <1>1, <2>1, DecreaseInPlace DEF BookPart
  <2>3. BookPart'
    BY <1>1, <2>2, FewerPricesUncrossed DEF BookPart
  <2>4. CallPart'
    BY <1>1, <1>3, EmptySeq DEF ModifyInPlace, CallPart
  <2> QED
    BY <2>3, <2>4 DEF IInv
<1>4. CASE ModifyAsNew(id, new_price, new_quantity)
  <2> DEFINE o == [id |-> id, side |-> find(book, id).side, type |-> "Limit",
                   price |-> new_price, quantity |-> new_quantity]
  <2>1. /\ id \in DOMAIN book.locations
        /\ new_quantity \in Nat \ {0}
        /\ book' = cancel_order(book, id)
        /\ StartMatch(o)
    BY <1>4 DEF ModifyAsNew, contains
  <2>2. o \in Aggressor /\ o.id = id
    <3>1. find(book, id).side \in Sides
      BY <1>1, <2>1, FindResting DEF BookPart, Location
    <3> QED
      BY <2>1, <3>1, PricesAssumption DEF Aggressor, OrderTypes
  <2>3. /\ Consistent(book') /\ Counts(book')
        /\ DOMAIN book'.locations = DOMAIN book.locations \ {id}
        /\ \A side \in Sides : DOMAIN book'.levels[side] \subseteq DOMAIN book.levels[side]
    BY <1>1, <2>1, CancelShrinks DEF BookPart
  <2>4. BookPart'
    BY <1>1, <2>3, FewerPricesUncrossed DEF BookPart
  <2> HIDE DEF o
  <2>5. CallPart'
    BY <2>1, <2>2, <2>3, StartMatchStep DEF contains
  <2> QED
    BY <2>4, <2>5 DEF IInv
<1> QED
  BY <1>2, <1>3, <1>4 DEF Modify

LEMMA NextIInv == IInv /\ [Next]_vars => IInv'
<1> SUFFICES ASSUME IInv, [Next]_vars PROVE IInv'
  OBVIOUS
<1>1. ASSUME NEW id \in OrderIds, NEW side \in Sides, NEW quantity \in Quantities,
             NEW price \in Prices,
             Submit([id |-> id, side |-> side, type |-> "Limit",
                     price |-> price, quantity |-> quantity])
      PROVE  IInv'
  <2>1. [id |-> id, side |-> side, type |-> "Limit", price |-> price,
         quantity |-> quantity] \in Aggressor
    BY QuantitiesAssumption, PricesAssumption DEF Aggressor, OrderTypes
  <2> QED
    BY <1>1, <2>1, SubmitStep
<1>2. ASSUME NEW id \in OrderIds, NEW side \in Sides, NEW quantity \in Quantities,
             Submit([id |-> id, side |-> side, type |-> "Market",
                     price |-> 0, quantity |-> quantity])
      PROVE  IInv'
  <2>1. [id |-> id, side |-> side, type |-> "Market", price |-> 0,
         quantity |-> quantity] \in Aggressor
    BY QuantitiesAssumption DEF Aggressor, OrderTypes
  <2> QED
    BY <1>2, <2>1, SubmitStep
<1>3. CASE Fill
  BY <1>3, FillStep
<1>4. CASE Finish
  BY <1>4, FinishStep
<1>5. ASSUME NEW id \in OrderIds, Cancel(id)
      PROVE  IInv'
  BY <1>5, CancelStep
<1>6. ASSUME NEW id \in OrderIds, NEW new_price \in Prices,
             NEW new_quantity \in ModifySizes, Modify(id, new_price, new_quantity)
      PROVE  IInv'
  <2>1. new_quantity \in Int
    BY QuantitiesAssumption DEF ModifySizes
  <2> QED
    BY <1>6, <2>1, ModifyStep
<1>7. CASE UNCHANGED vars
  <2>1. BookPart' /\ CallPart'
    BY <1>7 DEF IInv, vars, BookPart, CallPart
  <2> QED
    BY <2>1 DEF IInv
<1> QED
  BY <1>1, <1>2, <1>3, <1>4, <1>5, <1>6, <1>7 DEF Next

\* Whatever is submitted, filled, cancelled or repriced, no resting buyer
\* reaches a resting seller, and the book's index never disagrees with its
\* queues, in the middle of a match as well.
THEOREM EngineStaysUncrossed == Spec => []BookStaysSound
<1>1. Spec => []IInv
  BY InitIInv, NextIInv, PTL DEF Spec
<1> QED
  BY <1>1, IInvImplies, PTL

\* Every iteration of the matching loop fills at least one share, so a call
\* for n shares returns after at most n fills.
THEOREM LoopTerminates == Spec => [][Fill => remaining' \in 0 .. remaining - 1]_vars
<1>1. Spec => []IInv
  BY InitIInv, NextIInv, PTL DEF Spec
<1>2. IInv /\ [Next]_vars => [Fill => remaining' \in 0 .. remaining - 1]_vars
  BY FillStep
<1> QED
  BY <1>1, <1>2, PTL DEF Spec

(***************************************************************************)
(* Shares are conserved                                                    *)
(***************************************************************************)

\* A fill takes its shares from the front order, and from no other: the order
\* is gone if it sold everything, and shrunk in place if not.
LEMMA AfterFillEffect ==
  ASSUME NEW b, Consistent(b), Counts(b), NEW front \in Order, contains(b, front.id),
         find(b, front.id) = front, NEW fill \in Nat \ {0}, fill <= front.quantity,
         NEW after, after = AfterFill(b, front, fill)
  PROVE  /\ AllShares(after) = AllShares(b) - fill /\ AllShares(b) \in Int
         /\ contains(after, front.id) <=> fill < front.quantity
         /\ fill < front.quantity =>
              find(after, front.id) = [front EXCEPT !.quantity = front.quantity - fill]
         /\ \A id : contains(b, id) /\ id # front.id =>
              contains(after, id) /\ find(after, id) = find(b, id)
<1> DEFINE left == front.quantity - fill
<1>1. front.id \in DOMAIN b.locations
  BY DEF contains
<1>2. front.quantity \in Nat \ {0}
  BY DEF Order
<1>3. CASE fill = front.quantity
  <2>1. after = cancel_order(b, front.id)
    BY <1>3 DEF AfterFill
  <2>2. DOMAIN after.locations = DOMAIN b.locations \ {front.id}
    BY <1>1, <2>1, CancelConsistent
  <2>3. AllShares(after) = AllShares(b) - fill /\ AllShares(b) \in Int
    BY <1>1, <1>3, <2>1, CancelShares
  <2>4. \A id \in DOMAIN b.locations : id # front.id => find(after, id) = find(b, id)
    BY <1>1, <2>1, CancelFindsOthers
  <2> QED
    BY <1>2, <1>3, <2>2, <2>3, <2>4 DEF contains
<1>4. CASE fill # front.quantity
  <2>1. left \in Nat \ {0} /\ left <= find(b, front.id).quantity
    BY <1>1, <1>2, <1>4
  <2>2. after = modify_order(b, front.id, find(b, front.id).price, left)
    BY <1>1, <1>4 DEF AfterFill
  <2> HIDE DEF left
  <2>3. after = Reduced(b, front.id, left) /\ DOMAIN after.locations = DOMAIN b.locations
    BY <1>1, <2>1, <2>2, DecreaseInPlace
  <2>4. AllShares(after) = (AllShares(b) - front.quantity) + left /\ AllShares(b) \in Int
    BY <1>1, <2>1, <2>3, ReducedShares
  <2>5. AllShares(after) = AllShares(b) - fill
    BY <1>2, <2>4 DEF left
  <2>6. /\ find(after, front.id) = [find(b, front.id) EXCEPT !.quantity = left]
        /\ \A id \in DOMAIN b.locations : id # front.id => find(after, id) = find(b, id)
    BY <1>1, <2>1, <2>3, ReducedFindsAll
  <2>7. find(after, front.id) = [front EXCEPT !.quantity = front.quantity - fill]
    BY <2>6 DEF left
  <2>8. contains(after, front.id) /\ fill < front.quantity
    BY <1>1, <1>2, <1>4, <2>3 DEF contains
  <2>9. \A id : contains(b, id) /\ id # front.id =>
              contains(after, id) /\ find(after, id) = find(b, id)
    BY <2>3, <2>6 DEF contains
  <2> QED
    BY <2>4, <2>5, <2>7, <2>8, <2>9
<1> QED
  BY <1>3, <1>4

\* The ledger in terms of the shares of the book.
LEMMA LedgerOf ==
  /\ Ledger = AllShares(book) + remaining + 2 * executed_volume
  /\ Ledger' = AllShares(book') + remaining' + 2 * executed_volume'
BY DEF Ledger, AllShares

LEMMA SharesOfBook ==
  ASSUME NEW b, WellTyped(b), Counts(b)
  PROVE  AllShares(b) \in Int
<1>1. "Buy" \in Sides /\ "Sell" \in Sides
  BY DEF Sides
<1>2. total_shares(b, "Buy") \in Int /\ total_shares(b, "Sell") \in Int
  BY <1>1, TotalsSummable DEF Counts
<1> QED
  BY <1>2 DEF AllShares

\* The fill of one iteration, with the resting order it was made against.
LEMMA FillEffect ==
  ASSUME IInv, Fill
  PROVE  \E front \in Order : \E fill \in Nat \ {0} :
           /\ contains(book, front.id) /\ find(book, front.id) = front
           /\ fill <= front.quantity
           /\ trades' = Append(trades, Trade(order, front, fill))
           /\ executed_volume' = executed_volume + fill
           /\ remaining' = remaining - fill
           /\ book' = AfterFill(book, front, fill)
<1>1. BookPart /\ CallPart /\ pc = "match" /\ remaining > 0
  BY DEF IInv, Fill
<1>2. order \in Aggressor /\ remaining \in Nat \ {0} /\ order.side \in Sides
  BY <1>1 DEF CallPart, Aggressor
<1> DEFINE side == opposite(order.side)
<1>3. side \in Sides
  BY <1>2 DEF opposite, Sides
<1>4. PICK best \in DOMAIN book.levels[side] :
        LET resting == Head(book.levels[side][best].queue)
            fill == Min({remaining, resting.quantity})
        IN /\ trades' = Append(trades, Trade(order, resting, fill))
           /\ executed_volume' = executed_volume + fill
           /\ remaining' = remaining - fill
           /\ book' = AfterFill(book, resting, fill)
  BY DEF Fill, best_order
<1> DEFINE front == Head(book.levels[side][best].queue)
           fill == Min({remaining, front.quantity})
<1>5. /\ front \in Order
      /\ front.id \in DOMAIN book.locations
      /\ find(book, front.id) = front
  BY <1>1, <1>3, FrontIsIndexed DEF BookPart
<1>6. fill \in Nat \ {0} /\ fill <= front.quantity
  <2>1. front.quantity \in Nat \ {0}
    BY <1>5 DEF Order
  <2>2. fill \in 1 .. front.quantity
    BY <1>2, <2>1, FillSize
  <2> QED
    BY <2>1, <2>2
<1>7. /\ trades' = Append(trades, Trade(order, front, fill))
      /\ executed_volume' = executed_volume + fill
      /\ remaining' = remaining - fill
      /\ book' = AfterFill(book, front, fill)
  BY <1>4
<1> HIDE DEF fill, front
<1> QED
  BY <1>5, <1>6, <1>7 DEF contains

LEMMA FillConserves ==
  ASSUME IInv, Fill
  PROVE  SharesConserved
<1>1. BookPart /\ CallPart /\ pc = "match" /\ pc' = "match"
  BY DEF IInv, Fill
<1>2. PICK front \in Order, fill \in Nat \ {0} :
           /\ contains(book, front.id) /\ find(book, front.id) = front
           /\ fill <= front.quantity
           /\ trades' = Append(trades, Trade(order, front, fill))
           /\ executed_volume' = executed_volume + fill
           /\ remaining' = remaining - fill
           /\ book' = AfterFill(book, front, fill)
  BY FillEffect
<1>3. AllShares(book') = AllShares(book) - fill /\ AllShares(book) \in Int
  BY <1>1, <1>2, AfterFillEffect DEF BookPart
<1>4. executed_volume \in Int /\ remaining \in Int
  BY <1>1 DEF CallPart, Aggressor
<1>5. Ledger' = Ledger
  BY <1>2, <1>3, <1>4, LedgerOf
<1> QED
  BY <1>1, <1>5 DEF SharesConserved

LEMMA FinishConserves ==
  ASSUME IInv, Finish
  PROVE  SharesConserved
<1>1. BookPart /\ CallPart /\ pc = "match" /\ pc' = "idle"
  BY DEF IInv, Finish
<1>2. /\ order \in Aggressor /\ remaining \in 0 .. order.quantity
      /\ ~contains(book, order.id)
  BY <1>1 DEF CallPart
<1>3. executed_volume \in Int /\ remaining \in Nat /\ order.type \in OrderTypes
  BY <1>1, <1>2 DEF CallPart, Aggressor
<1>4. AllShares(book) \in Int
  BY <1>1, SharesOfBook DEF BookPart, Consistent
<1>5. remaining' = 0 /\ executed_volume' = executed_volume
  BY DEF Finish
<1>6. AllShares(book') = (AllShares(book) + remaining) - Dropped
  <2>1. CASE Rests(order, remaining)
    <3> DEFINE o == RestingPart(order, remaining)
    <3>1. o \in Order /\ o.id = order.id /\ o.quantity = remaining
      BY <1>2, <1>3, <2>1 DEF RestingPart, Aggressor, Order, Rests
    <3>2. book' = insert_order(book, o)
      BY <2>1 DEF Finish
    <3> HIDE DEF o
    <3>3. AllShares(book') = AllShares(book) + remaining
      BY <1>1, <1>2, <3>1, <3>2, InsertShares DEF BookPart
    <3>4. Dropped = 0
      BY <2>1 DEF Dropped, Rests
    <3> QED
      BY <1>3, <1>4, <3>3, <3>4
  <2>2. CASE ~Rests(order, remaining)
    <3>1. book' = book
      BY <2>2 DEF Finish
    <3>2. Dropped = remaining
      BY <1>3, <2>2 DEF Dropped, Rests, OrderTypes
    <3> QED
      BY <1>3, <1>4, <3>1, <3>2
  <2> QED
    BY <2>1, <2>2
<1>7. Dropped \in Int
  BY <1>3 DEF Dropped
<1>8. Ledger' = Ledger - Dropped
  BY <1>3, <1>4, <1>5, <1>6, <1>7, LedgerOf
<1> QED
  BY <1>1, <1>8 DEF SharesConserved

\* A call that comes in with an order: the book gives up what the id had.
LEMMA StartConserves ==
  ASSUME IInv, pc = "idle", NEW o \in Aggressor, StartMatch(o),
         AllShares(book') = AllShares(book) - SizeIn(book, o.id),
         SizeIn(book, o.id) \in Int
  PROVE  SharesConserved
<1>1. BookPart /\ CallPart
  BY DEF IInv
<1>2. /\ pc' = "match" /\ order' = o
      /\ remaining' = o.quantity /\ executed_volume' = executed_volume
  BY DEF StartMatch
<1>3. remaining = 0 /\ executed_volume \in Int /\ o.quantity \in Int
  BY <1>1 DEF CallPart, Aggressor
<1>4. AllShares(book) \in Int
  BY <1>1, SharesOfBook DEF BookPart, Consistent
<1>5. Ledger' = Ledger + o.quantity - SizeIn(book, o.id)
  BY <1>2, <1>3, <1>4, LedgerOf
<1> QED
  BY <1>2, <1>5 DEF SharesConserved

LEMMA SubmitConserves ==
  ASSUME IInv, NEW o \in Aggressor, Submit(o)
  PROVE  SharesConserved
<1>1. pc = "idle" /\ StartMatch(o) /\ book' = book /\ SizeIn(book, o.id) = 0
  BY DEF Submit, SizeIn
<1>2. AllShares(book) \in Int
  BY SharesOfBook DEF IInv, BookPart, Consistent
<1>3. AllShares(book') = AllShares(book) - SizeIn(book, o.id)
  BY <1>1, <1>2
<1> QED
  BY <1>1, <1>3, StartConserves

\* Between two calls: a step that leaves every id but one as it was, and moves
\* the ledger by what that one lost or gained.
LEMMA OneResized ==
  ASSUME pc = "idle", pc' = "idle", NEW id,
         \A other \in OrderIds : other # id => SizeIn(book', other) = SizeIn(book, other),
         Ledger' = Ledger - SizeIn(book, id) + SizeIn(book', id),
         SizeIn(book, id) = SizeIn(book', id) => Ledger' = Ledger,
         id \in OrderIds
  PROVE  SharesConserved
<1>1. Resized \subseteq {id}
  BY DEF Resized
<1>2. Cardinality(Resized) <= 1
  <2>1. IsFiniteSet({id}) /\ Cardinality({id}) = 1
    BY FS_Singleton
  <2> QED
    BY <1>1, <2>1, FS_Subset
<1>3. \A other \in Resized : other = id
  BY <1>1
<1>4. Resized = {} => Ledger' = Ledger
  BY DEF Resized
<1> QED
  BY <1>2, <1>3, <1>4 DEF SharesConserved

\* A call that changes nothing but the returned trades.
LEMMA NothingResized ==
  ASSUME pc = "idle", UNCHANGED <<book, executed_volume, pc, order, remaining>>
  PROVE  SharesConserved
<1>1. Resized = {}
  BY DEF Resized
<1>2. Ledger' = Ledger
  BY DEF Ledger
<1>3. Cardinality(Resized) = 0
  BY <1>1, FS_EmptySet
<1> QED
  BY <1>1, <1>2, <1>3 DEF SharesConserved

\* What a cancel does to the sizes and to the shares of a book.
LEMMA CancelSizes ==
  ASSUME NEW b, Consistent(b), Counts(b), NEW id, contains(b, id)
  PROVE  /\ AllShares(cancel_order(b, id)) = AllShares(b) - SizeIn(b, id)
         /\ AllShares(b) \in Int
         /\ SizeIn(b, id) \in Nat \ {0}
         /\ SizeIn(cancel_order(b, id), id) = 0
         /\ \A other : other # id => SizeIn(cancel_order(b, id), other) = SizeIn(b, other)
<1> DEFINE after == cancel_order(b, id)
<1>1. id \in DOMAIN b.locations
  BY DEF contains
<1>2. find(b, id) \in Order
  BY <1>1, FindResting
<1>3. AllShares(after) = AllShares(b) - find(b, id).quantity /\ AllShares(b) \in Int
  BY <1>1, CancelShares
<1>4. DOMAIN after.locations = DOMAIN b.locations \ {id}
  BY <1>1, CancelConsistent
<1>5. \A other \in DOMAIN b.locations : other # id => find(after, other) = find(b, other)
  BY <1>1, CancelFindsOthers
<1> HIDE DEF after
<1>6. SizeIn(b, id) = find(b, id).quantity
  BY DEF SizeIn
<1>7. ~contains(after, id)
  BY <1>4 DEF contains
<1>8. \A other : other # id => SizeIn(after, other) = SizeIn(b, other)
  BY <1>4, <1>5 DEF SizeIn, contains
<1> QED
  BY <1>2, <1>3, <1>6, <1>7, <1>8 DEF SizeIn, Order, after

LEMMA CancelConserves ==
  ASSUME IInv, NEW id \in OrderIds, Cancel(id)
  PROVE  SharesConserved
<1>1. BookPart /\ CallPart /\ pc = "idle" /\ pc' = "idle"
  BY DEF IInv, Cancel
<1>2. /\ book' = cancel_order(book, id)
      /\ executed_volume' = executed_volume /\ remaining' = remaining
  BY DEF Cancel
<1>3. executed_volume \in Int /\ remaining = 0
  BY <1>1 DEF CallPart
<1>4. CASE contains(book, id)
  <2>1. /\ AllShares(book') = AllShares(book) - SizeIn(book, id)
        /\ AllShares(book) \in Int
        /\ SizeIn(book, id) \in Nat \ {0}
        /\ SizeIn(book', id) = 0
        /\ \A other : other # id => SizeIn(book', other) = SizeIn(book, other)
    BY <1>1, <1>2, <1>4, CancelSizes DEF BookPart
  <2>2. Ledger' = Ledger - SizeIn(book, id) + SizeIn(book', id)
    BY <1>2, <1>3, <2>1, LedgerOf
  <2> QED
    BY <1>1, <2>1, <2>2, OneResized
<1>5. CASE ~contains(book, id)
  <2>1. UNCHANGED <<book, executed_volume, pc, order, remaining>>
    BY <1>2, <1>5 DEF Cancel, cancel_order
  <2> QED
    BY <1>1, <2>1, NothingResized
<1> QED
  BY <1>4, <1>5

LEMMA ModifyConserves ==
  ASSUME IInv, NEW id \in OrderIds, NEW new_price \in Prices,
         NEW new_quantity \in Int, Modify(id, new_price, new_quantity)
  PROVE  SharesConserved
<1>1. BookPart /\ CallPart /\ pc = "idle"
  BY DEF IInv, Modify
<1>2. CASE ModifyNothing(id, new_quantity)
  BY <1>1, <1>2, NothingResized DEF ModifyNothing
<1>3. CASE ModifyInPlace(id, new_price, new_quantity)
  <2> DEFINE size == find(book, id).quantity
  <2>1. /\ id \in DOMAIN book.locations /\ contains(book, id)
        /\ new_quantity \in Nat \ {0}
        /\ new_quantity <= size
        /\ book' = modify_order(book, id, find(book, id).price, new_quantity)
    BY <1>3 DEF ModifyInPlace, contains
  <2>2. book' = Reduced(book, id, new_quantity) /\ DOMAIN book'.locations = DOMAIN book.locations
    BY <1>1, <2>1, DecreaseInPlace DEF BookPart
  <2>3. AllShares(book') = (AllShares(book) - size) + new_quantity /\ AllShares(book) \in Int
    BY <1>1, <2>1, <2>2, ReducedShares DEF BookPart
  <2>4. find(book, id) \in Order
    BY <1>1, <2>1, FindResting DEF BookPart
  <2>5. /\ find(book', id) = [find(book, id) EXCEPT !.quantity = new_quantity]
        /\ \A other \in DOMAIN book.locations :
             other # id => find(book', other) = find(book, other)
    BY <1>1, <2>1, <2>2, ReducedFindsAll DEF BookPart
  <2>6. SizeIn(book, id) = size /\ size \in Nat \ {0}
    BY <2>1, <2>4 DEF SizeIn, Order
  <2>7. SizeIn(book', id) = new_quantity
    BY <2>1, <2>2, <2>4, <2>5 DEF SizeIn, contains, Order
  <2>8. \A other \in OrderIds : other # id => SizeIn(book', other) = SizeIn(book, other)
    BY <2>2, <2>5 DEF SizeIn, contains
  <2>9. /\ executed_volume' = executed_volume /\ remaining' = remaining /\ pc' = "idle"
        /\ executed_volume \in Int /\ remaining = 0
    BY <1>1, <1>3 DEF ModifyInPlace, CallPart
  <2> HIDE DEF size
  <2>10. Ledger' = Ledger - size + new_quantity /\ Ledger \in Int
    BY <2>1, <2>3, <2>6, <2>9, LedgerOf
  <2>11. size = new_quantity => Ledger' = Ledger
    BY <2>6, <2>10
  <2> QED
    BY <1>1, <2>6, <2>7, <2>8, <2>9, <2>10, <2>11, OneResized
<1>4. CASE ModifyAsNew(id, new_price, new_quantity)
  <2> DEFINE o == [id |-> id, side |-> find(book, id).side, type |-> "Limit",
                   price |-> new_price, quantity |-> new_quantity]
  <2>1. /\ id \in DOMAIN book.locations /\ contains(book, id)
        /\ new_quantity \in Nat \ {0}
        /\ book' = cancel_order(book, id)
        /\ StartMatch(o)
    BY <1>4 DEF ModifyAsNew, contains
  <2>2. o \in Aggressor /\ o.id = id
    <3>1. find(book, id).side \in Sides
      BY <1>1, <2>1, FindResting DEF BookPart, Location
    <3> QED
      BY <2>1, <3>1, PricesAssumption DEF Aggressor, OrderTypes
  <2>3. /\ AllShares(book') = AllShares(book) - SizeIn(book, id)
        /\ SizeIn(book, id) \in Int
    BY <1>1, <2>1, CancelSizes DEF BookPart
  <2> HIDE DEF o
  <2> QED
    BY <1>1, <2>1, <2>2, <2>3, StartConserves
<1> QED
  BY <1>2, <1>3, <1>4 DEF Modify

LEMMA NextConserves == IInv /\ [Next]_vars => [SharesConserved]_vars
<1> SUFFICES ASSUME IInv, Next PROVE SharesConserved
  OBVIOUS
<1>1. ASSUME NEW id \in OrderIds, NEW side \in Sides, NEW quantity \in Quantities,
             NEW price \in Prices,
             Submit([id |-> id, side |-> side, type |-> "Limit",
                     price |-> price, quantity |-> quantity])
      PROVE  SharesConserved
  <2>1. [id |-> id, side |-> side, type |-> "Limit", price |-> price,
         quantity |-> quantity] \in Aggressor
    BY QuantitiesAssumption, PricesAssumption DEF Aggressor, OrderTypes
  <2> QED
    BY <1>1, <2>1, SubmitConserves
<1>2. ASSUME NEW id \in OrderIds, NEW side \in Sides, NEW quantity \in Quantities,
             Submit([id |-> id, side |-> side, type |-> "Market",
                     price |-> 0, quantity |-> quantity])
      PROVE  SharesConserved
  <2>1. [id |-> id, side |-> side, type |-> "Market", price |-> 0,
         quantity |-> quantity] \in Aggressor
    BY QuantitiesAssumption DEF Aggressor, OrderTypes
  <2> QED
    BY <1>2, <2>1, SubmitConserves
<1>3. ASSUME NEW id \in OrderIds, NEW new_price \in Prices,
             NEW new_quantity \in ModifySizes, Modify(id, new_price, new_quantity)
      PROVE  SharesConserved
  <2>1. new_quantity \in Int
    BY QuantitiesAssumption DEF ModifySizes
  <2> QED
    BY <1>3, <2>1, ModifyConserves
<1> QED
  BY <1>1, <1>2, <1>3, FillConserves, FinishConserves, CancelConserves DEF Next

\* No step of any call makes or loses a share: submits bring their size, fills
\* turn resting and wanted shares into two traded ones, only a market order's
\* unfilled part is dropped, and cancels and modifies move one order's shares.
THEOREM SharesAreConserved == Spec => Conservation
<1>1. Spec => []IInv
  BY InitIInv, NextIInv, PTL DEF Spec
<1> QED
  BY <1>1, NextConserves, PTL DEF Spec, Conservation

(***************************************************************************)
(* Only trades touch the resting orders                                    *)
(***************************************************************************)

LEMMA SumOfNone ==
  ASSUME NEW f, DOMAIN f = {}
  PROVE  SumFunction(f) = 0
BY SumEmpty DEF SumFunction

LEMMA SumOfOne ==
  ASSUME NEW f, NEW k, DOMAIN f = {k}, f[k] \in Int
  PROVE  SumFunction(f) = f[k]
<1> DEFINE None == {}
           One == {k}
<1>1. One = None \cup {k} /\ k \notin None
  OBVIOUS
<1>2. IsFiniteSet(None) /\ SumFunctionOnSet(f, None) = 0
  BY FS_EmptySet, SumEmpty
<1>3. SumFunction(f) = SumFunctionOnSet(f, One)
  BY DEF SumFunction
<1>4. \A x \in None : f[x] \in Int
  OBVIOUS
<1> HIDE DEF One, None
<1>5. SumFunctionOnSet(f, One) = SumFunctionOnSet(f, None) + f[k]
  <2>1. f[k] \in Int
    OBVIOUS
  <2> QED
    BY <1>1, <1>2, <1>4, <2>1, SumAdded
<1> QED
  BY <1>2, <1>3, <1>5

\* A step that reports no trade must leave the order as it is.
LEMMA NoTradeNoChange ==
  ASSUME NEW id, trades \in Seq(TradeRecord), trades' = trades,
         contains(book', id), find(book', id) = find(book, id),
         find(book, id) \in Order
  PROVE  OnlyTraded(id)
<1>1. TradesAgainst(id) = {}
  <2>1. DOMAIN trades' = 1 .. Len(trades) /\ Len(trades) \in Nat
    BY LenProperties
  <2> QED
    BY <2>1 DEF TradesAgainst
<1>2. SoldOf(id) = 0
  BY <1>1, SumOfNone DEF SoldOf
<1>3. find(book', id) = [find(book, id) EXCEPT !.quantity = @ - SoldOf(id)]
  <2> DEFINE was == find(book, id)
  <2>1. was \in Order
    OBVIOUS
  <2> HIDE DEF was
  <2>2. [was EXCEPT !.quantity = @ - 0] = was
    BY <2>1 DEF Order
  <2> QED
    BY <1>2, <2>2 DEF was
<1> QED
  BY <1>1, <1>3 DEF OnlyTraded

LEMMA FillOnlyTrades ==
  ASSUME IInv, Fill, NEW id \in DOMAIN book.locations
  PROVE  OnlyTraded(id)
<1>1. BookPart /\ CallPart
  BY DEF IInv
<1>2. PICK front \in Order, fill \in Nat \ {0} :
           /\ contains(book, front.id) /\ find(book, front.id) = front
           /\ fill <= front.quantity
           /\ trades' = Append(trades, Trade(order, front, fill))
           /\ executed_volume' = executed_volume + fill
           /\ remaining' = remaining - fill
           /\ book' = AfterFill(book, front, fill)
  BY FillEffect
<1> DEFINE n == Len(trades)
           t == Trade(order, front, fill)
<1>3. /\ contains(book', front.id) <=> fill < front.quantity
      /\ fill < front.quantity =>
           find(book', front.id) = [front EXCEPT !.quantity = front.quantity - fill]
      /\ \A other : contains(book, other) /\ other # front.id =>
           contains(book', other) /\ find(book', other) = find(book, other)
  BY <1>1, <1>2, AfterFillEffect DEF BookPart
<1>4. n \in Nat /\ DOMAIN trades' = 1 .. n + 1
      /\ trades'[n + 1] = t
  <2>1. trades \in Seq(TradeRecord)
    BY <1>1 DEF CallPart
  <2>2. DOMAIN trades = 1 .. n /\ n \in Nat
    BY <2>1, LenProperties
  <2> HIDE DEF t
  <2>3. trades' = Append(trades, t)
    BY <1>2 DEF t
  <2> QED
    BY <2>1, <2>2, <2>3
<1>5. t.resting_id = front.id /\ t.price = front.price /\ t.quantity = fill
  BY DEF Trade
<1> HIDE DEF n, t
<1>6. \A k \in DOMAIN trades' : k > n <=> k = n + 1
  BY <1>4
<1>7. CASE id = front.id
  <2>1. TradesAgainst(id) = {n + 1}
    BY <1>4, <1>5, <1>6, <1>7 DEF TradesAgainst, n
  <2>2. SoldOf(id) = fill
    <3> DEFINE f == [k \in TradesAgainst(id) |-> trades'[k].quantity]
    <3>1. DOMAIN f = {n + 1} /\ f[n + 1] = fill
      BY <1>4, <1>5, <2>1
    <3>2. SoldOf(id) = SumFunction(f)
      BY DEF SoldOf
    <3> HIDE DEF f
    <3>3. fill \in Int
      OBVIOUS
    <3> QED
      BY <3>1, <3>2, <3>3, SumOfOne
  <2>3. \A k \in TradesAgainst(id) : trades'[k].price = find(book, id).price
    BY <1>2, <1>4, <1>5, <1>7, <2>1
  <2>4. IF contains(book', id)
        THEN find(book', id) = [find(book, id) EXCEPT !.quantity = @ - SoldOf(id)]
        ELSE find(book, id).quantity = SoldOf(id)
    <3>1. CASE fill < front.quantity
      <4>1. contains(book', id)
        BY <1>3, <1>7, <3>1
      <4>2. find(book', id) = [front EXCEPT !.quantity = front.quantity - fill]
        BY <1>3, <1>7, <3>1
      <4> QED
        BY <1>2, <1>7, <2>2, <4>1, <4>2
    <3>2. CASE ~(fill < front.quantity)
      <4>1. fill = front.quantity
        BY <1>2, <3>2 DEF Order
      <4>2. ~contains(book', id)
        BY <1>3, <1>7, <3>2
      <4> QED
        BY <1>2, <1>7, <2>2, <4>1, <4>2
    <3> QED
      BY <3>1, <3>2
  <2> QED
    BY <2>3, <2>4 DEF OnlyTraded
<1>8. CASE id # front.id
  <2>1. TradesAgainst(id) = {}
    BY <1>4, <1>5, <1>6, <1>8 DEF TradesAgainst, n
  <2>2. SoldOf(id) = 0
    BY <2>1, SumOfNone DEF SoldOf
  <2>3. contains(book', id) /\ find(book', id) = find(book, id)
    BY <1>3, <1>8 DEF contains
  <2> DEFINE was == find(book, id)
  <2>4. was \in Order
    BY <1>1, FindResting DEF BookPart
  <2> HIDE DEF was
  <2>5. [was EXCEPT !.quantity = @ - 0] = was
    BY <2>4 DEF Order
  <2> QED
    BY <2>1, <2>2, <2>3, <2>5 DEF OnlyTraded, was
<1> QED
  BY <1>7, <1>8

LEMMA FinishOnlyTrades ==
  ASSUME IInv, Finish, NEW id \in DOMAIN book.locations
  PROVE  OnlyTraded(id)
<1>1. BookPart /\ CallPart /\ pc = "match"
  BY DEF IInv, Finish
<1>2. /\ order \in Aggressor /\ remaining \in 0 .. order.quantity
      /\ ~contains(book, order.id) /\ trades \in Seq(TradeRecord) /\ trades' = trades
  BY <1>1 DEF CallPart, Finish
<1>3. contains(book', id) /\ find(book', id) = find(book, id)
  <2>1. CASE Rests(order, remaining)
    <3> DEFINE o == RestingPart(order, remaining)
    <3>1. o \in Order /\ o.id = order.id
      BY <1>2, <2>1 DEF RestingPart, Aggressor, Order, Rests
    <3>2. book' = insert_order(book, o)
      BY <2>1 DEF Finish
    <3> HIDE DEF o
    <3>3. DOMAIN book'.locations = DOMAIN book.locations \cup {o.id}
      BY <1>1, <1>2, <3>1, <3>2, InsertConsistent DEF BookPart
    <3>4. find(book', id) = find(book, id)
      BY <1>1, <1>2, <3>1, <3>2, InsertFinds DEF BookPart
    <3> QED
      BY <3>3, <3>4 DEF contains
  <2>2. CASE ~Rests(order, remaining)
    BY <2>2 DEF Finish, contains
  <2> QED
    BY <2>1, <2>2
<1>4. find(book, id) \in Order
  BY <1>1, FindResting DEF BookPart
<1> QED
  BY <1>2, <1>3, <1>4, NoTradeNoChange

\* A resting order never loses shares, its price or its place in the index to
\* an order being matched except by a trade that is reported, at the resting
\* order's price and for as many shares as it lost.
THEOREM OthersChangeByTradesOnly == Spec => OnlyTradesTouchOthers
<1> DEFINE Others == pc = "match" => \A id \in DOMAIN book.locations : OnlyTraded(id)
<1>1. Spec => []IInv
  BY InitIInv, NextIInv, PTL DEF Spec
<1>2. IInv /\ [Next]_vars => [Others]_vars
  <2> SUFFICES ASSUME IInv, Next, pc = "match", NEW id \in DOMAIN book.locations
               PROVE  OnlyTraded(id)
    OBVIOUS
  <2>1. Fill \/ Finish
    BY DEF Next, Submit, Cancel, Modify
  <2> QED
    BY <2>1, FillOnlyTrades, FinishOnlyTrades
<1> QED
  BY <1>1, <1>2, PTL DEF Spec, OnlyTradesTouchOthers

(***************************************************************************)
(* The closed form of price-time priority                                  *)
(***************************************************************************)

\* The abstract module's own copies of the common operators.
LEMMA AbstractCopies ==
  /\ Abstract!Sides = Sides
  /\ \A side : Abstract!opposite(side) = opposite(side)
  /\ \A type, side, limit, price :
       Abstract!Crosses(type, side, limit, price) = Crosses(type, side, limit, price)
  /\ \A S : Abstract!Cardinality(S) = Cardinality(S)
  /\ \A S : Abstract!Min(S) = Min(S) /\ Abstract!Max(S) = Max(S)
  /\ \A f : Abstract!SumFunction(f) = SumFunction(f)
<1>1. Abstract!Sides = Sides
  BY DEF Abstract!Sides, Sides
<1>2. \A side : Abstract!opposite(side) = opposite(side)
  BY DEF Abstract!opposite, opposite
<1>3. \A type, side, limit, price :
        Abstract!Crosses(type, side, limit, price) = Crosses(type, side, limit, price)
  BY DEF Abstract!Crosses, Crosses
<1>4. \A S : Abstract!Cardinality(S) = Cardinality(S)
  BY DEF Abstract!Cardinality, Cardinality
<1>5. \A S : Abstract!Min(S) = Min(S) /\ Abstract!Max(S) = Max(S)
  BY DEF Abstract!Min, Min, Abstract!Max, Max
<1>6. \A f : Abstract!SumFunction(f) = SumFunction(f)
  BY DEF Abstract!SumFunction, Abstract!SumFunctionOnSet, Abstract!FoldFunctionOnSet,
         Abstract!MapThenFoldSet, SumFunction, SumFunctionOnSet, FoldFunctionOnSet,
         MapThenFoldSet
<1> QED
  BY <1>1, <1>2, <1>3, <1>4, <1>5, <1>6

\* A sum of zeros.
LEMMA SumOfZeros ==
  ASSUME NEW f, NEW S, IsFiniteSet(S), \A x \in S : f[x] = 0
  PROVE  SumFunctionOnSet(f, S) = 0
<1> DEFINE Done == {s \in SUBSET S : SumFunctionOnSet(f, s) = 0}
<1>1. ASSUME NEW s \in SUBSET S, \A x \in s : s \ {x} \in Done
      PROVE  s \in Done
  <2>1. CASE s = {}
    BY <2>1, SumEmpty
  <2>2. CASE s # {}
    <3>1. PICK x \in s : TRUE
      BY <2>2
    <3>2. IsFiniteSet(s) /\ \A y \in s : f[y] \in Int
      BY FS_Subset
    <3>3. SumFunctionOnSet(f, s) = f[x] + SumFunctionOnSet(f, s \ {x})
      BY <3>1, <3>2, SumTakes
    <3>4. SumFunctionOnSet(f, s \ {x}) = 0
      BY <1>1, <3>1
    <3> QED
      BY <3>1, <3>3, <3>4
  <2> QED
    BY <2>1, <2>2
<1> HIDE DEF Done
<1>2. SUBSET S \subseteq Done
  BY <1>1, AllSubsets
<1> QED
  BY <1>2 DEF Done

\* What stands ahead of an order in a queue: nothing for the first, and one
\* order less once the first has left.
LEMMA AheadInQueue ==
  ASSUME NEW q \in Seq(Order), NEW i \in 1 .. Len(q)
  PROVE  /\ Abstract!SharesAhead(q, i) \in Nat
         /\ i = 1 => Abstract!SharesAhead(q, i) = 0
         /\ i > 1 => q[1].quantity <= Abstract!SharesAhead(q, i)
<1> DEFINE S == 1 .. i - 1
           size == [j \in S |-> q[j].quantity]
<1>1. Len(q) \in Nat /\ IsFiniteSet(S)
  BY LenProperties, FS_Interval
<1>2. \A j \in S : size[j] = q[j].quantity /\ size[j] \in Nat
  <2>1. ASSUME NEW j \in S PROVE q[j] \in Order
    BY <1>1, ElementOfSeq
  <2> QED
    BY <2>1 DEF Order
<1>3. Abstract!SharesAhead(q, i) = SumFunction(size)
  BY AbstractCopies DEF Abstract!SharesAhead
<1>4. SumFunction(size) = SumFunctionOnSet(size, S)
  BY DEF SumFunction
<1>5. i = 1 => S = {}
  OBVIOUS
<1>6. i > 1 => 1 \in S
  BY <1>1
<1> HIDE DEF S, size
<1>7. /\ SumFunctionOnSet(size, S) \in Nat
      /\ \A j \in S : size[j] <= SumFunctionOnSet(size, S)
  BY <1>1, <1>2, SumNat
<1>8. i = 1 => SumFunctionOnSet(size, S) = 0
  BY <1>5, SumEmpty
<1> QED
  BY <1>2, <1>3, <1>4, <1>6, <1>7, <1>8

\* r is q without its first order.
IsRest(q, r) ==
  /\ Len(q) = Len(r) + 1
  /\ \A i \in 1 .. Len(r) : r[i] = q[i + 1]

LEMMA AheadInRest ==
  ASSUME NEW q \in Seq(Order), NEW r \in Seq(Order), IsRest(q, r), NEW i \in 1 .. Len(r)
  PROVE  Abstract!SharesAhead(q, i + 1) = q[1].quantity + Abstract!SharesAhead(r, i)
<1> DEFINE S == 1 .. i
           T == 1 .. i - 1
           U == S \ {1}
           size == [j \in S |-> q[j].quantity]
           rest == [j \in T |-> r[j].quantity]
           next == [j \in T |-> j + 1]
<1>0. Len(r) \in Nat
  BY LenProperties
<1>1. /\ Len(r) \in Nat /\ Len(q) = Len(r) + 1
      /\ \A j \in 1 .. Len(r) : r[j] = q[j + 1]
      /\ IsFiniteSet(S) /\ IsFiniteSet(T) /\ 1 \in S
  <2>1. i \in Int /\ i - 1 \in Int /\ 1 \in S
    BY <1>0
  <2>2. IsFiniteSet(1 .. i) /\ IsFiniteSet(1 .. i - 1)
    BY <2>1, FS_Interval
  <2> QED
    BY <1>0, <2>1, <2>2 DEF IsRest
<1>2. \A j \in S : size[j] = q[j].quantity /\ size[j] \in Int
  <2>1. ASSUME NEW j \in S PROVE q[j] \in Order
    BY <1>1, ElementOfSeq
  <2> QED
    BY <2>1 DEF Order
<1>3. Abstract!SharesAhead(r, i) = SumFunction(rest)
  BY AbstractCopies DEF Abstract!SharesAhead
<1>4. SumFunction(rest) = SumFunctionOnSet(rest, T)
  BY DEF SumFunction
<1>5. Abstract!SharesAhead(q, i + 1) = SumFunction([j \in 1 .. (i + 1) - 1 |-> q[j].quantity])
  BY AbstractCopies DEF Abstract!SharesAhead
<1>6. (i + 1) - 1 = i
  OBVIOUS
<1>7. SumFunction(size) = SumFunctionOnSet(size, S)
  BY DEF SumFunction
<1>8. \A j \in T : next[j] \in U /\ rest[j] = size[next[j]]
  <2> SUFFICES ASSUME NEW j \in T PROVE next[j] \in U /\ rest[j] = size[next[j]]
    OBVIOUS
  <2>1. j \in 1 .. Len(r) /\ next[j] = j + 1 /\ j + 1 \in U
    BY <1>1
  <2> QED
    BY <1>1, <2>1
<1>9. \A j, k \in T : next[j] = next[k] => j = k
  OBVIOUS
<1>10. \A k \in U : \E j \in T : next[j] = k
  <2> SUFFICES ASSUME NEW k \in U PROVE \E j \in T : next[j] = k
    OBVIOUS
  <2>1. k - 1 \in T /\ next[k - 1] = k
    OBVIOUS
  <2> QED
    BY <2>1
<1>11. U \subseteq S
  OBVIOUS
<1>12. Abstract!SharesAhead(q, i + 1) = SumFunction(size)
  BY <1>5, <1>6
<1> HIDE DEF S, T, size, rest, next
<1>13. SumFunctionOnSet(rest, T) = SumFunctionOnSet(size, U)
  <2> HIDE DEF U
  <2>1. IsFiniteSet(T) /\ \A k \in U : size[k] \in Int
    BY <1>1, <1>2, <1>11
  <2> QED
    BY <1>8, <1>9, <1>10, <2>1, SumRenamed
<1>14. SumFunctionOnSet(size, S) = size[1] + SumFunctionOnSet(size, S \ {1})
  <2>1. IsFiniteSet(S) /\ 1 \in S /\ \A j \in S : size[j] \in Int
    BY <1>1, <1>2
  <2> QED
    BY <2>1, SumTakes
<1>15. size[1] = q[1].quantity
  BY <1>1, <1>2
<1> QED
  BY <1>3, <1>4, <1>7, <1>12, <1>13, <1>14, <1>15

\* What an order of this size gives up when x shares are still wanted.
Share(x, size) == IF x <= 0 THEN 0 ELSE IF x < size THEN x ELSE size

LEMMA ShareIs ==
  ASSUME NEW x \in Int, NEW size \in Nat \ {0}
  PROVE  Max({0, Min({size, x})}) = Share(x, size)
<1> DEFINE least == Min({size, x})
           most == Max({0, least})
<1>1. \E y \in {size, x} : \A z \in {size, x} : y <= z
  OBVIOUS
<1>2. least \in {size, x} /\ \A z \in {size, x} : least <= z
  BY <1>1 DEF Min
<1> HIDE DEF least
<1>3. least \in Int
  BY <1>2
<1>4. \E y \in {0, least} : \A z \in {0, least} : y >= z
  BY <1>3
<1>5. most \in {0, least} /\ \A z \in {0, least} : most >= z
  BY <1>4 DEF Max
<1> HIDE DEF most
<1>6. most = Share(x, size)
  BY <1>2, <1>3, <1>5 DEF Share
<1> QED
  BY <1>6 DEF most, least

\* The aggressor reaches the i-th order of the queue.
Reaches(o, queue, i) == Crosses(o.type, o.side, o.price, queue[i].price)

LEMMA TakenIs ==
  ASSUME NEW q \in Seq(Order), NEW o, NEW wanted \in Nat, NEW i \in 1 .. Len(q)
  PROVE  /\ Abstract!Taken(q, o, wanted, i) =
              IF Reaches(o, q, i)
              THEN Share(wanted - Abstract!SharesAhead(q, i), q[i].quantity)
              ELSE 0
         /\ Abstract!Taken(q, o, wanted, i) \in 0 .. q[i].quantity
<1> DEFINE ahead == Abstract!SharesAhead(q, i)
           size == q[i].quantity
<1>1. ahead \in Nat
  BY AheadInQueue
<1>2. q[i] \in Order
  BY ElementOfSeq
<1>3. size \in Nat \ {0}
  BY <1>2 DEF Order
<1>4. Abstract!Taken(q, o, wanted, i) =
        IF Reaches(o, q, i) THEN Max({0, Min({size, wanted - ahead})}) ELSE 0
  BY AbstractCopies DEF Abstract!Taken, Reaches
<1> HIDE DEF ahead, size
<1>5. Max({0, Min({size, wanted - ahead})}) = Share(wanted - ahead, size)
  <2>1. wanted - ahead \in Int
    BY <1>1
  <2> QED
    BY <1>3, <2>1, ShareIs
<1>6. Share(wanted - ahead, size) \in 0 .. size
  BY <1>1, <1>3 DEF Share
<1>7. 0 \in 0 .. size
  BY <1>3
<1> QED
  BY <1>4, <1>5, <1>6, <1>7 DEF ahead, size

\* Nothing is taken by an order that wants nothing or reaches nothing.
LEMMA NothingTaken ==
  ASSUME NEW q \in Seq(Order), NEW o, NEW wanted \in Nat, NEW i \in 1 .. Len(q),
         wanted = 0 \/ ~Reaches(o, q, i)
  PROVE  Abstract!Taken(q, o, wanted, i) = 0
<1>1. Abstract!SharesAhead(q, i) \in Nat
  BY AheadInQueue
<1>2. wanted = 0 => Share(wanted - Abstract!SharesAhead(q, i), q[i].quantity) = 0
  BY <1>1 DEF Share
<1> QED
  BY <1>2, TakenIs

\* The first order gives what it has, up to what is wanted.
LEMMA FirstTaken ==
  ASSUME NEW q \in Seq(Order), NEW o, NEW wanted \in Nat, q # <<>>, Reaches(o, q, 1)
  PROVE  /\ wanted >= q[1].quantity => Abstract!Taken(q, o, wanted, 1) = q[1].quantity
         /\ wanted < q[1].quantity => Abstract!Taken(q, o, wanted, 1) = wanted
<1>1. 1 \in 1 .. Len(q)
  BY LenProperties, EmptySeq
<1>2. q[1] \in Order
  BY <1>1, ElementOfSeq
<1>3. Abstract!SharesAhead(q, 1) = 0
  BY <1>1, AheadInQueue
<1>4. Abstract!Taken(q, o, wanted, 1) = Share(wanted - 0, q[1].quantity)
  BY <1>1, <1>3, TakenIs
<1> QED
  BY <1>2, <1>4 DEF Share, Order

\* Behind an order that gives all that is wanted, nothing is taken.
LEMMA LaterTaken ==
  ASSUME NEW q \in Seq(Order), NEW o, NEW wanted \in Nat, wanted < q[1].quantity,
         NEW i \in 1 .. Len(q), i # 1
  PROVE  Abstract!Taken(q, o, wanted, i) = 0
<1>1. i > 1 /\ 1 \in 1 .. Len(q)
  BY LenProperties
<1>2. q[1] \in Order
  BY <1>1, ElementOfSeq
<1>3. Abstract!SharesAhead(q, i) \in Nat /\ q[1].quantity <= Abstract!SharesAhead(q, i)
  BY <1>1, AheadInQueue
<1>4. Share(wanted - Abstract!SharesAhead(q, i), q[i].quantity) = 0
  BY <1>2, <1>3 DEF Share, Order
<1> QED
  BY <1>4, TakenIs

\* Behind an order that is used up, what is left is taken as before.
LEMMA RestTaken ==
  ASSUME NEW q \in Seq(Order), NEW r \in Seq(Order), IsRest(q, r), NEW o,
         NEW wanted \in Nat, q[1].quantity <= wanted, NEW i \in 1 .. Len(r)
  PROVE  Abstract!Taken(q, o, wanted, i + 1)
           = Abstract!Taken(r, o, wanted - q[1].quantity, i)
<1> DEFINE size == q[1].quantity
<1>1. /\ i + 1 \in 1 .. Len(q) /\ 1 \in 1 .. Len(q)
      /\ r[i] = q[i + 1]
  BY LenProperties DEF IsRest
<1>2. size \in Nat
  <2>1. q[1] \in Order
    BY <1>1, ElementOfSeq
  <2> QED
    BY <2>1 DEF Order
<1>3. /\ Abstract!SharesAhead(q, i + 1) = size + Abstract!SharesAhead(r, i)
      /\ Abstract!SharesAhead(r, i) \in Nat
  BY AheadInRest, AheadInQueue
<1>4. wanted - Abstract!SharesAhead(q, i + 1)
        = (wanted - size) - Abstract!SharesAhead(r, i)
  BY <1>2, <1>3
<1>5. wanted - size \in Nat
  BY <1>2
<1> DEFINE k == i + 1
<1> HIDE DEF size, k
<1>6. Abstract!Taken(q, o, wanted, k) =
        IF Reaches(o, q, k) THEN Share(wanted - Abstract!SharesAhead(q, k), q[k].quantity)
        ELSE 0
  BY <1>1, TakenIs DEF k
<1>7. Abstract!Taken(r, o, wanted - size, i) =
        IF Reaches(o, r, i)
        THEN Share((wanted - size) - Abstract!SharesAhead(r, i), r[i].quantity)
        ELSE 0
  BY <1>5, TakenIs
<1>8. r[i] = q[k] /\ wanted - Abstract!SharesAhead(q, k)
                       = (wanted - size) - Abstract!SharesAhead(r, i)
  BY <1>1, <1>4 DEF k
<1> QED
  BY <1>6, <1>7, <1>8 DEF Reaches, size, k

(***************************************************************************)
(* The parts of an outcome                                                 *)
(***************************************************************************)

UsedUp(q, taken) == {i \in DOMAIN q : taken[i] = q[i].quantity}

Hit(q, taken) == {i \in DOMAIN q : taken[i] > 0}

Lighter(o, n) == [o EXCEPT !.quantity = o.quantity - n]

Lessened(q, taken) == [i \in DOMAIN q |-> Lighter(q[i], taken[i])]

\* The outcome from what each order of the opposite queue gives up.
OutcomeWith(resting, volume, done, o, wanted, q, taken) ==
  [resting |-> Abstract!Rested([resting EXCEPT ![opposite(o.side)] = Abstract!Left(q, taken)],
                               o, wanted - SumFunction(taken)),
   executed_volume |-> volume + SumFunction(taken),
   trades |-> done \o Abstract!Prints(o, q, taken)]

LEMMA OutcomeIs ==
  ASSUME NEW resting, NEW volume, NEW done, NEW o, NEW wanted,
         NEW q, q = resting[opposite(o.side)],
         NEW taken, taken = Abstract!Takes(q, o, wanted)
  PROVE  Abstract!Outcome(resting, volume, done, o, wanted) =
           OutcomeWith(resting, volume, done, o, wanted, q, taken)
BY AbstractCopies DEF Abstract!Outcome, OutcomeWith

LEMMA LeftIs ==
  ASSUME NEW q, NEW taken
  PROVE  Abstract!Left(q, taken) =
           SubSeq(Lessened(q, taken), Cardinality(UsedUp(q, taken)) + 1, Len(q))
BY AbstractCopies DEF Abstract!Left, Lessened, Lighter, UsedUp

LEMMA PrintsAre ==
  ASSUME NEW o, NEW q, NEW taken
  PROVE  Abstract!Prints(o, q, taken) =
           [i \in 1 .. Cardinality(Hit(q, taken)) |->
              Abstract!TradeWith(o, q[i], taken[i])]
BY AbstractCopies DEF Abstract!Prints, Hit

\* Each order gives up a part of its size.
LEMMA TakesOf ==
  ASSUME NEW q \in Seq(Order), NEW o, NEW wanted \in Nat,
         NEW taken, taken = Abstract!Takes(q, o, wanted)
  PROVE  /\ DOMAIN q = 1 .. Len(q) /\ Len(q) \in Nat /\ IsFiniteSet(1 .. Len(q))
         /\ DOMAIN taken = 1 .. Len(q)
         /\ \A i \in 1 .. Len(q) :
              /\ q[i] \in Order
              /\ q[i].quantity \in Nat \ {0}
              /\ taken[i] = Abstract!Taken(q, o, wanted, i)
              /\ taken[i] \in Nat
         /\ SumFunction(taken) = SumFunctionOnSet(taken, 1 .. Len(q))
         /\ SumFunction(taken) \in Nat
<1>1. DOMAIN q = 1 .. Len(q) /\ Len(q) \in Nat
  BY LenProperties
<1>2. IsFiniteSet(1 .. Len(q))
  BY <1>1, FS_Interval
<1>3. ASSUME NEW i \in 1 .. Len(q)
      PROVE  /\ q[i] \in Order
             /\ q[i].quantity \in Nat \ {0}
             /\ taken[i] = Abstract!Taken(q, o, wanted, i)
             /\ taken[i] \in Nat
  <2>1. q[i] \in Order
    BY ElementOfSeq
  <2>2. q[i].quantity \in Nat \ {0}
    BY <2>1 DEF Order
  <2>3. taken[i] = Abstract!Taken(q, o, wanted, i)
    BY <1>1 DEF Abstract!Takes
  <2>4. Abstract!Taken(q, o, wanted, i) \in 0 .. q[i].quantity
    BY TakenIs
  <2> QED
    BY <2>1, <2>2, <2>3, <2>4
<1>4. DOMAIN taken = 1 .. Len(q)
  BY <1>1 DEF Abstract!Takes
<1>5. SumFunction(taken) = SumFunctionOnSet(taken, 1 .. Len(q))
  BY <1>4 DEF SumFunction
<1> DEFINE S == 1 .. Len(q)
<1>6. \A i \in S : taken[i] \in Nat
  BY <1>3
<1>7. SumFunctionOnSet(taken, S) \in Nat
  <2>1. IsFiniteSet(S)
    BY <1>2
  <2> HIDE DEF S
  <2> QED
    BY <1>6, <2>1, SumNat
<1> QED
  BY <1>1, <1>2, <1>3, <1>4, <1>5, <1>7

\* What a queue can become: its orders, used up or not.
Remnant == [id : OrderIds, side : Sides, price : Prices, quantity : Int]

LEMMA LessenedOf ==
  ASSUME NEW q \in Seq(Order), NEW taken, NEW i \in 1 .. Len(q), taken[i] \in Nat
  PROVE  /\ Lessened(q, taken)[i] = Lighter(q[i], taken[i])
         /\ Lessened(q, taken)[i] \in Remnant
<1> DEFINE n == taken[i]
<1>1. q[i] \in Order /\ i \in DOMAIN q /\ n \in Nat
  BY ElementOfSeq, LenProperties
<1>2. Lessened(q, taken)[i] = Lighter(q[i], n)
  BY <1>1 DEF Lessened
<1> HIDE DEF n
<1>3. q[i].quantity - n \in Int
  BY <1>1 DEF Order
<1>4. Lessened(q, taken)[i] \in Remnant
  BY <1>1, <1>2, <1>3 DEF Lighter, Order, Remnant
<1> QED
  BY <1>2, <1>4 DEF n

\* If nothing is taken, nothing changes.
LEMMA NothingFilled ==
  ASSUME NEW q \in Seq(Order), NEW o, NEW wanted \in Nat,
         NEW taken, taken = Abstract!Takes(q, o, wanted),
         \A i \in 1 .. Len(q) : Abstract!Taken(q, o, wanted, i) = 0
  PROVE  /\ SumFunction(taken) = 0
         /\ Abstract!Left(q, taken) = q
         /\ Abstract!Prints(o, q, taken) = <<>>
<1> DEFINE S == 1 .. Len(q)
           lessened == Lessened(q, taken)
<1>1. /\ DOMAIN q = S /\ Len(q) \in Nat /\ IsFiniteSet(S)
      /\ \A i \in S : taken[i] = 0 /\ q[i] \in Order /\ q[i].quantity \in Nat \ {0}
  BY TakesOf
<1>2. SumFunction(taken) = 0
  <2>1. SumFunction(taken) = SumFunctionOnSet(taken, S)
    BY TakesOf
  <2> HIDE DEF S
  <2> QED
    BY <1>1, <2>1, SumOfZeros
<1>3. UsedUp(q, taken) = {} /\ Hit(q, taken) = {}
  BY <1>1 DEF UsedUp, Hit
<1>4. \A i \in S : lessened[i] = q[i]
  <2> SUFFICES ASSUME NEW i \in S PROVE lessened[i] = q[i]
    OBVIOUS
  <2>1. taken[i] = 0 /\ taken[i] \in Nat /\ q[i] \in Order
    BY <1>1
  <2>2. lessened[i] = Lighter(q[i], 0)
    BY <2>1, LessenedOf
  <2>3. \A r \in Order : r.quantity - 0 = r.quantity /\ [r EXCEPT !.quantity = r.quantity] = r
    BY DEF Order
  <2> QED
    BY <2>1, <2>2, <2>3 DEF Lighter
<1>5. Abstract!Left(q, taken) = q
  <2>1. Cardinality(UsedUp(q, taken)) + 1 = 1
    BY <1>3, FS_EmptySet
  <2>2. lessened = [i \in S |-> lessened[i]]
    BY <1>1 DEF Lessened
  <2>3. q = [i \in S |-> q[i]]
    BY <1>1
  <2> HIDE DEF lessened, S
  <2>4. lessened = q
    BY <1>4, <2>2, <2>3
  <2>5. Abstract!Left(q, taken) = SubSeq(q, 1, Len(q))
    BY <2>1, <2>4, LeftIs DEF lessened
  <2> QED
    BY <2>5, SubSeqFull
<1>6. Abstract!Prints(o, q, taken) = <<>>
  <2>1. Cardinality(Hit(q, taken)) = 0
    BY <1>3, FS_EmptySet
  <2> QED
    BY <2>1, PrintsAre
<1> QED
  BY <1>2, <1>5, <1>6

\* A set of positions, and the same one place further behind a new first.
LEMMA ShiftedCount ==
  ASSUME NEW n \in Nat, NEW S \in SUBSET (1 .. n), NEW T, T = {1} \cup {i + 1 : i \in S}
  PROVE  /\ Cardinality(T) = Cardinality(S) + 1
         /\ Cardinality(S) \in 0 .. n
<1> DEFINE U == {i + 1 : i \in S}
           f == [i \in S |-> i + 1]
<1>1. IsFiniteSet(1 .. n) /\ Cardinality(1 .. n) = n
  BY FS_Interval
<1>2. IsFiniteSet(S) /\ Cardinality(S) \in Nat /\ Cardinality(S) <= n
  BY <1>1, FS_Subset, FS_CardinalityType
<1>3. f \in Surjection(S, U)
  BY DEF Surjection
<1>4. f \in Injection(S, U)
  BY DEF Injection, IsInjective
<1>5. IsFiniteSet(U) /\ Cardinality(U) = Cardinality(S)
  <2> HIDE DEF U, f
  <2> QED
    BY <1>2, <1>3, <1>4, FS_Surjection
<1>6. 1 \notin U /\ T = U \cup {1}
  OBVIOUS
<1> HIDE DEF U
<1>7. Cardinality(U \cup {1}) = Cardinality(U) + 1
  BY <1>5, <1>6, FS_AddElement
<1> QED
  BY <1>2, <1>5, <1>6, <1>7

\* The first order of q gives up all it has; behind it, the queue r gives up
\* what it would give up on its own.
FirstGone(q, taken, r, rest) ==
  /\ Len(q) = Len(r) + 1
  /\ taken[1] = q[1].quantity
  /\ \A i \in 1 .. Len(r) : r[i] = q[i + 1] /\ rest[i] = taken[i + 1]

LEMMA GoneTakes ==
  ASSUME NEW q \in Seq(Order), NEW r \in Seq(Order), IsRest(q, r),
         NEW o, Reaches(o, q, 1), NEW wanted \in Nat, q[1].quantity <= wanted,
         NEW taken, taken = Abstract!Takes(q, o, wanted),
         NEW rest, rest = Abstract!Takes(r, o, wanted - q[1].quantity)
  PROVE  /\ FirstGone(q, taken, r, rest)
         /\ wanted - q[1].quantity \in Nat
<1> DEFINE left == wanted - q[1].quantity
<1>1. /\ Len(r) \in Nat /\ Len(q) = Len(r) + 1 /\ 1 \in 1 .. Len(q) /\ q # <<>>
      /\ \A i \in 1 .. Len(r) : r[i] = q[i + 1]
  <2>1. Len(r) \in Nat /\ Len(q) = Len(r) + 1
    BY LenProperties DEF IsRest
  <2> QED
    BY <2>1, EmptySeq DEF IsRest
<1>2. /\ \A i \in 1 .. Len(q) : taken[i] = Abstract!Taken(q, o, wanted, i)
      /\ q[1].quantity \in Nat \ {0}
  BY <1>1, TakesOf
<1>3. left \in Nat
  BY <1>2
<1>4. \A i \in 1 .. Len(r) : rest[i] = Abstract!Taken(r, o, left, i)
  <2> HIDE DEF left
  <2>1. rest = Abstract!Takes(r, o, left)
    BY DEF left
  <2> QED
    BY <1>3, <2>1, TakesOf
<1>5. taken[1] = q[1].quantity
  <2>1. Abstract!Taken(q, o, wanted, 1) = q[1].quantity
    BY <1>1, <1>2, FirstTaken
  <2> QED
    BY <1>1, <1>2, <2>1
<1>6. ASSUME NEW i \in 1 .. Len(r) PROVE rest[i] = taken[i + 1]
  <2>1. Abstract!Taken(q, o, wanted, i + 1) = Abstract!Taken(r, o, left, i)
    BY RestTaken
  <2>2. i + 1 \in 1 .. Len(q)
    BY <1>1
  <2> QED
    BY <1>2, <1>4, <2>1, <2>2
<1> QED
  BY <1>1, <1>3, <1>5, <1>6 DEF FirstGone

LEMMA GoneCounts ==
  ASSUME NEW q \in Seq(Order), NEW r \in Seq(Order), NEW taken, NEW rest,
         FirstGone(q, taken, r, rest)
  PROVE  /\ Cardinality(UsedUp(q, taken)) = Cardinality(UsedUp(r, rest)) + 1
         /\ Cardinality(UsedUp(r, rest)) \in 0 .. Len(r)
         /\ Cardinality(Hit(q, taken)) = Cardinality(Hit(r, rest)) + 1
         /\ Cardinality(Hit(r, rest)) \in 0 .. Len(r)
<1> DEFINE n == Len(r)
<1>1. /\ n \in Nat /\ DOMAIN q = 1 .. n + 1 /\ DOMAIN r = 1 .. n
      /\ taken[1] = q[1].quantity
      /\ \A i \in 1 .. n : r[i] = q[i + 1] /\ rest[i] = taken[i + 1]
  BY LenProperties DEF FirstGone
<1>2. q[1].quantity > 0
  <2>1. 1 \in 1 .. Len(q)
    BY <1>1, LenProperties DEF FirstGone
  <2>2. q[1] \in Order
    BY <2>1, ElementOfSeq
  <2> QED
    BY <2>2 DEF Order
<1> HIDE DEF n
<1>3. /\ UsedUp(r, rest) \in SUBSET (1 .. n)
      /\ UsedUp(q, taken) = {1} \cup {i + 1 : i \in UsedUp(r, rest)}
  <2>1. UsedUp(r, rest) = {i \in 1 .. n : taken[i + 1] = q[i + 1].quantity}
    BY <1>1 DEF UsedUp
  <2>2. UsedUp(q, taken) = {i \in 1 .. n + 1 : taken[i] = q[i].quantity}
    BY <1>1 DEF UsedUp
  <2>3. ASSUME NEW i \in 1 .. n + 1, taken[i] = q[i].quantity, i # 1
        PROVE  i \in {k + 1 : k \in UsedUp(r, rest)}
    <3>1. i - 1 \in 1 .. n /\ (i - 1) + 1 = i
      BY <1>1, <2>3
    <3>2. i - 1 \in UsedUp(r, rest)
      BY <2>1, <2>3, <3>1
    <3> QED
      BY <3>1, <3>2
  <2>4. ASSUME NEW k \in UsedUp(r, rest) PROVE k + 1 \in UsedUp(q, taken)
    BY <1>1, <2>1, <2>2
  <2>5. 1 \in UsedUp(q, taken)
    BY <1>1, <2>2
  <2> QED
    BY <2>1, <2>2, <2>3, <2>4, <2>5
<1>4. /\ Hit(r, rest) \in SUBSET (1 .. n)
      /\ Hit(q, taken) = {1} \cup {i + 1 : i \in Hit(r, rest)}
  <2>1. Hit(r, rest) = {i \in 1 .. n : taken[i + 1] > 0}
    BY <1>1 DEF Hit
  <2>2. Hit(q, taken) = {i \in 1 .. n + 1 : taken[i] > 0}
    BY <1>1 DEF Hit
  <2>3. ASSUME NEW i \in 1 .. n + 1, taken[i] > 0, i # 1
        PROVE  i \in {k + 1 : k \in Hit(r, rest)}
    <3>1. i - 1 \in 1 .. n /\ (i - 1) + 1 = i
      BY <1>1, <2>3
    <3>2. i - 1 \in Hit(r, rest)
      BY <2>1, <2>3, <3>1
    <3> QED
      BY <3>1, <3>2
  <2>4. ASSUME NEW k \in Hit(r, rest) PROVE k + 1 \in Hit(q, taken)
    BY <1>1, <2>1, <2>2
  <2>5. 1 \in Hit(q, taken)
    BY <1>1, <1>2, <2>2
  <2> QED
    BY <2>1, <2>2, <2>3, <2>4, <2>5
<1>5. /\ Cardinality(UsedUp(q, taken)) = Cardinality(UsedUp(r, rest)) + 1
      /\ Cardinality(UsedUp(r, rest)) \in 0 .. n
  BY <1>1, <1>3, ShiftedCount
<1>6. /\ Cardinality(Hit(q, taken)) = Cardinality(Hit(r, rest)) + 1
      /\ Cardinality(Hit(r, rest)) \in 0 .. n
  BY <1>1, <1>4, ShiftedCount
<1> QED
  BY <1>5, <1>6 DEF n

LEMMA GoneFilled ==
  ASSUME NEW n \in Nat, NEW taken, NEW rest,
         \A i \in 1 .. n + 1 : taken[i] \in Int,
         \A i \in 1 .. n : rest[i] = taken[i + 1]
  PROVE  SumFunctionOnSet(taken, 1 .. n + 1) = taken[1] + SumFunctionOnSet(rest, 1 .. n)
<1> DEFINE S == 1 .. n + 1
           T == 1 .. n
           U == S \ {1}
           next == [i \in T |-> i + 1]
<1>1. IsFiniteSet(S) /\ IsFiniteSet(T) /\ 1 \in S
  BY FS_Interval
<1>2. \A i \in S : taken[i] \in Int
  OBVIOUS
<1>3. \A i \in T : next[i] \in U /\ rest[i] = taken[next[i]]
  OBVIOUS
<1>4. \A i, k \in T : next[i] = next[k] => i = k
  OBVIOUS
<1>5. \A k \in U : \E i \in T : next[i] = k
  <2> SUFFICES ASSUME NEW k \in U PROVE \E i \in T : next[i] = k
    OBVIOUS
  <2>1. k - 1 \in T /\ next[k - 1] = k
    OBVIOUS
  <2> QED
    BY <2>1
<1>6. \A k \in U : taken[k] \in Int
  OBVIOUS
<1> HIDE DEF S, T, next
<1>7. SumFunctionOnSet(taken, S) = taken[1] + SumFunctionOnSet(taken, S \ {1})
  BY <1>1, <1>2, SumTakes
<1>8. SumFunctionOnSet(rest, T) = SumFunctionOnSet(taken, U)
  <2>1. IsFiniteSet(T)
    BY <1>1
  <2> HIDE DEF U
  <2> QED
    BY <1>3, <1>4, <1>5, <1>6, <2>1, SumRenamed
<1> QED
  BY <1>7, <1>8 DEF S, T

LEMMA GoneLeft ==
  ASSUME NEW q \in Seq(Order), NEW r \in Seq(Order), NEW taken, NEW rest,
         FirstGone(q, taken, r, rest), \A i \in 1 .. Len(r) : rest[i] \in Nat
  PROVE  Abstract!Left(q, taken) = Abstract!Left(r, rest)
<1> DEFINE n == Len(r)
           g == Cardinality(UsedUp(r, rest))
           big == Lessened(q, taken)
           small == Lessened(r, rest)
           after == SubSeq(big, (g + 1) + 1, n + 1)
           same == SubSeq(small, g + 1, n)
<1>1. /\ n \in Nat /\ Len(q) = n + 1 /\ g \in 0 .. n
      /\ Cardinality(UsedUp(q, taken)) = g + 1
      /\ \A i \in 1 .. n : r[i] = q[i + 1] /\ rest[i] = taken[i + 1]
  BY LenProperties, GoneCounts DEF FirstGone
<1>2. Abstract!Left(q, taken) = after /\ Abstract!Left(r, rest) = same
  BY <1>1, LeftIs
<1>3. \A i \in 1 .. n : small[i] \in Remnant
  BY LessenedOf
<1>4. ASSUME NEW i \in 1 .. n PROVE big[i + 1] = small[i]
  <2> DEFINE k == i + 1
  <2>1. k \in 1 .. Len(q) /\ rest[i] \in Nat /\ rest[i] = taken[k] /\ r[i] = q[k]
    BY <1>1
  <2> HIDE DEF k
  <2>2. Lessened(q, taken)[k] = Lighter(q[k], taken[k])
    BY <2>1, LessenedOf
  <2>3. Lessened(r, rest)[i] = Lighter(r[i], rest[i])
    BY <2>1, LessenedOf
  <2> QED
    BY <2>1, <2>2, <2>3 DEF k
<1> HIDE DEF n, g, big, small
<1>5. \A i \in (g + 1) + 1 .. n + 1 : big[i] \in Remnant
  <2> SUFFICES ASSUME NEW i \in (g + 1) + 1 .. n + 1 PROVE big[i] \in Remnant
    OBVIOUS
  <2>1. i - 1 \in 1 .. n /\ (i - 1) + 1 = i
    BY <1>1
  <2> QED
    BY <1>3, <1>4, <2>1
<1>6. /\ after \in Seq(Remnant)
      /\ Len(after) = IF (g + 1) + 1 <= n + 1 THEN (n + 1) - ((g + 1) + 1) + 1 ELSE 0
      /\ \A i \in 1 .. (n + 1) - ((g + 1) + 1) + 1 : after[i] = big[((g + 1) + 1) + i - 1]
  <2>1. (g + 1) + 1 \in Int /\ n + 1 \in Int
    BY <1>1
  <2> QED
    BY <1>5, <2>1, SubSeqProperties
<1>7. /\ same \in Seq(Remnant)
      /\ Len(same) = IF g + 1 <= n THEN n - (g + 1) + 1 ELSE 0
      /\ \A i \in 1 .. n - (g + 1) + 1 : same[i] = small[(g + 1) + i - 1]
  <2>1. g + 1 \in Int /\ n \in Int /\ \A i \in g + 1 .. n : small[i] \in Remnant
    BY <1>1, <1>3
  <2> QED
    BY <2>1, SubSeqProperties
<1> HIDE DEF after, same
<1>8. Len(after) = n - g /\ Len(same) = n - g
  BY <1>1, <1>6, <1>7
<1>9. \A i \in 1 .. Len(after) : after[i] = same[i]
  <2> SUFFICES ASSUME NEW i \in 1 .. n - g PROVE after[i] = same[i]
    BY <1>8
  <2> DEFINE k == g + i
  <2>1. /\ i \in 1 .. (n + 1) - ((g + 1) + 1) + 1 /\ i \in 1 .. n - (g + 1) + 1
        /\ ((g + 1) + 1) + i - 1 = k + 1 /\ (g + 1) + i - 1 = k
        /\ k \in 1 .. n
    BY <1>1
  <2> HIDE DEF k
  <2> QED
    BY <1>4, <1>6, <1>7, <2>1
<1>10. after = same
  BY <1>6, <1>7, <1>8, <1>9, SeqEqual
<1> QED
  BY <1>2, <1>10

\* The records that print when an aggressor trades with resting orders.
Printable(o) == {Abstract!TradeWith(o, resting, n) : resting \in Order, n \in Nat}

LEMMA PrintsTyped ==
  ASSUME NEW q \in Seq(Order), NEW o, NEW taken,
         \A i \in 1 .. Len(q) : taken[i] \in Nat,
         Cardinality(Hit(q, taken)) \in 0 .. Len(q)
  PROVE  /\ Abstract!Prints(o, q, taken) \in Seq(Printable(o))
         /\ Len(Abstract!Prints(o, q, taken)) = Cardinality(Hit(q, taken))
         /\ \A i \in 1 .. Cardinality(Hit(q, taken)) :
              Abstract!Prints(o, q, taken)[i] = Abstract!TradeWith(o, q[i], taken[i])
<1> DEFINE h == Cardinality(Hit(q, taken))
           prints == Abstract!Prints(o, q, taken)
           print == [i \in 1 .. h |-> Abstract!TradeWith(o, q[i], taken[i])]
<1>1. Len(q) \in Nat /\ h \in Nat /\ \A i \in 1 .. h : i \in 1 .. Len(q)
  BY LenProperties
<1>2. prints = print
  BY PrintsAre
<1>3. ASSUME NEW i \in 1 .. h PROVE Abstract!TradeWith(o, q[i], taken[i]) \in Printable(o)
  <2>1. q[i] \in Order /\ taken[i] \in Nat
    BY <1>1, ElementOfSeq
  <2> QED
    BY <2>1 DEF Printable
<1> HIDE DEF h, prints
<1>4. print \in Seq(Printable(o)) /\ Len(print) = h
  BY <1>1, <1>3, IsASeq
<1>5. \A i \in 1 .. h : print[i] = Abstract!TradeWith(o, q[i], taken[i])
  OBVIOUS
<1> HIDE DEF print
<1> QED
  BY <1>2, <1>4, <1>5 DEF h, prints

\* A trade of n shares with this resting order prints first, then the others.
PrintsFirst(o, resting, n, prints, others) ==
  /\ prints = <<Abstract!TradeWith(o, resting, n)>> \o others
  /\ Abstract!TradeWith(o, resting, n) \in Printable(o)
  /\ others \in Seq(Printable(o))

LEMMA GonePrints ==
  ASSUME NEW q \in Seq(Order), NEW r \in Seq(Order), NEW taken, NEW rest,
         FirstGone(q, taken, r, rest), \A i \in 1 .. Len(r) : rest[i] \in Nat, NEW o
  PROVE  PrintsFirst(o, q[1], q[1].quantity, Abstract!Prints(o, q, taken),
                     Abstract!Prints(o, r, rest))
<1> DEFINE h == Cardinality(Hit(r, rest))
           first == Abstract!TradeWith(o, q[1], q[1].quantity)
           all == Abstract!Prints(o, q, taken)
           others == Abstract!Prints(o, r, rest)
           one == <<first>>
           P == Printable(o)
<1>1. /\ Len(r) \in Nat /\ Len(q) = Len(r) + 1 /\ 1 \in 1 .. Len(q)
      /\ h \in 0 .. Len(r)
      /\ Cardinality(Hit(q, taken)) = h + 1
      /\ taken[1] = q[1].quantity
      /\ \A i \in 1 .. Len(r) : r[i] = q[i + 1] /\ rest[i] = taken[i + 1]
  <2>1. Len(r) \in Nat /\ Len(q) = Len(r) + 1
    BY LenProperties DEF FirstGone
  <2> QED
    BY <2>1, GoneCounts DEF FirstGone
<1>2. q[1] \in Order /\ q[1].quantity \in Nat
  <2>1. q[1] \in Order
    BY <1>1, ElementOfSeq
  <2> QED
    BY <2>1 DEF Order
<1>3. first \in P
  BY <1>2 DEF Printable
<1>4. ASSUME NEW i \in 1 .. Len(q) PROVE taken[i] \in Nat
  <2>1. CASE i = 1
    BY <1>1, <1>2, <2>1
  <2>2. CASE i # 1
    <3>1. i - 1 \in 1 .. Len(r) /\ (i - 1) + 1 = i
      BY <1>1, <2>2
    <3> QED
      BY <1>1, <3>1
  <2> QED
    BY <2>1, <2>2
<1>5. /\ all \in Seq(P) /\ Len(all) = h + 1
      /\ \A i \in 1 .. h + 1 : all[i] = Abstract!TradeWith(o, q[i], taken[i])
  <2>1. Cardinality(Hit(q, taken)) \in 0 .. Len(q)
    BY <1>1
  <2> QED
    BY <1>1, <1>4, <2>1, PrintsTyped
<1>6. /\ others \in Seq(P) /\ Len(others) = h
      /\ \A i \in 1 .. h : others[i] = Abstract!TradeWith(o, r[i], rest[i])
  BY <1>1, PrintsTyped
<1> HIDE DEF first, all, others, P, h
<1>7. one \in Seq(P) /\ Len(one) = 1 /\ one[1] = first
  BY <1>3
<1> HIDE DEF one
<1>8. /\ one \o others \in Seq(P)
      /\ Len(one \o others) = Len(one) + Len(others)
      /\ \A i \in 1 .. Len(one) + Len(others) :
           (one \o others)[i] = IF i <= Len(one) THEN one[i] ELSE others[i - Len(one)]
  BY <1>6, <1>7, ConcatProperties
<1>9. Len(one) + Len(others) = h + 1
  BY <1>1, <1>6, <1>7
<1>10. all[1] = first
  BY <1>1, <1>5 DEF first
<1>11. ASSUME NEW i \in 1 .. h + 1 PROVE (one \o others)[i] = all[i]
  <2>1. CASE i = 1
    BY <1>1, <1>7, <1>8, <1>9, <1>10, <2>1
  <2>2. CASE i # 1
    <3> DEFINE k == i - 1
    <3>1. k \in 1 .. h /\ k + 1 = i /\ k \in 1 .. Len(r)
      BY <1>1, <2>2
    <3>2. (one \o others)[i] = others[k]
      BY <1>1, <1>7, <1>8, <1>9, <2>2
    <3> HIDE DEF k
    <3>3. others[k] = Abstract!TradeWith(o, r[k], rest[k])
      BY <1>6, <3>1
    <3>4. r[k] = q[i] /\ rest[k] = taken[i]
      BY <1>1, <3>1
    <3> QED
      BY <1>5, <3>2, <3>3, <3>4
  <2> QED
    BY <2>1, <2>2
<1>12. one \o others = all
  BY <1>5, <1>8, <1>9, <1>11, SeqEqual
<1> QED
  BY <1>3, <1>6, <1>12 DEF PrintsFirst, one, first, all, others, P

\* r is q with n shares less in its first order.
IsShrunk(q, r, n) ==
  /\ Len(r) = Len(q)
  /\ \A i \in 1 .. Len(q) : r[i] = IF i = 1 THEN Lighter(q[1], n) ELSE q[i]

\* An aggressor that wants less than the first order has.
LEMMA ShrunkOutcome ==
  ASSUME NEW q \in Seq(Order), q # <<>>, NEW o, Reaches(o, q, 1),
         NEW wanted \in Nat \ {0}, wanted < q[1].quantity,
         NEW r \in Seq(Order), IsShrunk(q, r, wanted),
         NEW taken, taken = Abstract!Takes(q, o, wanted)
  PROVE  /\ SumFunction(taken) = wanted
         /\ Abstract!Left(q, taken) = r
         /\ Abstract!Prints(o, q, taken) = <<Abstract!TradeWith(o, q[1], wanted)>>
<1> DEFINE S == 1 .. Len(q)
           T == S \ {1}
           lessened == Lessened(q, taken)
<1>1. /\ 1 \in S /\ Len(q) \in Nat /\ DOMAIN q = S /\ IsFiniteSet(S)
      /\ \A i \in S : /\ q[i] \in Order /\ q[i].quantity \in Nat \ {0}
                      /\ taken[i] = Abstract!Taken(q, o, wanted, i)
                      /\ taken[i] \in Nat
  BY TakesOf, EmptySeq
<1>2. taken[1] = wanted
  <2>1. Abstract!Taken(q, o, wanted, 1) = wanted
    BY FirstTaken
  <2> QED
    BY <1>1, <2>1
<1>3. \A i \in T : taken[i] = 0
  BY <1>1, LaterTaken
<1>4. SumFunction(taken) = wanted
  <2>1. SumFunction(taken) = SumFunctionOnSet(taken, S)
    BY TakesOf
  <2>2. IsFiniteSet(S) /\ 1 \in S /\ \A i \in S : taken[i] \in Int
    BY <1>1
  <2>3. IsFiniteSet(T)
    BY <1>1, FS_RemoveElement
  <2> HIDE DEF S
  <2>4. SumFunctionOnSet(taken, S) = taken[1] + SumFunctionOnSet(taken, S \ {1})
    BY <2>2, SumTakes
  <2> DEFINE U == S \ {1}
  <2>5. SumFunctionOnSet(taken, U) = 0
    <3>1. IsFiniteSet(U) /\ \A i \in U : taken[i] = 0
      BY <1>3, <2>3
    <3> HIDE DEF U
    <3> QED
      BY <3>1, SumOfZeros
  <2> QED
    BY <1>2, <2>1, <2>4, <2>5
<1>5. UsedUp(q, taken) = {} /\ Hit(q, taken) = {1}
  <2>1. \A i \in S : taken[i] # q[i].quantity
    BY <1>1, <1>2, <1>3
  <2>2. \A i \in S : taken[i] > 0 <=> i = 1
    BY <1>1, <1>2, <1>3
  <2> QED
    BY <1>1, <2>1, <2>2 DEF UsedUp, Hit
<1>6. ASSUME NEW i \in S PROVE lessened[i] = r[i] /\ lessened[i] \in Remnant
  <2>1. taken[i] \in Nat
    BY <1>1
  <2>2. lessened[i] = Lighter(q[i], taken[i]) /\ lessened[i] \in Remnant
    BY <2>1, LessenedOf
  <2> HIDE DEF lessened
  <2>3. CASE i = 1
    BY <1>2, <2>2, <2>3 DEF IsShrunk
  <2>4. CASE i # 1
    <3>1. taken[i] = 0 /\ q[i] \in Order /\ r[i] = q[i]
      BY <1>1, <1>3, <2>4 DEF IsShrunk
    <3>2. \A x \in Order : x.quantity - 0 = x.quantity /\ [x EXCEPT !.quantity = x.quantity] = x
      BY DEF Order
    <3>3. Lighter(q[i], 0) = q[i]
      BY <3>1, <3>2 DEF Lighter
    <3> QED
      BY <2>2, <3>1, <3>3
  <2> QED
    BY <2>3, <2>4
<1>7. Abstract!Left(q, taken) = r
  <2> DEFINE left == SubSeq(lessened, 1, Len(q))
             n == Len(q)
  <2>1. Cardinality(UsedUp(q, taken)) + 1 = 1
    BY <1>5, FS_EmptySet
  <2>2. Abstract!Left(q, taken) = left
    BY <2>1, LeftIs
  <2>3. \A i \in 1 .. n : lessened[i] = r[i] /\ lessened[i] \in Remnant
    BY <1>6
  <2>4. n \in Nat
    BY <1>1
  <2> HIDE DEF lessened
  <2>5. /\ left \in Seq(Remnant)
        /\ Len(left) = IF 1 <= n THEN n - 1 + 1 ELSE 0
        /\ \A i \in 1 .. n - 1 + 1 : left[i] = lessened[1 + i - 1]
    <3> HIDE DEF n
    <3>1. left = SubSeq(lessened, 1, n)
      BY DEF n
    <3> HIDE DEF left
    <3> QED
      BY <2>3, <2>4, <3>1, SubSeqProperties
  <2>6. Len(left) = n /\ Len(r) = n
    BY <2>4, <2>5 DEF IsShrunk
  <2>7. \A i \in 1 .. Len(left) : left[i] = r[i]
    <3> SUFFICES ASSUME NEW i \in 1 .. n PROVE left[i] = r[i]
      BY <2>6
    <3>1. i \in 1 .. n - 1 + 1 /\ 1 + i - 1 = i
      BY <2>4
    <3> QED
      BY <2>3, <2>5, <3>1
  <2>8. DOMAIN left = 1 .. n /\ left = [i \in DOMAIN left |-> left[i]]
    BY <2>5, <2>6, LenProperties
  <2>9. DOMAIN r = 1 .. n /\ r = [i \in DOMAIN r |-> r[i]]
    BY <2>6, LenProperties
  <2> HIDE DEF left, n
  <2>10. left = r
    BY <2>6, <2>7, <2>8, <2>9
  <2> QED
    BY <2>2, <2>10
<1>8. Abstract!Prints(o, q, taken) = <<Abstract!TradeWith(o, q[1], wanted)>>
  <2> DEFINE prints == Abstract!Prints(o, q, taken)
             first == Abstract!TradeWith(o, q[1], wanted)
             P == Printable(o)
             h == Cardinality(Hit(q, taken))
  <2>1. h = 1
    BY <1>5, FS_Singleton
  <2>2. h \in 0 .. Len(q) /\ \A i \in 1 .. Len(q) : taken[i] \in Nat
    BY <1>1, <2>1
  <2>3. /\ prints \in Seq(P) /\ Len(prints) = h
        /\ \A i \in 1 .. h : prints[i] = Abstract!TradeWith(o, q[i], taken[i])
    BY <2>2, PrintsTyped
  <2>4. prints[1] = first
    BY <1>2, <2>1, <2>3
  <2> HIDE DEF prints, first, P, h
  <2>5. prints = <<prints[1]>>
    BY <2>1, <2>3
  <2> QED
    BY <2>4, <2>5 DEF prints, first
<1> QED
  BY <1>4, <1>7, <1>8

\* A fill leaves the outcome as it is: what it takes and prints is what the
\* closed form takes and prints first.
Fills(q, r, wanted, fill) ==
  \/ q[1].quantity <= wanted /\ fill = q[1].quantity /\ IsRest(q, r)
  \/ wanted < q[1].quantity /\ fill = wanted /\ IsShrunk(q, r, wanted)

\* The parts of an outcome after a fill.
LEMMA FilledParts ==
  ASSUME NEW q \in Seq(Order), q # <<>>, NEW o, Reaches(o, q, 1),
         NEW wanted \in Nat \ {0}, NEW r \in Seq(Order), NEW fill,
         Fills(q, r, wanted, fill),
         NEW taken, taken = Abstract!Takes(q, o, wanted),
         NEW rest, rest = Abstract!Takes(r, o, wanted - fill)
  PROVE  /\ fill \in Nat /\ SumFunction(rest) \in Nat
         /\ SumFunction(taken) = fill + SumFunction(rest)
         /\ Abstract!Left(q, taken) = Abstract!Left(r, rest)
         /\ PrintsFirst(o, q[1], fill, Abstract!Prints(o, q, taken),
                        Abstract!Prints(o, r, rest))
<1>1. CASE q[1].quantity <= wanted /\ fill = q[1].quantity /\ IsRest(q, r)
  <2>1. /\ FirstGone(q, taken, r, rest)
        /\ wanted - fill \in Nat
    BY <1>1, GoneTakes
  <2> DEFINE left == wanted - fill
             n == Len(r)
  <2>2. /\ \A i \in 1 .. n : rest[i] \in Nat
        /\ SumFunction(rest) = SumFunctionOnSet(rest, 1 .. n)
        /\ SumFunction(rest) \in Nat
    <3>1. left \in Nat /\ rest = Abstract!Takes(r, o, left)
      BY <2>1
    <3> HIDE DEF left
    <3> QED
      BY <3>1, TakesOf
  <2>3. /\ n \in Nat /\ Len(q) = n + 1
        /\ taken[1] = fill
        /\ \A i \in 1 .. n : rest[i] = taken[i + 1]
    BY <1>1, <2>1, LenProperties DEF FirstGone
  <2>4. /\ \A i \in 1 .. Len(q) : taken[i] \in Nat
        /\ SumFunction(taken) = SumFunctionOnSet(taken, 1 .. Len(q))
    BY TakesOf
  <2>5. fill \in Nat
    <3>1. 1 \in 1 .. Len(q)
      BY <2>3
    <3> QED
      BY <2>3, <2>4, <3>1
  <2>6. Abstract!Left(q, taken) = Abstract!Left(r, rest)
    BY <2>1, <2>2, GoneLeft
  <2>7. PrintsFirst(o, q[1], q[1].quantity, Abstract!Prints(o, q, taken),
                    Abstract!Prints(o, r, rest))
    BY <2>1, <2>2, GonePrints
  <2> HIDE DEF n
  <2>8. SumFunctionOnSet(taken, 1 .. n + 1) = taken[1] + SumFunctionOnSet(rest, 1 .. n)
    <3>1. \A i \in 1 .. n + 1 : taken[i] \in Int
      BY <2>3, <2>4
    <3> QED
      BY <2>3, <3>1, GoneFilled
  <2>9. SumFunction(taken) = fill + SumFunction(rest)
    BY <2>2, <2>3, <2>4, <2>8
  <2> QED
    BY <1>1, <2>2, <2>5, <2>6, <2>7, <2>9
<1>2. CASE wanted < q[1].quantity /\ fill = wanted /\ IsShrunk(q, r, wanted)
  <2>1. /\ SumFunction(taken) = wanted
        /\ Abstract!Left(q, taken) = r
        /\ Abstract!Prints(o, q, taken) = <<Abstract!TradeWith(o, q[1], wanted)>>
    BY <1>2, ShrunkOutcome
  <2> DEFINE left == wanted - fill
  <2>2. left = 0 /\ left \in Nat /\ rest = Abstract!Takes(r, o, left)
    BY <1>2
  <2> HIDE DEF left
  <2>3. \A i \in 1 .. Len(r) : Abstract!Taken(r, o, left, i) = 0
    BY <2>2, NothingTaken
  <2>4. /\ SumFunction(rest) = 0
        /\ Abstract!Left(r, rest) = r
        /\ Abstract!Prints(o, r, rest) = <<>>
    BY <2>2, <2>3, NothingFilled
  <2> DEFINE first == Abstract!TradeWith(o, q[1], wanted)
             P == Printable(o)
  <2>5. first \in P
    <3>1. q[1] \in Order
      BY EmptySeq, LenProperties, ElementOfSeq
    <3> QED
      BY <3>1 DEF Printable
  <2> HIDE DEF first, P
  <2>6. <<first>> \in Seq(P) /\ <<>> \in Seq(P)
    BY <2>5
  <2>7. <<first>> \o <<>> = <<first>>
    BY <2>6, ConcatEmptySeq
  <2>8. PrintsFirst(o, q[1], wanted, <<first>>, <<>>)
    BY <2>5, <2>6, <2>7 DEF PrintsFirst, first, P
  <2> QED
    BY <1>2, <2>1, <2>4, <2>8 DEF first
<1> QED
  BY <1>1, <1>2 DEF Fills

\* The outcome is the same before and after a fill: the loop invariant.
LEMMA FilledOutcome ==
  ASSUME NEW o, NEW resting, opposite(o.side) \in DOMAIN resting,
         NEW q \in Seq(Order), q = resting[opposite(o.side)], q # <<>>, Reaches(o, q, 1),
         NEW wanted \in Nat \ {0}, NEW r \in Seq(Order), NEW fill,
         Fills(q, r, wanted, fill),
         NEW after, after = [resting EXCEPT ![opposite(o.side)] = r],
         NEW volume \in Int, NEW done \in Seq(TradeRecord)
  PROVE  Abstract!Outcome(resting, volume, done, o, wanted) =
           Abstract!Outcome(after, volume + fill,
                            Append(done, Abstract!TradeWith(o, q[1], fill)), o, wanted - fill)
<1> DEFINE s == opposite(o.side)
           taken == Abstract!Takes(q, o, wanted)
           left == wanted - fill
           rest == Abstract!Takes(r, o, left)
           t == Abstract!TradeWith(o, q[1], fill)
           prints == Abstract!Prints(o, q, taken)
           others == Abstract!Prints(o, r, rest)
           total == SumFunction(rest)
<1>1. /\ fill \in Nat /\ total \in Nat
      /\ SumFunction(taken) = fill + total
      /\ Abstract!Left(q, taken) = Abstract!Left(r, rest)
      /\ PrintsFirst(o, q[1], fill, prints, others)
  BY FilledParts
<1>2. after[s] = r
  OBVIOUS
<1>3. \A x : [resting EXCEPT ![s] = x] = [after EXCEPT ![s] = x]
  OBVIOUS
<1>4. Abstract!Outcome(resting, volume, done, o, wanted) =
        OutcomeWith(resting, volume, done, o, wanted, q, taken)
  BY OutcomeIs
<1> DEFINE volume2 == volume + fill
           done2 == Append(done, t)
<1>5. Abstract!Outcome(after, volume2, done2, o, left) =
        OutcomeWith(after, volume2, done2, o, left, r, rest)
  <2> HIDE DEF volume2, done2, left
  <2>1. r = after[opposite(o.side)]
    BY <1>2
  <2> QED
    BY <2>1, OutcomeIs
<1>6. wanted - SumFunction(taken) = left - total
  <2> HIDE DEF taken, total
  <2> QED
    BY <1>1
<1>7. volume + SumFunction(taken) = volume2 + total
  <2> HIDE DEF taken, total
  <2> QED
    BY <1>1
<1>8. done \o prints = done2 \o others
  <2> DEFINE P == TradeRecord \cup Printable(o)
  <2>1. t \in P /\ others \in Seq(P) /\ prints = <<t>> \o others
    <3>1. t \in Printable(o) /\ others \in Seq(Printable(o)) /\ prints = <<t>> \o others
      <4> HIDE DEF prints, others
      <4> QED
        BY <1>1 DEF PrintsFirst
    <3> HIDE DEF t, others, prints
    <3> QED
      BY <3>1, SeqMonotonic
  <2>2. done \in Seq(P)
    BY SeqMonotonic
  <2> HIDE DEF P, t, others, prints
  <2>3. done2 = done \o <<t>>
    BY <2>1, <2>2, AppendIsConcat
  <2>4. <<t>> \in Seq(P)
    BY <2>1
  <2> DEFINE one == <<t>>
  <2> HIDE DEF one
  <2>5. (done \o one) \o others = done \o (one \o others)
    BY <2>1, <2>2, <2>4, ConcatAssociative DEF one
  <2> QED
    BY <2>1, <2>3, <2>5 DEF one
<1>9. OutcomeWith(resting, volume, done, o, wanted, q, taken)
        = OutcomeWith(after, volume2, done2, o, left, r, rest)
  <2>1. OutcomeWith(resting, volume, done, o, wanted, q, taken) =
          [resting |-> Abstract!Rested([resting EXCEPT ![s] = Abstract!Left(q, taken)],
                                       o, wanted - SumFunction(taken)),
           executed_volume |-> volume + SumFunction(taken),
           trades |-> done \o prints]
    BY DEF OutcomeWith
  <2>2. OutcomeWith(after, volume2, done2, o, left, r, rest) =
          [resting |-> Abstract!Rested([after EXCEPT ![s] = Abstract!Left(r, rest)],
                                       o, left - total),
           executed_volume |-> volume2 + total,
           trades |-> done2 \o others]
    BY DEF OutcomeWith
  <2> HIDE DEF taken, rest, t, prints, others, total, left, volume2, done2, s
  <2>3. Abstract!Left(q, taken) = Abstract!Left(r, rest)
    BY <1>1
  <2> QED
    BY <1>3, <1>6, <1>7, <1>8, <2>1, <2>2, <2>3
<1> QED
  BY <1>4, <1>5, <1>9

\* When no order of the opposite queue can be hit, only the remainder is to
\* be queued.
LEMMA NothingOutcome ==
  ASSUME NEW o, NEW resting, resting = [side \in Sides |-> resting[side]],
         opposite(o.side) \in Sides,
         NEW q \in Seq(Order), q = resting[opposite(o.side)],
         NEW wanted \in Nat,
         \A i \in 1 .. Len(q) : wanted = 0 \/ ~Reaches(o, q, i),
         NEW volume \in Int, NEW done \in Seq(TradeRecord)
  PROVE  Abstract!Outcome(resting, volume, done, o, wanted) =
           [resting |-> Abstract!Rested(resting, o, wanted),
            executed_volume |-> volume, trades |-> done]
<1> DEFINE taken == Abstract!Takes(q, o, wanted)
           s == opposite(o.side)
<1>1. \A i \in 1 .. Len(q) : Abstract!Taken(q, o, wanted, i) = 0
  BY NothingTaken
<1>2. /\ SumFunction(taken) = 0
      /\ Abstract!Left(q, taken) = q
      /\ Abstract!Prints(o, q, taken) = <<>>
  BY <1>1, NothingFilled
<1>3. Abstract!Outcome(resting, volume, done, o, wanted) =
        OutcomeWith(resting, volume, done, o, wanted, q, taken)
  BY OutcomeIs
<1>4. [resting EXCEPT ![s] = q] = resting
  OBVIOUS
<1>5. done \o <<>> = done
  BY ConcatEmptySeq
<1>6. OutcomeWith(resting, volume, done, o, wanted, q, taken) =
        [resting |-> Abstract!Rested([resting EXCEPT ![s] = Abstract!Left(q, taken)],
                                     o, wanted - SumFunction(taken)),
         executed_volume |-> volume + SumFunction(taken),
         trades |-> done \o Abstract!Prints(o, q, taken)]
  BY DEF OutcomeWith
<1>7. wanted - 0 = wanted /\ volume + 0 = volume
  OBVIOUS
<1> HIDE DEF taken, s
<1> QED
  BY <1>2, <1>3, <1>4, <1>5, <1>6, <1>7

(***************************************************************************)
(* What a fill does to the queues                                          *)
(***************************************************************************)

\* The order at the front of a level.
FrontOf(b, side, price) == Head(b.levels[side][price].queue)

\* The front of the best level heads its side's queue.
LEMMA FrontFirst ==
  ASSUME NEW b, Consistent(b), NEW s \in Sides, NEW best, IsBest(b, s, best),
         NEW q, Lists(q, b, s, Prices)
  PROVE  /\ q \in Seq(Order) /\ Len(q) \in Nat /\ q # <<>>
         /\ 1 \in 1 .. Len(q)
         /\ q[1] = FrontOf(b, s, best)
         /\ FrontOf(b, s, best) \in Order
         /\ FrontOf(b, s, best).id \in DOMAIN b.locations
         /\ FrontOf(b, s, best).price = best
         /\ find(b, FrontOf(b, s, best).id) = FrontOf(b, s, best)
         /\ b.locations[FrontOf(b, s, best).id].side = s
<1> DEFINE front == FrontOf(b, s, best)
<1>1. best \in DOMAIN b.levels[s]
  BY DEF IsBest
<1>2. StandsAt(b, s, best, front, 1)
  <2> DEFINE level == b.levels[s][best]
  <2>1. level.queue \in Seq(Order) /\ level.queue # <<>>
    BY <1>1 DEF Consistent, WellTyped, Agrees, LevelIndexed, Level
  <2>2. front = Head(level.queue)
    BY DEF FrontOf
  <2> HIDE DEF front
  <2> HIDE DEF level
  <2>3. 1 \in Positions(level) /\ front = level.queue[1]
    BY <2>1, <2>2, EmptySeq, LenProperties DEF Positions
  <2> QED
    BY <1>1, <2>3 DEF StandsAt, level
<1> HIDE DEF front
<1>3. /\ front \in Order
      /\ front.id \in DOMAIN b.locations
      /\ b.locations[front.id] = [side |-> s, price |-> best]
      /\ find(b, front.id) = front
      /\ Place(b, front.id) = 1
  BY <1>2, FoundAt
<1>4. front.price = best
  BY <1>3, RestingOrder
<1>5. /\ q \in Seq(Order) /\ Len(q) \in Nat
      /\ \A i \in 1 .. Len(q) :
           /\ q[i].id \in DOMAIN b.locations
           /\ q[i] = find(b, q[i].id)
           /\ b.locations[q[i].id].side = s
  BY Listed
<1>6. PICK i \in 1 .. Len(q) : q[i].id = front.id
  <2>1. best \in Prices
    BY <1>1 DEF Consistent, WellTyped
  <2> QED
    BY <1>3, <2>1 DEF Lists
<1>7. 1 \in 1 .. Len(q) /\ q # <<>>
  BY <1>5, <1>6, EmptySeq
<1>8. i = 1
  <2> SUFFICES ASSUME i # 1 PROVE FALSE
    OBVIOUS
  <2>1. 1 < i
    BY <1>5, <1>6
  <2>2. Precedes(b, q[1].id, front.id)
    BY <1>6, <1>7, <2>1 DEF Lists
  <2> DEFINE first == q[1].id
  <2>3. first \in DOMAIN b.locations /\ b.locations[first].side = s
    BY <1>5, <1>7
  <2> HIDE DEF first
  <2>4. /\ b.locations[first].price \in DOMAIN b.levels[s]
        /\ Place(b, first) \in Nat \ {0}
    BY <2>3, RestingOrder
  <2>5. ~Better(s, b.locations[first].price, best)
    BY <2>4 DEF IsBest
  <2> QED
    BY <1>3, <2>2, <2>3, <2>4, <2>5 DEF Precedes, first
<1> QED
  BY <1>3, <1>4, <1>5, <1>6, <1>7, <1>8 DEF front

\* A fill takes the first order out of its side's queue, or shrinks it there;
\* the other side's queue stays.
LEMMA FilledQueues ==
  ASSUME NEW b, Consistent(b), Counts(b), NEW s \in Sides, NEW best, IsBest(b, s, best),
         NEW fill \in Nat \ {0}, fill <= FrontOf(b, s, best).quantity,
         NEW after, after = AfterFill(b, FrontOf(b, s, best), fill), Consistent(after),
         NEW resting, ListsBook(resting, b), NEW others, ListsBook(others, after)
  PROVE  /\ others = [resting EXCEPT ![s] = others[s]]
         /\ others[s] \in Seq(Order)
         /\ fill = FrontOf(b, s, best).quantity => IsRest(resting[s], others[s])
         /\ fill < FrontOf(b, s, best).quantity => IsShrunk(resting[s], others[s], fill)
<1> DEFINE front == FrontOf(b, s, best)
           q == resting[s]
           id == front.id
           at == Queues!IndexOf(q, id)
<1>1. /\ Lists(q, b, s, Prices) /\ Lists(others[s], after, s, Prices)
      /\ DOMAIN resting = Sides
  BY DEF ListsBook
<1>2. /\ q \in Seq(Order) /\ Len(q) \in Nat /\ q # <<>>
      /\ 1 \in 1 .. Len(q)
      /\ q[1] = front
      /\ front \in Order
      /\ id \in DOMAIN b.locations
      /\ front.price = best
      /\ find(b, id) = front
      /\ b.locations[id].side = s
  <2>1. Lists(q, b, s, Prices)
    BY <1>1
  <2> HIDE DEF q
  <2> QED
    BY <2>1, FrontFirst DEF front
<1>3. fill <= front.quantity /\ after = AfterFill(b, front, fill)
  OBVIOUS
<1> HIDE DEF front
<1>0. others[s] \in Seq(Order)
  BY <1>1 DEF Lists
<1>4. Queues!SideOf(resting, id) = s /\ at = 1
  <2>1. /\ Queues!SideOf(resting, id) = s
        /\ at \in 1 .. Len(q) /\ q[at].id = id
    BY <1>2, RestingFinds
  <2>2. \A i, j \in 1 .. Len(q) : q[i].id = q[j].id => i = j
    <3> HIDE DEF q
    <3> QED
      BY <1>1, Listed
  <2> HIDE DEF q, at
  <2> QED
    BY <1>2, <2>1, <2>2
<1>5. CASE fill = front.quantity
  <2>1. after = cancel_order(b, id)
    BY <1>3, <1>5 DEF AfterFill
  <2>2. others = Queues!Removed(resting, id)
    <3>1. ListsBook(Queues!Removed(resting, id), after)
      BY <2>1, RemovedLists
    <3> QED
      BY <3>1, ListsBookOnce
  <2>3. others = [resting EXCEPT ![s] = RemoveAt(q, 1)]
    <3>1. Queues!RestingIds(resting) = DOMAIN b.locations
      BY RestingFinds
    <3> QED
      BY <1>2, <1>4, <2>2, <3>1, SameOperators DEF Queues!Removed
  <2>4. others[s] = RemoveAt(q, 1)
    BY <1>1, <2>3
  <2>5. IsRest(q, RemoveAt(q, 1))
    <3> DEFINE r == RemoveAt(q, 1)
    <3> HIDE DEF q
    <3>1. /\ Len(r) = Len(q) - 1
          /\ \A i \in 1 .. Len(q) - 1 : r[i] = q[IF i < 1 THEN i ELSE i + 1]
      BY <1>2, RemoveAtQueue
    <3> HIDE DEF r
    <3> QED
      BY <1>2, <3>1 DEF IsRest, r
  <2>6. IsRest(q, others[s])
    BY <2>4, <2>5
  <2> DEFINE w == RemoveAt(q, 1)
  <2>7. others = [resting EXCEPT ![s] = w] /\ others[s] = w
    BY <2>3, <2>4
  <2> HIDE DEF q, w
  <2>8. others = [resting EXCEPT ![s] = others[s]]
    BY <2>7
  <2>9. ~(fill < front.quantity)
    BY <1>2, <1>5 DEF Order
  <2> QED
    BY <1>0, <1>5, <2>6, <2>8, <2>9 DEF q, front
<1>6. CASE fill # front.quantity
  <2> DEFINE left == front.quantity - fill
             w == [q EXCEPT ![1].quantity = left]
  <2>1. left \in Nat \ {0} /\ left <= front.quantity
    BY <1>2, <1>3, <1>6 DEF Order
  <2>2. after = Reduced(b, id, left)
    <3>1. after = modify_order(b, id, find(b, id).price, left)
      BY <1>2, <1>3, <1>6 DEF AfterFill
    <3> HIDE DEF left
    <3>2. left <= find(b, id).quantity
      BY <1>2, <2>1
    <3> QED
      BY <1>2, <2>1, <3>1, <3>2, DecreaseInPlace
  <2>3. others = Queues!Resized(resting, id, left)
    <3> HIDE DEF left
    <3>1. left <= find(b, id).quantity
      BY <1>2, <2>1
    <3>2. ListsBook(Queues!Resized(resting, id, left), after)
      BY <1>2, <2>1, <2>2, <3>1, ResizedLists
    <3> QED
      BY <3>2, ListsBookOnce
  <2>4. others = [resting EXCEPT ![s] = w]
    BY <1>4, <2>3 DEF Queues!Resized
  <2>5. others[s] = w
    BY <1>1, <2>4
  <2>6. IsShrunk(q, w, fill)
    <3> HIDE DEF q
    <3>1. DOMAIN q = 1 .. Len(q) /\ DOMAIN w = DOMAIN q /\ w \in Seq(Order)
      BY <1>0, <1>2, <2>5, LenProperties
    <3>2. Len(w) = Len(q)
      BY <1>2, <3>1, LenProperties
    <3>3. w[1] = [q[1] EXCEPT !.quantity = left]
      BY <1>2, <3>1
    <3>4. \A i \in 1 .. Len(q) : i # 1 => w[i] = q[i]
      BY <1>2, <3>1
    <3>5. w[1] = Lighter(q[1], fill)
      BY <1>2, <3>3 DEF Lighter
    <3> HIDE DEF w
    <3> QED
      BY <3>2, <3>4, <3>5 DEF IsShrunk
  <2> HIDE DEF w, q
  <2> QED
    BY <1>0, <1>3, <1>6, <2>4, <2>5, <2>6 DEF q, front
<1> QED
  BY <1>5, <1>6 DEF front

(***************************************************************************)
(* A call settles at once what the loop then carries out                   *)
(***************************************************************************)

\* The operators of the abstract engine are those the lemmas speak of.
LEMMA AbstractOperators ==
  /\ Abstract!NoOrders = Queues!NoOrders
  /\ \A queues : Abstract!RestingIds(queues) = Queues!RestingIds(queues)
  /\ \A queues, id : Abstract!OrderOf(queues, id) = Queues!OrderOf(queues, id)
  /\ \A queues, o : Abstract!Queued(queues, o) = Queues!Queued(queues, o)
  /\ \A queues, id : Abstract!Removed(queues, id) = Queues!Removed(queues, id)
  /\ \A queues, id, quantity :
       Abstract!Resized(queues, id, quantity) = Queues!Resized(queues, id, quantity)
  /\ \A o, resting, fill : Abstract!TradeWith(o, resting, fill) = Trade(o, resting, fill)
  /\ \A o, unfilled : Abstract!RestingPart(o, unfilled) = RestingPart(o, unfilled)
<1>1. /\ Abstract!Sides = Queues!Sides
      /\ \A side, p, r : Abstract!Better(side, p, r) = Queues!Better(side, p, r)
      /\ \A s, n, e : Abstract!InsertAt(s, n, e) = Queues!InsertAt(s, n, e)
      /\ \A s, n : Abstract!RemoveAt(s, n) = Queues!RemoveAt(s, n)
      /\ \A S : Abstract!Cardinality(S) = Queues!Cardinality(S)
  <2>1. Abstract!Sides = Queues!Sides
    BY DEF Abstract!Sides, Queues!Sides
  <2>2. \A side, p, r : Abstract!Better(side, p, r) = Queues!Better(side, p, r)
    BY DEF Abstract!Better, Queues!Better
  <2>3. \A s, n, e : Abstract!InsertAt(s, n, e) = Queues!InsertAt(s, n, e)
    BY DEF Abstract!InsertAt, Queues!InsertAt
  <2>4. \A s, n : Abstract!RemoveAt(s, n) = Queues!RemoveAt(s, n)
    BY DEF Abstract!RemoveAt, Queues!RemoveAt
  <2>5. \A S : Abstract!Cardinality(S) = Queues!Cardinality(S)
    BY DEF Abstract!Cardinality, Queues!Cardinality
  <2> QED
    BY <2>1, <2>2, <2>3, <2>4, <2>5
<1>2. Abstract!NoOrders = Queues!NoOrders
  BY <1>1 DEF Abstract!NoOrders, Queues!NoOrders
<1>3. \A queues : Abstract!RestingIds(queues) = Queues!RestingIds(queues)
  BY DEF Abstract!RestingIds, Queues!RestingIds
<1>4. \A queues, id : Abstract!SideOf(queues, id) = Queues!SideOf(queues, id)
  BY <1>1 DEF Abstract!SideOf, Queues!SideOf
<1>5. \A queue, id : Abstract!IndexOf(queue, id) = Queues!IndexOf(queue, id)
  BY DEF Abstract!IndexOf, Queues!IndexOf
<1>6. \A queues, id : Abstract!OrderOf(queues, id) = Queues!OrderOf(queues, id)
  BY <1>4, <1>5 DEF Abstract!OrderOf, Queues!OrderOf
<1>7. \A queues, o : Abstract!Queued(queues, o) = Queues!Queued(queues, o)
  BY <1>1 DEF Abstract!Queued, Queues!Queued
<1>8. \A queues, id : Abstract!Removed(queues, id) = Queues!Removed(queues, id)
  BY <1>1, <1>3, <1>4, <1>5 DEF Abstract!Removed, Queues!Removed
<1>9. \A queues, id, quantity :
        Abstract!Resized(queues, id, quantity) = Queues!Resized(queues, id, quantity)
  BY <1>4, <1>5 DEF Abstract!Resized, Queues!Resized
<1>10. \A o, resting, fill : Abstract!TradeWith(o, resting, fill) = Trade(o, resting, fill)
  BY DEF Abstract!TradeWith, Trade
<1>11. \A o, unfilled : Abstract!RestingPart(o, unfilled) = RestingPart(o, unfilled)
  BY DEF Abstract!RestingPart, RestingPart
<1> QED
  BY <1>2, <1>3, <1>6, <1>7, <1>8, <1>9, <1>10, <1>11

\* What the current call will have made of the book, or the last one made.
Now == SettledFrom(book, executed_volume, trades, pc, order, remaining)

\* snapshot() of both sides lists the book.
LEMMA BookIsListed ==
  ASSUME NEW b, Consistent(b), Counts(b)
  PROVE  /\ ListsBook(Resting(b), b)
         /\ Resting(b) = [side \in Sides |-> Resting(b)[side]]
         /\ \A side \in Sides :
              /\ Lists(Resting(b)[side], b, side, Prices)
              /\ Resting(b)[side] \in Seq(Order)
<1>1. Resting(b) = Snapshots(b)
  BY DEF Resting, Snapshots
<1>2. ListsBook(Resting(b), b)
  BY <1>1, SnapshotsList
<1>3. \A side \in Sides : Lists(Resting(b)[side], b, side, Prices)
  BY <1>2 DEF ListsBook
<1>4. Resting(b) = [side \in Sides |-> Resting(b)[side]]
  BY <1>2 DEF ListsBook
<1>5. \A side \in Sides : Resting(b)[side] \in Seq(Order)
  BY <1>3 DEF Lists
<1> QED
  BY <1>2, <1>3, <1>4, <1>5

\* A fill carries out a part of the outcome, and leaves it as it was.
LEMMA FillSettles ==
  ASSUME IInv, IInv', Fill
  PROVE  Now' = Now
<1>1. BookPart /\ BookPart' /\ CallPart /\ pc = "match" /\ pc' = "match" /\ order' = order
  BY DEF IInv, Fill
<1>2. /\ order \in Aggressor /\ remaining \in Nat \ {0} /\ order.side \in Sides
      /\ executed_volume \in Int /\ trades \in Seq(TradeRecord)
  BY <1>1 DEF CallPart, Aggressor, Fill
<1> DEFINE s == opposite(order.side)
           now == Resting(book)
           next == Resting(book')
           q == now[s]
           r == next[s]
<1>3. s \in Sides
  BY <1>2 DEF opposite, Sides
<1>4. PICK best \in DOMAIN book.levels[s] :
        LET fill == Min({remaining, FrontOf(book, s, best).quantity})
        IN /\ CrossesAt(best)
           /\ trades' = Append(trades, Trade(order, FrontOf(book, s, best), fill))
           /\ executed_volume' = executed_volume + fill
           /\ remaining' = remaining - fill
           /\ book' = AfterFill(book, FrontOf(book, s, best), fill)
  BY DEF Fill, best_order, FrontOf
<1> DEFINE front == FrontOf(book, s, best)
           fill == Min({remaining, front.quantity})
<1>5. /\ Consistent(book) /\ Counts(book) /\ Consistent(book')
      /\ ListsBook(now, book) /\ ListsBook(next, book')
      /\ Lists(q, book, s, Prices)
      /\ DOMAIN now = Sides
  <2>1. /\ Consistent(book) /\ Counts(book) /\ Consistent(book') /\ Counts(book')
    BY <1>1 DEF BookPart
  <2>2. ListsBook(now, book) /\ ListsBook(next, book')
    BY <2>1, BookIsListed
  <2>3. Lists(q, book, s, Prices)
    BY <1>3, <2>1, BookIsListed
  <2>4. DOMAIN now = Sides
    BY DEF Resting
  <2> QED
    BY <2>1, <2>2, <2>3, <2>4
<1>6. IsBest(book, s, best) /\ Crosses(order.type, order.side, order.price, best)
  BY <1>4 DEF CrossesAt
<1>7. /\ q \in Seq(Order) /\ q # <<>>
      /\ q[1] = front /\ front \in Order /\ front.price = best
  <2> HIDE DEF q, s
  <2> QED
    BY <1>3, <1>5, <1>6, FrontFirst
<1> HIDE DEF front
<1>8. /\ fill \in 1 .. remaining /\ fill \in 1 .. front.quantity
      /\ fill = remaining \/ fill = front.quantity
  <2>1. front.quantity \in Nat \ {0}
    BY <1>7 DEF Order
  <2> QED
    BY <1>2, <2>1, FillSize
<1>9. /\ trades' = Append(trades, Trade(order, front, fill))
      /\ executed_volume' = executed_volume + fill
      /\ remaining' = remaining - fill
      /\ book' = AfterFill(book, front, fill)
  BY <1>4 DEF front
<1> HIDE DEF fill
<1>10. /\ fill \in Nat \ {0} /\ fill <= front.quantity /\ fill <= remaining
       /\ front.quantity \in Nat
  BY <1>2, <1>7, <1>8 DEF Order
<1>11. /\ next = [now EXCEPT ![s] = r]
       /\ r \in Seq(Order)
       /\ fill = front.quantity => IsRest(q, r)
       /\ fill < front.quantity => IsShrunk(q, r, fill)
  <2>1. book' = AfterFill(book, FrontOf(book, s, best), fill) /\ fill <= FrontOf(book, s, best).quantity
    BY <1>9, <1>10 DEF front
  <2> HIDE DEF now, next, s
  <2> QED
    BY <1>3, <1>5, <1>6, <1>10, <2>1, FilledQueues DEF front
<1>12. Fills(q, r, remaining, fill)
  <2>1. q[1].quantity = front.quantity
    BY <1>7
  <2> HIDE DEF q, r
  <2> QED
    BY <1>2, <1>8, <1>10, <1>11, <2>1 DEF Fills
<1>13. Reaches(order, q, 1)
  <2>1. q[1].price = best
    BY <1>7
  <2> HIDE DEF q
  <2> QED
    BY <1>6, <2>1 DEF Reaches
<1>14. Abstract!Outcome(now, executed_volume, trades, order, remaining) =
         Abstract!Outcome(next, executed_volume + fill,
                          Append(trades, Abstract!TradeWith(order, q[1], fill)),
                          order, remaining - fill)
  <2>1. s \in DOMAIN now
    BY <1>3, <1>5
  <2> DEFINE mine == q
             theirs == r
  <2>2. mine = now[opposite(order.side)] /\ next = [now EXCEPT ![opposite(order.side)] = theirs]
    BY <1>11
  <2> HIDE DEF now, next, mine, theirs
  <2> QED
    BY <1>2, <1>7, <1>11, <1>12, <1>13, <2>1, <2>2, FilledOutcome DEF mine, theirs
<1>15. Abstract!TradeWith(order, q[1], fill) = Trade(order, front, fill)
  BY <1>7, AbstractOperators
<1>16. Now = Abstract!Outcome(now, executed_volume, trades, order, remaining)
  BY <1>1 DEF Now, SettledFrom
<1>17. Now' = Abstract!Outcome(next, executed_volume', trades', order, remaining')
  BY <1>1 DEF Now, SettledFrom
<1> HIDE DEF now, next
<1> QED
  BY <1>9, <1>14, <1>15, <1>16, <1>17

\* A match that is over takes nothing more.
LEMMA OverReachesNothing ==
  ASSUME IInv, pc = "match", MatchIsOver, NEW q, q = Resting(book)[opposite(order.side)],
         NEW i \in 1 .. Len(q)
  PROVE  remaining = 0 \/ ~Reaches(order, q, i)
<1>1. BookPart /\ CallPart
  BY DEF IInv
<1>2. order \in Aggressor /\ order.side \in Sides
  BY <1>1 DEF CallPart, Aggressor
<1> DEFINE s == opposite(order.side)
           p == q[i].price
<1>3. s \in Sides
  BY <1>2 DEF opposite, Sides
<1>4. Lists(q, book, s, Prices) /\ Consistent(book)
  BY <1>1, <1>3, BookIsListed DEF BookPart
<1> HIDE DEF s
<1>5. p \in DOMAIN book.levels[s] /\ p \in Int
  <2> DEFINE id == q[i].id
  <2>1. /\ id \in DOMAIN book.locations
        /\ p = book.locations[id].price
        /\ book.locations[id].side = s
    BY <1>4, Listed
  <2> HIDE DEF id, p
  <2> QED
    BY <1>4, <2>1, RestingOrder
<1> HIDE DEF p
<1>6. CASE remaining = 0
  BY <1>6
<1>7. CASE remaining # 0
  <2>1. PICK best \in DOMAIN book.levels[s] :
          /\ IsBest(book, s, best)
          /\ ~Crosses(order.type, order.side, order.price, best)
    BY <1>5, <1>7 DEF MatchIsOver, s
  <2>2. best \in Int /\ ~Better(s, p, best)
    BY <1>3, <1>4, <1>5, <2>1, PricesAssumption DEF IsBest, Consistent, WellTyped
  <2>3. order.type # "Market" => order.price \in Int
    BY <1>2 DEF Aggressor
  <2>4. ~Crosses(order.type, order.side, order.price, p)
    BY <1>2, <1>5, <2>1, <2>2, <2>3 DEF Crosses, Better, Sides, opposite, s
  <2> QED
    BY <2>4 DEF Reaches, p
<1> QED
  BY <1>6, <1>7

\* The remainder that rests at the end was part of the outcome.
LEMMA FinishSettles ==
  ASSUME IInv, IInv', Finish
  PROVE  Now' = Now
<1>1. /\ BookPart /\ BookPart' /\ CallPart /\ pc = "match" /\ pc' = "idle"
      /\ executed_volume' = executed_volume /\ trades' = trades /\ MatchIsOver
  BY DEF IInv, Finish
<1>2. /\ order \in Aggressor /\ remaining \in Nat /\ order.side \in Sides
      /\ executed_volume \in Int /\ trades \in Seq(TradeRecord)
      /\ ~contains(book, order.id)
  BY <1>1 DEF CallPart, Aggressor
<1> DEFINE s == opposite(order.side)
           now == Resting(book)
           next == Resting(book')
           q == now[s]
<1>3. s \in Sides
  BY <1>2 DEF opposite, Sides
<1>4. /\ Consistent(book) /\ Consistent(book')
      /\ ListsBook(now, book) /\ ListsBook(next, book')
      /\ now = [side \in Sides |-> now[side]]
      /\ q \in Seq(Order)
  <2>1. /\ Consistent(book) /\ Counts(book) /\ Consistent(book') /\ Counts(book')
    BY <1>1 DEF BookPart
  <2>2. ListsBook(now, book) /\ ListsBook(next, book') /\ now = [side \in Sides |-> now[side]]
    BY <2>1, BookIsListed
  <2>3. q \in Seq(Order)
    BY <1>3, <2>1, BookIsListed
  <2> QED
    BY <2>1, <2>2, <2>3
<1>5. \A i \in 1 .. Len(q) : remaining = 0 \/ ~Reaches(order, q, i)
  <2>1. q = Resting(book)[opposite(order.side)]
    OBVIOUS
  <2> HIDE DEF q
  <2> QED
    BY <1>1, <2>1, OverReachesNothing
<1>6. Abstract!Outcome(now, executed_volume, trades, order, remaining) =
        [resting |-> Abstract!Rested(now, order, remaining),
         executed_volume |-> executed_volume, trades |-> trades]
  <2>1. q = now[opposite(order.side)]
    OBVIOUS
  <2> HIDE DEF now, q
  <2> QED
    BY <1>2, <1>3, <1>4, <1>5, <2>1, NothingOutcome
<1>7. Abstract!Rested(now, order, remaining) = next
  <2>1. CASE Rests(order, remaining)
    <3> DEFINE o == RestingPart(order, remaining)
    <3>1. o \in Order /\ o.id = order.id
      BY <1>2, <2>1 DEF RestingPart, Aggressor, Order, Rests
    <3>2. book' = insert_order(book, o)
      BY <2>1 DEF Finish
    <3>3. Abstract!Rested(now, order, remaining) = Queues!Queued(now, o)
      <4>1. Abstract!Rested(now, order, remaining) =
              Abstract!Queued(now, Abstract!RestingPart(order, remaining))
        BY <2>1 DEF Abstract!Rested, Rests
      <4> HIDE DEF now
      <4> QED
        BY <4>1, AbstractOperators
    <3> HIDE DEF o, now, next
    <3>4. ListsBook(Queues!Queued(now, o), book')
      BY <1>2, <1>4, <3>1, <3>2, QueuedLists
    <3> QED
      BY <1>4, <3>3, <3>4, ListsBookOnce
  <2>2. CASE ~Rests(order, remaining)
    <3>1. book' = book
      BY <2>2 DEF Finish
    <3> QED
      BY <2>2, <3>1 DEF Abstract!Rested, Rests
  <2> QED
    BY <2>1, <2>2
<1>8. Now = Abstract!Outcome(now, executed_volume, trades, order, remaining)
  BY <1>1 DEF Now, SettledFrom
<1>9. Now' = [resting |-> next, executed_volume |-> executed_volume, trades |-> trades]
  BY <1>1 DEF Now, SettledFrom
<1> HIDE DEF now, next
<1> QED
  BY <1>6, <1>7, <1>8, <1>9

\* The auxiliary variable carries the outcome.
Settled == settled = Now

\* Between two calls, it is the book, the volume and the trades.
LEMMA SettledBetweenCalls ==
  /\ Settled /\ pc = "idle" => /\ settled.resting = Resting(book)
                               /\ settled.executed_volume = executed_volume
                               /\ settled.trades = trades
  /\ Settled' /\ pc' = "idle" => /\ settled'.resting = Resting(book')
                                 /\ settled'.executed_volume = executed_volume'
                                 /\ settled'.trades = trades'
BY DEF Settled, Now, SettledFrom

\* A match that starts trades the whole outcome in the abstract.
LEMMA StartSettles ==
  ASSUME NEW o, StartMatch(o), Settled, Settled', pc = "idle"
  PROVE  /\ settled.executed_volume + o.quantity <= MaxVolume
         /\ Abstract!Becomes(Abstract!Outcome(Resting(book'), settled.executed_volume,
                                              <<>>, o, o.quantity))
<1>1. settled.executed_volume = executed_volume
  BY SettledBetweenCalls
<1>2. settled' = Abstract!Outcome(Resting(book'), executed_volume, <<>>, o, o.quantity)
  BY DEF StartMatch, Settled, Now, SettledFrom
<1> QED
  BY <1>1, <1>2 DEF StartMatch, Abstract!Becomes

LEMMA SubmitSettles ==
  ASSUME IInv, NEW o, Submit(o), Settled, Settled'
  PROVE  Abstract!Submit(o)
<1>1. BookPart /\ pc = "idle" /\ ~contains(book, o.id) /\ book' = book /\ StartMatch(o)
  BY DEF IInv, Submit
<1> DEFINE now == Resting(book)
<1>2. settled.resting = now /\ Resting(book') = now
  BY <1>1, SettledBetweenCalls
<1>3. Abstract!RestingIds(now) = DOMAIN book.locations
  <2>1. ListsBook(now, book) /\ Consistent(book)
    BY <1>1, BookIsListed DEF BookPart
  <2> HIDE DEF now
  <2> QED
    BY <2>1, RestingFinds, AbstractOperators
<1>4. /\ settled.executed_volume + o.quantity <= MaxVolume
      /\ Abstract!Becomes(Abstract!Outcome(Resting(book'), settled.executed_volume,
                                           <<>>, o, o.quantity))
  BY <1>1, StartSettles
<1> HIDE DEF now
<1> QED
  BY <1>1, <1>2, <1>3, <1>4 DEF Abstract!Submit, contains

LEMMA CancelSettles ==
  ASSUME IInv, IInv', NEW id, Cancel(id), Settled, Settled'
  PROVE  Abstract!Cancel(id)
<1>1. /\ BookPart /\ BookPart' /\ pc = "idle" /\ pc' = "idle" /\ book' = cancel_order(book, id)
      /\ executed_volume' = executed_volume /\ trades' = <<>>
  BY DEF IInv, Cancel
<1> DEFINE now == Resting(book)
           next == Resting(book')
<1>2. /\ settled.resting = now /\ settled'.resting = next
      /\ settled'.executed_volume = settled.executed_volume /\ settled'.trades = <<>>
  BY <1>1, SettledBetweenCalls
<1>3. next = Abstract!Removed(now, id)
  <2>1. /\ ListsBook(now, book) /\ Consistent(book)
        /\ ListsBook(next, book') /\ Consistent(book')
    BY <1>1, BookIsListed DEF BookPart
  <2> HIDE DEF now, next
  <2>2. ListsBook(Queues!Removed(now, id), book')
    BY <1>1, <2>1, RemovedLists
  <2>3. next = Queues!Removed(now, id)
    BY <2>1, <2>2, ListsBookOnce
  <2> QED
    BY <2>3, AbstractOperators
<1> HIDE DEF now, next
<1> QED
  BY <1>2, <1>3 DEF Abstract!Cancel, Abstract!Quietly

LEMMA ModifySettles ==
  ASSUME IInv, IInv', NEW id \in OrderIds, NEW new_price \in Prices,
         NEW new_quantity \in Int, Modify(id, new_price, new_quantity), Settled, Settled'
  PROVE  Abstract!Modify(id, new_price, new_quantity)
<1>1. BookPart /\ BookPart' /\ pc = "idle"
  BY DEF IInv, Modify
<1> DEFINE now == Resting(book)
           next == Resting(book')
           resting_order == find(book, id)
           found == Abstract!OrderOf(now, id)
           renewed == [id |-> id, side |-> resting_order.side, type |-> "Limit",
                       price |-> new_price, quantity |-> new_quantity]
<1>2. settled.resting = now
  BY <1>1, SettledBetweenCalls
<1>3. /\ ListsBook(now, book) /\ Consistent(book) /\ Counts(book)
      /\ ListsBook(next, book') /\ Consistent(book')
  BY <1>1, BookIsListed DEF BookPart
<1>4. /\ Abstract!RestingIds(now) = DOMAIN book.locations
      /\ id \in DOMAIN book.locations => found = resting_order
  <2> HIDE DEF now
  <2>1. /\ Queues!RestingIds(now) = DOMAIN book.locations
        /\ id \in DOMAIN book.locations => Queues!OrderOf(now, id) = resting_order
    BY <1>3, RestingFinds
  <2> QED
    BY <2>1, AbstractOperators
<1> DEFINE anew == [id |-> id, side |-> found.side, type |-> "Limit",
                    price |-> new_price, quantity |-> new_quantity]
<1>5. Abstract!Modify(id, new_price, new_quantity) <=>
        IF id \notin DOMAIN book.locations \/ new_quantity <= 0
        THEN Abstract!Quietly(now)
        ELSE IF Abstract!KeepsPlace(found, new_price, new_quantity)
             THEN Abstract!Quietly(Abstract!Resized(now, id, new_quantity))
             ELSE /\ settled.executed_volume + new_quantity <= MaxVolume
                  /\ Abstract!Becomes(Abstract!Outcome(Abstract!Removed(now, id),
                                                       settled.executed_volume, <<>>,
                                                       anew, new_quantity))
  BY <1>2, <1>4 DEF Abstract!Modify
<1>6. ASSUME pc' = "idle", executed_volume' = executed_volume, trades' = <<>>
      PROVE  Abstract!Quietly(next)
  <2>1. /\ settled'.resting = next /\ settled'.trades = <<>>
        /\ settled'.executed_volume = settled.executed_volume
    BY <1>1, <1>6, SettledBetweenCalls
  <2> HIDE DEF next
  <2> QED
    BY <2>1 DEF Abstract!Quietly
<1>7. CASE ModifyNothing(id, new_quantity) /\ trades' = <<>>
  <2>1. Abstract!Quietly(next)
    BY <1>1, <1>6, <1>7 DEF ModifyNothing
  <2>2. next = now
    BY <1>7 DEF ModifyNothing
  <2> HIDE DEF now, next
  <2> QED
    BY <1>5, <1>7, <2>1, <2>2 DEF ModifyNothing, contains
<1>8. CASE ModifyInPlace(id, new_price, new_quantity) /\ trades' = <<>>
  <2>1. /\ id \in DOMAIN book.locations
        /\ new_quantity \in Nat \ {0}
        /\ new_price = resting_order.price
        /\ new_quantity <= resting_order.quantity
        /\ book' = modify_order(book, id, resting_order.price, new_quantity)
    BY <1>8 DEF ModifyInPlace, contains
  <2>2. book' = Reduced(book, id, new_quantity)
    BY <1>3, <2>1, DecreaseInPlace
  <2>3. Abstract!Quietly(next)
    BY <1>1, <1>6, <1>8 DEF ModifyInPlace
  <2>4. next = Abstract!Resized(now, id, new_quantity)
    <3> HIDE DEF now, next
    <3>1. ListsBook(Queues!Resized(now, id, new_quantity), book')
      BY <1>3, <2>1, <2>2, ResizedLists
    <3>2. next = Queues!Resized(now, id, new_quantity)
      BY <1>3, <3>1, ListsBookOnce
    <3> QED
      BY <3>2, AbstractOperators
  <2>5. Abstract!KeepsPlace(found, new_price, new_quantity)
    BY <1>4, <2>1 DEF Abstract!KeepsPlace
  <2>6. ~(id \notin DOMAIN book.locations \/ new_quantity <= 0)
    BY <2>1
  <2> HIDE DEF now, next, found, anew
  <2> QED
    BY <1>5, <2>3, <2>4, <2>5, <2>6
<1>9. CASE ModifyAsNew(id, new_price, new_quantity)
  <2>1. /\ id \in DOMAIN book.locations
        /\ new_quantity \in Nat \ {0}
        /\ new_price # resting_order.price \/ new_quantity > resting_order.quantity
        /\ book' = cancel_order(book, id)
        /\ StartMatch(renewed)
    BY <1>9 DEF ModifyAsNew, contains
  <2>2. resting_order.quantity \in Nat
    BY <1>3, <2>1, FindResting DEF Order
  <2>3. anew = renewed
    BY <1>4, <2>1
  <2>4. /\ settled.executed_volume + renewed.quantity <= MaxVolume
        /\ Abstract!Becomes(Abstract!Outcome(next, settled.executed_volume,
                                             <<>>, renewed, renewed.quantity))
    BY <1>1, <2>1, StartSettles
  <2>5. next = Abstract!Removed(now, id)
    <3> HIDE DEF now, next
    <3>1. ListsBook(Queues!Removed(now, id), book')
      BY <1>3, <2>1, RemovedLists
    <3>2. next = Queues!Removed(now, id)
      BY <1>3, <3>1, ListsBookOnce
    <3> QED
      BY <3>2, AbstractOperators
  <2>6. ~Abstract!KeepsPlace(found, new_price, new_quantity)
    <3> HIDE DEF found, resting_order
    <3> QED
      BY <1>4, <2>1, <2>2 DEF Abstract!KeepsPlace
  <2>7. ~(id \notin DOMAIN book.locations \/ new_quantity <= 0)
    BY <2>1
  <2>8. renewed.quantity = new_quantity
    OBVIOUS
  <2> HIDE DEF now, next, found, anew, renewed
  <2> QED
    BY <1>5, <2>3, <2>4, <2>5, <2>6, <2>7, <2>8
<1> QED
  BY <1>7, <1>8, <1>9 DEF Modify

\* Every step of the engine is a step of the abstract engine, or part of a
\* call that is settled already.
LEMMA NextSettles ==
  ASSUME IInv, IInv', Settled, Settled', Next
  PROVE  Abstract!Next \/ settled' = settled
<1>1. ASSUME NEW id \in OrderIds, NEW side \in Sides, NEW quantity \in Quantities,
             NEW price \in Prices,
             Submit([id |-> id, side |-> side, type |-> "Limit",
                     price |-> price, quantity |-> quantity])
      PROVE  Abstract!Next
  <2>1. Abstract!Submit([id |-> id, side |-> side, type |-> "Limit",
                         price |-> price, quantity |-> quantity])
    BY <1>1, SubmitSettles
  <2> QED
    BY <2>1, AbstractCopies DEF Abstract!Next
<1>2. ASSUME NEW id \in OrderIds, NEW side \in Sides, NEW quantity \in Quantities,
             Submit([id |-> id, side |-> side, type |-> "Market",
                     price |-> 0, quantity |-> quantity])
      PROVE  Abstract!Next
  <2>1. Abstract!Submit([id |-> id, side |-> side, type |-> "Market",
                         price |-> 0, quantity |-> quantity])
    BY <1>2, SubmitSettles
  <2> QED
    BY <2>1, AbstractCopies DEF Abstract!Next
<1>3. ASSUME NEW id \in OrderIds, Cancel(id)
      PROVE  Abstract!Next
  <2>1. Abstract!Cancel(id)
    BY <1>3, CancelSettles
  <2> QED
    BY <2>1 DEF Abstract!Next
<1>4. ASSUME NEW id \in OrderIds, NEW new_price \in Prices,
             NEW new_quantity \in ModifySizes, Modify(id, new_price, new_quantity)
      PROVE  Abstract!Next
  <2>1. new_quantity \in Int
    BY QuantitiesAssumption DEF ModifySizes
  <2>2. Abstract!Modify(id, new_price, new_quantity)
    BY <1>4, <2>1, ModifySettles
  <2>3. Abstract!ModifySizes = ModifySizes
    BY DEF Abstract!ModifySizes, ModifySizes
  <2> QED
    BY <2>2, <2>3 DEF Abstract!Next
<1>5. ASSUME Fill \/ Finish
      PROVE  settled' = settled
  BY <1>5, FillSettles, FinishSettles DEF Settled
<1> QED
  BY <1>1, <1>2, <1>3, <1>4, <1>5 DEF Next

LEMMA RefinementStep ==
  ASSUME IInv, IInv', Settled, Settled', [RefinementNext]_<<vars, settled>>
  PROVE  [Abstract!Next]_(Abstract!vars)
<1>1. ASSUME settled' = settled PROVE UNCHANGED Abstract!vars
  BY <1>1 DEF Abstract!vars
<1>2. CASE UNCHANGED <<vars, settled>>
  BY <1>1, <1>2
<1>3. CASE RefinementNext
  BY <1>1, <1>3, NextSettles DEF RefinementNext
<1> QED
  BY <1>2, <1>3

\* The engine, with its loop, its sorted maps of queues and its index, is the
\* abstract engine: whatever is called, the orders that rest, their order, the
\* counterparties, prices and sizes of the trades are what price-time priority
\* gives all at once.
THEOREM EngineImplementsPriceTimePriority ==
  RefinementSpec => ImplementsPriceTimePriority
<1>1. RefinementInit => IInv /\ Settled
  BY InitIInv DEF RefinementInit, Settled, Now
<1>2. RefinementInit => Abstract!Init
  <2> SUFFICES ASSUME RefinementInit PROVE Abstract!Init
    OBVIOUS
  <2>1. /\ book = EmptyBook /\ executed_volume = 0 /\ trades = <<>> /\ pc = "idle"
        /\ IInv /\ Settled
    BY <1>1 DEF RefinementInit, Init
  <2>2. Resting(book) = Abstract!NoOrders
    <3> DEFINE now == Resting(book)
    <3>1. ListsBook(now, book) /\ Consistent(book)
      BY <2>1, BookIsListed DEF IInv, BookPart
    <3>2. ListsBook(Queues!NoOrders, book)
      BY <2>1, NoOrdersListed
    <3> HIDE DEF now
    <3>3. now = Queues!NoOrders
      BY <3>1, <3>2, ListsBookOnce
    <3> QED
      BY <3>3, AbstractOperators DEF now
  <2> QED
    BY <2>1, <2>2, SettledBetweenCalls DEF Abstract!Init
<1>3. IInv /\ Settled /\ [RefinementNext]_<<vars, settled>> => IInv' /\ Settled'
  <2> SUFFICES ASSUME IInv, Settled, [RefinementNext]_<<vars, settled>>
               PROVE  IInv' /\ Settled'
    OBVIOUS
  <2>1. [Next]_vars
    BY DEF RefinementNext
  <2>2. IInv'
    BY <2>1, NextIInv
  <2>3. Settled'
    BY DEF RefinementNext, Settled, Now, vars
  <2> QED
    BY <2>2, <2>3
<1>4. RefinementSpec => [](IInv /\ Settled)
  BY <1>1, <1>3, PTL DEF RefinementSpec
<1>5. IInv /\ Settled /\ (IInv /\ Settled)' /\ [RefinementNext]_<<vars, settled>>
        => [Abstract!Next]_(Abstract!vars)
  BY RefinementStep
<1> QED
  BY <1>2, <1>4, <1>5, PTL DEF RefinementSpec, ImplementsPriceTimePriority, Abstract!Spec
=============================================================================
