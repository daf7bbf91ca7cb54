------------------------- MODULE EventReplayProofs -------------------------
(***************************************************************************)
(* The outputs of the matching replay, for any stream: the rows agree with *)
(* each other and with the book, and the signal has the sign of the event. *)
(*                                                                         *)
(* The engine's own invariant is the one of MatchingEngineProofs, and its  *)
(* steps are cited from there.  To it are added what the engine has done   *)
(* to the book since the event began, as a matter of shares per price, and *)
(* that what the imbalance remembers is the book from before that.         *)
(*                                                                         *)
(* Then of whole files: their replay is a replay, of the rows in the order *)
(* of their times; and the rows that it writes account for its summary and *)
(* for every order that rests.                                             *)
(***************************************************************************)
EXTENDS ReplayFile, BookLemmas, TLAPS

(***************************************************************************)
(* The engine                                                              *)
(***************************************************************************)

\* The engine about which MatchingEngineProofs proves; `settled` is history
\* that only its refinement reads.
Proved == INSTANCE MatchingEngineProofs WITH settled <- book

\* Both instances call the operations of the book.
LEMMA SameOperations ==
  /\ Engine!EmptyBook = EmptyBook /\ Proved!EmptyBook = EmptyBook
  /\ \A b, id : /\ Engine!contains(b, id) <=> contains(b, id)
                /\ Proved!contains(b, id) <=> contains(b, id)
  /\ \A b, o : /\ Engine!insert_order(b, o) = insert_order(b, o)
               /\ Proved!insert_order(b, o) = insert_order(b, o)
  /\ \A b, id : /\ Engine!cancel_order(b, id) = cancel_order(b, id)
                /\ Proved!cancel_order(b, id) = cancel_order(b, id)
  /\ \A b, id : /\ Engine!find(b, id) = find(b, id)
                /\ Proved!find(b, id) = find(b, id)
  /\ \A b, id, price, quantity :
       /\ Engine!modify_order(b, id, price, quantity) = modify_order(b, id, price, quantity)
       /\ Proved!modify_order(b, id, price, quantity) = modify_order(b, id, price, quantity)
<1>1. Engine!EmptyBook = EmptyBook /\ Proved!EmptyBook = EmptyBook
  BY DEF Engine!EmptyBook, Proved!EmptyBook, EmptyBook, Engine!NoLevels,
     Proved!NoLevels, NoLevels, Engine!EmptyLevel, Proved!EmptyLevel,
     EmptyLevel, Engine!Sides, Proved!Sides, Sides
<1>2. ASSUME NEW b, NEW id
      PROVE  /\ Engine!contains(b, id) <=> contains(b, id)
             /\ Proved!contains(b, id) <=> contains(b, id)
  BY DEF Engine!contains, Proved!contains, contains
<1>3. ASSUME NEW b, NEW o
      PROVE  /\ Engine!insert_order(b, o) = insert_order(b, o)
             /\ Proved!insert_order(b, o) = insert_order(b, o)
  BY DEF Engine!insert_order, Proved!insert_order, insert_order, Engine!WithLevel,
     Proved!WithLevel, WithLevel, Engine!Put, Proved!Put, Put, Engine!Emplace,
     Proved!Emplace, Emplace, Engine!LevelAt, Proved!LevelAt, LevelAt,
     Engine!EmptyLevel, Proved!EmptyLevel, EmptyLevel, Engine!LevelAdd,
     Proved!LevelAdd, LevelAdd
<1>4. ASSUME NEW b, NEW id
      PROVE  /\ Engine!cancel_order(b, id) = cancel_order(b, id)
             /\ Proved!cancel_order(b, id) = cancel_order(b, id)
  BY DEF Engine!cancel_order, Proved!cancel_order, cancel_order, Engine!contains,
     Proved!contains, contains, Engine!LeftLevel, Proved!LeftLevel, LeftLevel,
     Engine!LevelCancel, Proved!LevelCancel, LevelCancel, Engine!HasOrder,
     Proved!HasOrder, HasOrder, Engine!Positions, Proved!Positions, Positions,
     Engine!PositionOf, Proved!PositionOf, PositionOf, Engine!FindInLevel,
     Proved!FindInLevel, FindInLevel, Engine!RemoveAt, Proved!RemoveAt,
     RemoveAt, Engine!Without, Proved!Without, Without, Engine!WithLevel,
     Proved!WithLevel, WithLevel, Engine!Put, Proved!Put, Put
<1>5. ASSUME NEW b, NEW id
      PROVE  /\ Engine!find(b, id) = find(b, id)
             /\ Proved!find(b, id) = find(b, id)
  BY DEF Engine!find, Proved!find, find, Engine!FindInLevel, Proved!FindInLevel,
     FindInLevel, Engine!PositionOf, Proved!PositionOf, PositionOf,
     Engine!Positions, Proved!Positions, Positions
<1>6. ASSUME NEW b, NEW id, NEW price, NEW quantity
      PROVE  /\ Engine!modify_order(b, id, price, quantity) = modify_order(b, id, price, quantity)
             /\ Proved!modify_order(b, id, price, quantity) = modify_order(b, id, price, quantity)
  BY DEF Engine!CanReduce, Proved!CanReduce, CanReduce, Engine!Emplace,
     Proved!Emplace, Emplace, Engine!EmptyLevel, Proved!EmptyLevel, EmptyLevel,
     Engine!FindInLevel, Proved!FindInLevel, FindInLevel, Engine!HasOrder,
     Proved!HasOrder, HasOrder, Engine!LeftLevel, Proved!LeftLevel, LeftLevel,
     Engine!LevelAdd, Proved!LevelAdd, LevelAdd, Engine!LevelAt,
     Proved!LevelAt, LevelAt, Engine!LevelCancel, Proved!LevelCancel,
     LevelCancel, Engine!LevelReduce, Proved!LevelReduce, LevelReduce,
     Engine!PositionOf, Proved!PositionOf, PositionOf, Engine!Positions,
     Proved!Positions, Positions, Engine!Put, Proved!Put, Put, Engine!Reduced,
     Proved!Reduced, Reduced, Engine!RemoveAt, Proved!RemoveAt, RemoveAt,
     Engine!Repriced, Proved!Repriced, Repriced, Engine!WithLevel,
     Proved!WithLevel, WithLevel, Engine!Without, Proved!Without, Without,
     Engine!cancel_order, Proved!cancel_order, cancel_order, Engine!contains,
     Proved!contains, contains, Engine!find, Proved!find, find,
     Engine!insert_order, Proved!insert_order, insert_order,
     Engine!modify_order, Proved!modify_order, modify_order
<1> QED
  BY <1>1, <1>2, <1>3, <1>4, <1>5, <1>6

\* The engine of the replay and the one that the proofs are about are the same.
LEMMA SameEngine ==
  /\ Engine!Init <=> Proved!Init
  /\ \A o : Engine!Submit(o) <=> Proved!Submit(o)
  /\ Engine!Fill <=> Proved!Fill
  /\ Engine!Finish <=> Proved!Finish
  /\ \A id : Engine!Cancel(id) <=> Proved!Cancel(id)
  /\ \A id, price, quantity :
       Engine!Modify(id, price, quantity) <=> Proved!Modify(id, price, quantity)
<1>1. Engine!Init <=> Proved!Init
  BY DEF Engine!Init, Proved!Init, Engine!NoOrder, Proved!NoOrder,
     Engine!EmptyBook, Proved!EmptyBook, Engine!NoLevels, Proved!NoLevels,
     Engine!EmptyLevel, Proved!EmptyLevel, Engine!Sides, Proved!Sides
<1>2. ASSUME NEW o PROVE Engine!Submit(o) <=> Proved!Submit(o)
  BY DEF Engine!Submit, Proved!Submit, Engine!StartMatch, Proved!StartMatch,
     Engine!contains, Proved!contains
<1>3. Engine!Fill <=> Proved!Fill
  BY DEF Engine!AfterFill, Proved!AfterFill, Engine!Better, Proved!Better,
     Engine!CanReduce, Proved!CanReduce, Engine!Crosses, Proved!Crosses,
     Engine!CrossesAt, Proved!CrossesAt, Engine!Emplace, Proved!Emplace,
     Engine!EmptyLevel, Proved!EmptyLevel, Engine!Fill, Proved!Fill,
     Engine!FindInLevel, Proved!FindInLevel, Engine!HasOrder, Proved!HasOrder,
     Engine!IsBest, Proved!IsBest, Engine!LeftLevel, Proved!LeftLevel,
     Engine!LevelAdd, Proved!LevelAdd, Engine!LevelAt, Proved!LevelAt,
     Engine!LevelCancel, Proved!LevelCancel, Engine!LevelReduce,
     Proved!LevelReduce, Engine!Min, Proved!Min, Engine!PositionOf,
     Proved!PositionOf, Engine!Positions, Proved!Positions, Engine!Put,
     Proved!Put, Engine!Reduced, Proved!Reduced, Engine!RemoveAt,
     Proved!RemoveAt, Engine!Repriced, Proved!Repriced, Engine!Trade,
     Proved!Trade, Engine!WithLevel, Proved!WithLevel, Engine!Without,
     Proved!Without, Engine!best_order, Proved!best_order, Engine!cancel_order,
     Proved!cancel_order, Engine!contains, Proved!contains, Engine!find,
     Proved!find, Engine!insert_order, Proved!insert_order,
     Engine!modify_order, Proved!modify_order, Engine!opposite, Proved!opposite
<1>4. Engine!Finish <=> Proved!Finish
  BY DEF Engine!Better, Proved!Better, Engine!Crosses, Proved!Crosses,
     Engine!Emplace, Proved!Emplace, Engine!EmptyLevel, Proved!EmptyLevel,
     Engine!Finish, Proved!Finish, Engine!IsBest, Proved!IsBest,
     Engine!LevelAdd, Proved!LevelAdd, Engine!LevelAt, Proved!LevelAt,
     Engine!MatchIsOver, Proved!MatchIsOver, Engine!NoOrder, Proved!NoOrder,
     Engine!Put, Proved!Put, Engine!RestingPart, Proved!RestingPart,
     Engine!Rests, Proved!Rests, Engine!WithLevel, Proved!WithLevel,
     Engine!insert_order, Proved!insert_order, Engine!opposite, Proved!opposite
<1>5. ASSUME NEW id PROVE Engine!Cancel(id) <=> Proved!Cancel(id)
  BY SameOperations DEF Engine!Cancel, Proved!Cancel
<1>6. ASSUME NEW id, NEW price, NEW quantity
      PROVE  Engine!Modify(id, price, quantity) <=> Proved!Modify(id, price, quantity)
  BY DEF Engine!CanReduce, Proved!CanReduce, Engine!Emplace, Proved!Emplace,
     Engine!EmptyLevel, Proved!EmptyLevel, Engine!FindInLevel,
     Proved!FindInLevel, Engine!HasOrder, Proved!HasOrder, Engine!LeftLevel,
     Proved!LeftLevel, Engine!LevelAdd, Proved!LevelAdd, Engine!LevelAt,
     Proved!LevelAt, Engine!LevelCancel, Proved!LevelCancel,
     Engine!LevelReduce, Proved!LevelReduce, Engine!Modify, Proved!Modify,
     Engine!ModifyAsNew, Proved!ModifyAsNew, Engine!ModifyInPlace,
     Proved!ModifyInPlace, Engine!ModifyNothing, Proved!ModifyNothing,
     Engine!PositionOf, Proved!PositionOf, Engine!Positions, Proved!Positions,
     Engine!Put, Proved!Put, Engine!Reduced, Proved!Reduced, Engine!RemoveAt,
     Proved!RemoveAt, Engine!Repriced, Proved!Repriced, Engine!StartMatch,
     Proved!StartMatch, Engine!WithLevel, Proved!WithLevel, Engine!Without,
     Proved!Without, Engine!cancel_order, Proved!cancel_order, Engine!contains,
     Proved!contains, Engine!find, Proved!find, Engine!insert_order,
     Proved!insert_order, Engine!modify_order, Proved!modify_order
<1> QED
  BY <1>1, <1>2, <1>3, <1>4, <1>5, <1>6

\* The copies of the sets and sums of the common modules.
LEMMA SameSums ==
  /\ \A S : Proved!Cardinality(S) = Cardinality(S)
  /\ \A S : Proved!IsFiniteSet(S) <=> IsFiniteSet(S)
  /\ \A f : Proved!SumFunction(f) = SumFunction(f)
<1>1. \A S : Proved!Cardinality(S) = Cardinality(S)
  BY DEF Proved!Cardinality, Cardinality
<1>2. \A S : Proved!IsFiniteSet(S) <=> IsFiniteSet(S)
  BY DEF Proved!IsFiniteSet, IsFiniteSet
<1>3. \A f : Proved!SumFunction(f) = SumFunction(f)
  BY DEF Proved!SumFunction, Proved!SumFunctionOnSet, Proved!FoldFunctionOnSet,
         Proved!MapThenFoldSet, SumFunction, SumFunctionOnSet, FoldFunctionOnSet,
         MapThenFoldSet
<1> QED
  BY <1>1, <1>2, <1>3

\* What the engine's invariant says, in the replay's own terms.
LEMMA SameInvariant ==
  ASSUME Proved!IInv
  PROVE  /\ Engine!TypeOK
         /\ Consistent(book) /\ Counts(book) /\ Uncrossed(book)
         /\ Proved!CallPart
<1>1. Proved!BookPart /\ Proved!CallPart
  BY DEF Proved!IInv
<1>2. Consistent(book)
  BY <1>1 DEF Proved!BookPart, Proved!Consistent, Consistent, Proved!WellTyped, WellTyped, Proved!Agrees,
     Agrees, Proved!IndexedAreQueued, IndexedAreQueued, Proved!LevelIndexed,
     LevelIndexed, Proved!OrderIndexed, OrderIndexed, Proved!NoTwins, NoTwins,
     Proved!Positions, Positions, Proved!HasOrder, HasOrder, Proved!contains,
     contains, Proved!Level, Level, Proved!Location, Location, Proved!Order,
     Order, Proved!Sides, Sides
<1>3. Counts(book)
  <2>1. Proved!Counts(book)
    BY <1>1 DEF Proved!BookPart
  <2>2. \A queue : Proved!Shares(queue) = Shares(queue)
    BY SameSums DEF Proved!Shares, Shares
  <2>3. \A side : Proved!Counted(book, side) = Counted(book, side)
    BY SameSums DEF Proved!Counted, Counted
  <2>4. \A level : Proved!Exact(level) <=> Exact(level)
    BY <2>2 DEF Proved!Exact, Exact
  <2> QED
    BY <2>1, <2>3, <2>4, SameSums DEF Proved!Counts, Counts, Proved!Sides, Sides
<1>4. Uncrossed(book)
  BY <1>1 DEF Proved!BookPart, Proved!Uncrossed, Uncrossed
<1>5. Proved!TypeOK
  BY <1>1 DEF Proved!BookPart, Proved!CallPart, Proved!TypeOK, Proved!Consistent
<1>6. Engine!TypeOK
  BY <1>5 DEF Engine!TypeOK, Proved!TypeOK, Engine!WellTyped, Proved!WellTyped,
     Engine!Level, Proved!Level, Engine!Location, Proved!Location,
     Engine!Order, Proved!Order, Engine!Sides, Proved!Sides, Engine!NoOrder,
     Proved!NoOrder, Engine!Aggressor, Proved!Aggressor, Engine!OrderTypes,
     Proved!OrderTypes, Engine!TradeRecord, Proved!TradeRecord,
     Engine!contains, Proved!contains
<1> QED
  BY <1>1, <1>2, <1>3, <1>4, <1>6

\* The fields that an event's handler reads.
LEMMA EventFields ==
  ASSUME NEW ev \in Events
  PROVE  /\ ev.type \in {"Add", "Market", "Cancel", "Modify"} /\ ev.id \in OrderIds
         /\ ev.type \in {"Add", "Modify"} =>
              /\ ev.side \in Sides /\ ev.price \in Prices
              /\ ev.quantity \in Quantities
         /\ ev.type = "Market" => ev.side \in Sides /\ ev.quantity \in Quantities
BY DEF Events

\* No event of a stream makes the engine leave its invariant.
LEMMA EngineStep ==
  ASSUME Proved!IInv, [Next]_vars
  PROVE  Proved!IInv'
<1>1. ASSUME NEW ev \in Events, ev.type \in {"Add", "Market"}, Engine!Submit(AsOrder(ev))
      PROVE  Proved!IInv'
  <2>1. /\ ev.id \in OrderIds /\ ev.side \in Sides /\ ev.quantity \in Nat \ {0}
        /\ ev.type = "Add" => ev.price \in Prices /\ ev.price \in Int
    BY <1>1, EventFields, QuantitiesAssumption, PricesAssumption
  <2>2. AsOrder(ev) \in Proved!Aggressor
    BY <1>1, <2>1 DEF AsOrder, Proved!Aggressor, Proved!OrderTypes, Proved!Sides, Sides
  <2> DEFINE o == AsOrder(ev)
  <2>3. Proved!Submit(o)
    BY <1>1, SameEngine
  <2> HIDE DEF o
  <2> QED
    BY <2>2, <2>3, Proved!SubmitStep, PricesAssumption, QuantitiesAssumption, MaxVolumeAssumption DEF o
<1>2. ASSUME NEW ev \in Events, Engine!Cancel(ev.id)
      PROVE  Proved!IInv'
  <2>1. Proved!Cancel(ev.id)
    BY <1>2, SameEngine
  <2> QED
    BY <2>1, Proved!CancelStep, PricesAssumption, QuantitiesAssumption, MaxVolumeAssumption
<1>3. ASSUME NEW ev \in Events, ev.type = "Modify",
             Engine!Modify(ev.id, ev.price, ev.quantity)
      PROVE  Proved!IInv'
  <2>1. Proved!Modify(ev.id, ev.price, ev.quantity)
    BY <1>3, SameEngine
  <2>2. ev.id \in OrderIds /\ ev.price \in Prices /\ ev.quantity \in Quantities
    BY <1>3, EventFields
  <2>3. ev.quantity \in Int
    <3>1. \A n \in Quantities : n \in Int
      BY QuantitiesAssumption
    <3> QED
      BY <2>2, <3>1
  <2> QED
    BY <2>1, <2>2, <2>3, Proved!ModifyStep, PricesAssumption, QuantitiesAssumption, MaxVolumeAssumption
<1>4. CASE Engine!Fill
  <2>1. Proved!Fill
    BY <1>4, SameEngine
  <2> QED
    BY <2>1, Proved!FillStep, PricesAssumption, QuantitiesAssumption, MaxVolumeAssumption
<1>5. CASE Engine!Finish
  <2>1. Proved!Finish
    BY <1>5, SameEngine
  <2> QED
    BY <2>1, Proved!FinishStep, PricesAssumption, QuantitiesAssumption, MaxVolumeAssumption
<1>6. CASE UNCHANGED engine
  <2>1. UNCHANGED Proved!vars
    BY <1>6 DEF engine, Proved!vars
  <2> QED
    BY <2>1, Proved!NextIInv, PricesAssumption, QuantitiesAssumption, MaxVolumeAssumption
<1> QED
  BY <1>1, <1>2, <1>3, <1>4, <1>5, <1>6, EventFields DEF Next, Dispatch, Match, Emit, vars

\* The front order of a level is indexed under its id, on that side and at that
\* price.
LEMMA FrontStands ==
  ASSUME NEW b, Consistent(b), NEW side \in Sides, NEW price \in DOMAIN b.levels[side]
  PROVE  LET front == Head(b.levels[side][price].queue)
         IN /\ front \in Order
            /\ front.id \in DOMAIN b.locations
            /\ b.locations[front.id] = [side |-> side, price |-> price]
            /\ find(b, front.id) = front
            /\ front.price = price
<1> DEFINE level == b.levels[side][price]
<1>1. level \in Level /\ LevelIndexed(b, side, price)
  BY DEF Consistent, WellTyped, Agrees
<1>2. level.queue # <<>> /\ level.queue \in Seq(Order)
  BY <1>1 DEF LevelIndexed, Level
<1>3. 1 \in Positions(level) /\ Head(level.queue) = level.queue[1]
  BY <1>2, EmptySeq, LenProperties DEF Positions
<1>4. StandsAt(b, side, price, level.queue[1], 1)
  BY <1>3 DEF StandsAt
<1>5. OrderIndexed(b, level.queue[1], side, price)
  BY <1>1, <1>3 DEF LevelIndexed
<1> HIDE DEF level
<1>6. /\ level.queue[1] \in Order
      /\ level.queue[1].id \in DOMAIN b.locations
      /\ b.locations[level.queue[1].id] = [side |-> side, price |-> price]
      /\ find(b, level.queue[1].id) = level.queue[1]
  BY <1>4, FoundAt
<1> QED
  BY <1>3, <1>5, <1>6 DEF OrderIndexed, level

\* A fill takes shares out of the opposite side only, and prints at its best
\* price.
LEMMA FillEffect ==
  ASSUME Proved!IInv, Engine!Fill
  PROVE  /\ pc = "match" /\ pc' = "match" /\ order' = order /\ order.side \in Sides
         /\ Grows(book', book, opposite(order.side))
         /\ book'.levels[order.side] = book.levels[order.side]
         /\ \E trade : /\ trades' = Append(trades, trade)
                       /\ trade.aggressor_side = order.side
                       /\ IsBest(book, opposite(order.side), trade.price)
<1> DEFINE s == opposite(order.side)
<1>1. Consistent(book) /\ Counts(book) /\ Proved!CallPart
  BY SameInvariant
<1>2. pc = "match" /\ pc' = "match" /\ order' = order /\ remaining > 0
  BY DEF Engine!Fill
<1>3. order.side \in Sides /\ remaining \in Nat
  BY <1>1, <1>2 DEF Proved!CallPart, Proved!Aggressor, Proved!Sides, Sides
<1>4. s \in Sides /\ s # order.side /\ \A side \in Sides : side # order.side => side = s
  BY <1>3 DEF opposite, Sides
<1>5. PICK best \in DOMAIN book.levels[s] :
        LET resting == Head(book.levels[s][best].queue)
            fill == Engine!Min({remaining, resting.quantity})
        IN /\ IsBest(book, s, best)
           /\ trades' = Append(trades, Engine!Trade(order, resting, fill))
           /\ book' = Engine!AfterFill(book, resting, fill)
  BY DEF Engine!Fill, Engine!CrossesAt, Engine!best_order, Engine!opposite, opposite,
         Engine!IsBest, IsBest, Engine!Better, Better
<1> DEFINE resting == Head(book.levels[s][best].queue)
           fill == Engine!Min({remaining, resting.quantity})
           trade == Engine!Trade(order, resting, fill)
<1> HIDE DEF s, fill, trade
<1>6. /\ resting \in Order /\ resting.price = best
      /\ resting.id \in DOMAIN book.locations
      /\ book.locations[resting.id] = [side |-> s, price |-> best]
      /\ find(book, resting.id) = resting
  BY <1>1, <1>4, FrontStands
<1> HIDE DEF resting
<1>7. /\ fill \in Nat \ {0} /\ fill <= resting.quantity
      /\ resting.quantity \in Nat \ {0}
  <2>1. resting.quantity \in Nat \ {0}
    BY <1>6 DEF Order
  <2>2. fill = IF remaining <= resting.quantity THEN remaining ELSE resting.quantity
    <3>1. Engine!Min({remaining, resting.quantity}) = Min({remaining, resting.quantity})
      BY DEF Engine!Min, Min
    <3> QED
      BY <1>3, <2>1, <3>1, SmallerOfTwo DEF fill
  <2> QED
    BY <1>2, <1>3, <2>1, <2>2
<1>8. /\ trades' = Append(trades, trade) /\ trade.aggressor_side = order.side
      /\ trade.price = best /\ IsBest(book, s, best)
  BY <1>5, <1>6 DEF Engine!Trade, trade, fill, resting
<1>9. book' = IF fill = resting.quantity THEN cancel_order(book, resting.id)
              ELSE modify_order(book, resting.id, resting.price, resting.quantity - fill)
  BY <1>5, SameOperations DEF Engine!AfterFill, resting, fill
<1>10. /\ Grows(book', book, s)
       /\ \A side \in Sides : side # s => book'.levels[side] = book.levels[side]
  <2>1. CASE fill = resting.quantity
    BY <1>1, <1>6, <1>9, <2>1, CancelThins
  <2>2. CASE fill # resting.quantity
    <3>1. resting.quantity - fill \in Nat \ {0} /\ resting.quantity - fill <= resting.quantity
      BY <1>7, <2>2
    <3>2. modify_order(book, resting.id, resting.price, resting.quantity - fill)
            = Reduced(book, resting.id, resting.quantity - fill)
      BY <1>6, <3>1 DEF modify_order, contains
    <3>3. book' = Reduced(book, resting.id, resting.quantity - fill)
      BY <1>9, <2>2, <3>2
    <3> QED
      BY <1>1, <1>6, <3>1, <3>3, ReducedThins
  <2> QED
    BY <2>1, <2>2
<1> QED
  BY <1>2, <1>3, <1>4, <1>8, <1>10 DEF s

\* What is left of a limit order joins its own side.
LEMMA FinishEffect ==
  ASSUME Proved!IInv, Engine!Finish
  PROVE  /\ pc = "match" /\ pc' = "idle" /\ trades' = trades /\ order.side \in Sides
         /\ Grows(book, book', order.side)
         /\ book'.levels[opposite(order.side)] = book.levels[opposite(order.side)]
<1>1. Consistent(book) /\ Counts(book) /\ Proved!CallPart
  BY SameInvariant
<1>2. pc = "match" /\ pc' = "idle" /\ trades' = trades
  BY DEF Engine!Finish
<1>3. order \in Proved!Aggressor /\ remaining \in Nat /\ order.side \in Sides
  BY <1>1, <1>2 DEF Proved!CallPart, Proved!Aggressor, Proved!Sides, Sides
<1>4. opposite(order.side) \in Sides /\ opposite(order.side) # order.side
  BY <1>3 DEF opposite, Sides
<1>5. CASE ~Engine!Rests(order, remaining)
  <2>1. book' = book
    BY <1>5 DEF Engine!Finish
  <2>2. Grows(book, book, order.side)
    BY <1>1, <1>3 DEF Grows, Consistent, WellTyped, Level
  <2> QED
    BY <1>2, <1>3, <2>1, <2>2
<1>6. CASE Engine!Rests(order, remaining)
  <2> DEFINE o == Engine!RestingPart(order, remaining)
  <2>1. remaining \in Nat \ {0} /\ order.type = "Limit"
    BY <1>3, <1>6 DEF Engine!Rests
  <2>2. order.id \in OrderIds /\ order.price \in Prices
    BY <1>3, <2>1 DEF Proved!Aggressor
  <2>3. o \in Order /\ o.side = order.side
    BY <1>3, <2>1, <2>2 DEF Engine!RestingPart, Order
  <2>4. book' = insert_order(book, o)
    BY <1>6, SameOperations DEF Engine!Finish
  <2> HIDE DEF o
  <2>5. /\ Grows(book, book', order.side)
        /\ \A side \in Sides : side # order.side => book'.levels[side] = book.levels[side]
    BY <1>1, <2>3, <2>4, InsertGrows
  <2> QED
    BY <1>2, <1>3, <1>4, <2>5
<1> QED
  BY <1>5, <1>6

\* A cancelled order, if it rests, leaves one side.
LEMMA CancelEffect ==
  ASSUME Proved!IInv, NEW id, Engine!Cancel(id)
  PROVE  /\ pc' = "idle" /\ trades' = <<>>
         /\ \E side \in Sides :
              /\ Grows(book', book, side)
              /\ \A other \in Sides : other # side => book'.levels[other] = book.levels[other]
<1>1. Consistent(book)
  BY SameInvariant
<1>2. pc' = "idle" /\ trades' = <<>> /\ book' = cancel_order(book, id)
  BY SameOperations DEF Engine!Cancel
<1>3. CASE id \in DOMAIN book.locations
  BY <1>1, <1>2, <1>3, CancelThins
<1>4. CASE id \notin DOMAIN book.locations
  <2>1. book' = book
    BY <1>2, <1>4 DEF cancel_order, contains
  <2>2. Grows(book, book, "Buy") /\ "Buy" \in Sides
    BY <1>1 DEF Grows, Consistent, WellTyped, Level, Sides
  <2> QED
    BY <1>2, <2>1, <2>2
<1> QED
  BY <1>3, <1>4

\* Growing is transitive, and only the levels of that side matter.
LEMMA GrowsOn ==
  ASSUME NEW a, NEW b, NEW c, NEW side \in Sides, Consistent(a), Consistent(b), Consistent(c)
  PROVE  /\ Grows(a, a, side)
         /\ Grows(a, b, side) /\ Grows(b, c, side) => Grows(a, c, side)
         /\ a.levels[side] = b.levels[side] => Grows(a, b, side) /\ Grows(b, a, side)
<1>1. \A x \in {a, b, c} : \A price \in DOMAIN x.levels[side] :
        x.levels[side][price].total_quantity \in Int
  BY DEF Consistent, WellTyped, Level
<1>2. Grows(a, a, side)
  BY <1>1 DEF Grows
<1>3. ASSUME Grows(a, b, side), Grows(b, c, side) PROVE Grows(a, c, side)
  <2>1. DOMAIN a.levels[side] \subseteq DOMAIN c.levels[side]
    BY <1>3 DEF Grows
  <2>2. ASSUME NEW price \in DOMAIN a.levels[side]
        PROVE  a.levels[side][price].total_quantity <= c.levels[side][price].total_quantity
    <3>1. price \in DOMAIN b.levels[side] /\ price \in DOMAIN c.levels[side]
      BY <1>3 DEF Grows
    <3>2. /\ a.levels[side][price].total_quantity \in Int
          /\ b.levels[side][price].total_quantity \in Int
          /\ c.levels[side][price].total_quantity \in Int
      BY <1>1, <3>1
    <3>3. /\ a.levels[side][price].total_quantity <= b.levels[side][price].total_quantity
          /\ b.levels[side][price].total_quantity <= c.levels[side][price].total_quantity
      BY <1>3, <3>1 DEF Grows
    <3> QED
      BY <3>2, <3>3
  <2> QED
    BY <2>1, <2>2 DEF Grows
<1>4. a.levels[side] = b.levels[side] => Grows(a, b, side) /\ Grows(b, a, side)
  BY <1>1 DEF Grows
<1> QED
  BY <1>2, <1>3, <1>4

(***************************************************************************)
(* What the rows show of the book                                          *)
(***************************************************************************)

\* The tracked levels of both sides.
LEMMA TrackedTops ==
  ASSUME NEW b, Consistent(b), Counts(b), NEW side \in Sides
  PROVE  TopOf(extract_levels(b, side), b, side, levels)
<1>1. extract_levels(b, side) = TopLevels(b, side, levels)
  BY DEF extract_levels, TopLevels
<1> QED
  BY <1>1, TrackedAssumption, TopsRead

\* The row's best levels are the first tracked ones, through other accessors.
LEMMA TouchIsFirst ==
  ASSUME NEW b, Consistent(b), Counts(b), NEW side \in Sides
  PROVE  Touch(b, side) = IF DOMAIN extract_levels(b, side) = {} THEN <<>>
                          ELSE <<extract_levels(b, side)[1]>>
<1>1. TopOf(extract_levels(b, side), b, side, levels)
  BY TrackedTops
<1>2. DOMAIN extract_levels(b, side) = {} <=> DOMAIN b.levels[side] = {}
  BY <1>1, TrackedAssumption, TopIsBest
<1>3. CASE DOMAIN b.levels[side] = {}
  BY <1>2, <1>3 DEF Touch
<1>4. CASE DOMAIN b.levels[side] # {}
  <2>1. extract_levels(b, side)[1]
          = LET best == CHOOSE price \in DOMAIN b.levels[side] : IsBest(b, side, price)
            IN [price |-> best, quantity |-> b.levels[side][best].total_quantity]
    BY <1>1, <1>4, TrackedAssumption, BestIsTop
  <2> QED
    BY <1>2, <1>4, <2>1 DEF Touch
<1> QED
  BY <1>3, <1>4

\* An empty book shows nothing, as the imbalance remembers at first.
LEMMA EmptyLadders ==
  ASSUME NEW side \in Sides
  PROVE  extract_levels(EmptyBook, side) = <<>> /\ Touch(EmptyBook, side) = <<>>
<1>1. extract_levels(EmptyBook, side) = TopLevels(EmptyBook, side, levels)
  BY DEF extract_levels, TopLevels
<1>2. DOMAIN EmptyBook.levels[side] = {}
  BY DEF EmptyBook, NoLevels
<1> QED
  BY <1>1, <1>2, TrackedAssumption, NoTops DEF Touch

\* A level's price and size are integers.
LEMMA TrackedTyped ==
  ASSUME NEW b, Consistent(b), Counts(b), NEW side \in Sides,
         NEW k \in DOMAIN extract_levels(b, side)
  PROVE  /\ extract_levels(b, side)[k].price \in Int
         /\ extract_levels(b, side)[k].quantity \in Nat
BY TrackedTops DEF TopOf

\* What a level adds is zero unless both snapshots have it on both sides.
LEMMA LevelEntry ==
  ASSUME NEW old, NEW bids, NEW asks, NEW m \in 1 .. levels,
         NEW x, x = Ofi!PerLevel(old, bids, asks)[m],
         x # 0
  PROVE  /\ m \in DOMAIN bids /\ m \in DOMAIN asks
         /\ m \in DOMAIN old.bids /\ m \in DOMAIN old.asks
         /\ x = Ofi!bid_e(bids[m], old.bids[m]) - Ofi!ask_e(asks[m], old.asks[m])
BY DEF Ofi!PerLevel, Ofi!Comparable, Ofi!TwoSided

\* The level shown at the top is a level of the book.
LEMMA TouchLevel ==
  ASSUME NEW b, Consistent(b), Counts(b), NEW side \in Sides, Touch(b, side) # <<>>
  PROVE  Touch(b, side)[1].price \in DOMAIN b.levels[side]
<1>1. DOMAIN extract_levels(b, side) # {}
      /\ Touch(b, side) = <<extract_levels(b, side)[1]>>
  BY TouchIsFirst
<1>2. TopOf(extract_levels(b, side), b, side, levels)
  BY TrackedTops
<1> DEFINE ladder == extract_levels(b, side)
<1> HIDE DEF ladder
<1>3. IsBest(b, side, ladder[1].price)
  BY <1>1, <1>2, TrackedAssumption, TopIsBest DEF ladder
<1> QED
  BY <1>1, <1>3 DEF IsBest, ladder

\* The contribution of one side of a level.
Contribution(side, cur, old) ==
  IF side = "Buy" THEN Ofi!bid_e(cur, old) ELSE Ofi!ask_e(cur, old)

\* A level of a side that grows contributes no negative amount, one of a side
\* that thins no positive one, and only a level that stands still nothing.
LEMMA Contributions ==
  ASSUME NEW a, NEW b, Consistent(a), Counts(a), Consistent(b), Counts(b),
         NEW side \in Sides, Grows(a, b, side),
         NEW k \in DOMAIN extract_levels(a, side)
  PROVE  LET old == extract_levels(a, side)
             new == extract_levels(b, side)
         IN /\ Contribution(side, new[k], old[k]) \in Nat
            /\ Contribution(side, new[k], old[k]) = 0 <=> new[k] = old[k]
            /\ Contribution(side, old[k], new[k]) = -Contribution(side, new[k], old[k])
<1> DEFINE old == extract_levels(a, side)
           new == extract_levels(b, side)
<1>1. TopOf(old, a, side, levels) /\ TopOf(new, b, side, levels)
  BY TrackedTops
<1> HIDE DEF old, new
<1>2. /\ k \in DOMAIN old /\ k \in DOMAIN new
      /\ ~Better(side, old[k].price, new[k].price)
      /\ old[k].price = new[k].price => old[k].quantity <= new[k].quantity
  BY <1>1, TrackedAssumption, TopsRise DEF old
<1>3. /\ old[k].price \in Int /\ old[k].quantity \in Nat \ {0}
      /\ new[k].price \in Int /\ new[k].quantity \in Nat \ {0}
      /\ old[k] = [price |-> old[k].price, quantity |-> old[k].quantity]
      /\ new[k] = [price |-> new[k].price, quantity |-> new[k].quantity]
  BY <1>1, <1>2 DEF TopOf
<1>4. new[k] = old[k] <=> new[k].price = old[k].price /\ new[k].quantity = old[k].quantity
  BY <1>3
<1>5. CASE side = "Buy"
  BY <1>2, <1>3, <1>4, <1>5 DEF Better, Ofi!bid_e, Contribution, old, new
<1>6. CASE side = "Sell"
  BY <1>2, <1>3, <1>4, <1>6 DEF Better, Ofi!ask_e, Contribution, old, new
<1> QED
  BY <1>5, <1>6 DEF Sides

(***************************************************************************)
(* An event in progress                                                    *)
(***************************************************************************)

\* From a to b the side has grown and the opposite side has thinned, or they
\* stand still: what a new order of this side does to a book.
Presses(side, a, b) == Grows(a, b, side) /\ Grows(b, a, opposite(side))

\* How far the engine has taken the book from where the event found it.  A
\* modify may do anything: cancel on one side, then trade or rest.
InProgress(b) ==
  /\ event.type \in {"Add", "Market"} =>
       /\ Presses(event.side, b, book)
       /\ pc = "match" => order.side = event.side
  /\ event.type = "Cancel" =>
       /\ pc = "idle"
       /\ \E side \in Sides :
            /\ Grows(book, b, side)
            /\ \A other \in Sides : other # side => book.levels[other] = b.levels[other]

\* Between events the imbalance remembers the book as it is, and so does the
\* last row; while an event is processed they are of the book before it.
Remembers(b) ==
  /\ Consistent(b) /\ Counts(b)
  /\ event = NoEvent => book = b
  /\ event # NoEvent => event \in Events /\ InProgress(b)
  /\ prev.bids = extract_levels(b, "Buy")
  /\ prev.asks = extract_levels(b, "Sell")
  /\ row.l1 = extract_l1(b)

OneBehind == \E b : Remembers(b)

\* Nothing is left against the last trade that is better than its price, and
\* the trades of a match are of its aggressor's side.
TradesFit ==
  trades # <<>> =>
    LET last == trades[Len(trades)]
    IN /\ last.aggressor_side \in Sides
       /\ pc = "match" => last.aggressor_side = order.side
       /\ \A price \in DOMAIN book.levels[opposite(last.aggressor_side)] :
            ~Better(opposite(last.aggressor_side), price, last.price)

\* The outputs trail the stream by the event in progress.
Outputs ==
  /\ Ofi!TypeOK
  /\ seq \in 0 .. MaxEvents
  /\ event # NoEvent => seq < MaxEvents
  /\ row.seq = seq - 1
  /\ event = NoEvent => pc = "idle"
  /\ TouchAfterTrades

ReplayInv == Proved!IInv /\ OneBehind /\ TradesFit /\ Outputs

\* What the engine's invariant says after a step.
LEMMA SoundNext ==
  Proved!IInv' => Consistent(book') /\ Counts(book') /\ Proved!CallPart'
<1>1. Proved!IInv => Consistent(book) /\ Counts(book) /\ Proved!CallPart
  BY SameInvariant
<1>2. Proved!IInv' => (Consistent(book) /\ Counts(book) /\ Proved!CallPart)'
  BY <1>1, PTL
<1> QED
  BY <1>2

\* Pressing twice from one side is pressing from it.
LEMMA PressesOn ==
  ASSUME NEW a, NEW b, NEW c, NEW side \in Sides, Consistent(a), Consistent(b), Consistent(c),
         Presses(side, a, b), Presses(side, b, c)
  PROVE  Presses(side, a, c)
<1>1. opposite(side) \in Sides
  BY DEF opposite, Sides
<1> QED
  BY <1>1, GrowsOn DEF Presses

\* A step of the engine within a match presses on with the aggressor's side.
LEMMA MatchPresses ==
  ASSUME Proved!IInv, Proved!IInv', Match
  PROVE  /\ pc = "match" /\ order.side \in Sides
         /\ Presses(order.side, book, book')
         /\ pc' = "match" => order' = order
<1>1. Consistent(book) /\ Consistent(book')
  BY SameInvariant, SoundNext
<1>2. \A side \in Sides : opposite(side) \in Sides
  BY DEF opposite, Sides
<1>3. CASE Engine!Fill
  BY <1>1, <1>2, <1>3, FillEffect, GrowsOn DEF Presses
<1>4. CASE Engine!Finish
  BY <1>1, <1>2, <1>4, FinishEffect, GrowsOn DEF Presses
<1> QED
  BY <1>3, <1>4 DEF Match

\* At first what is remembered is the empty book.
LEMMA InitRemembers ==
  ASSUME Init
  PROVE  OneBehind
<1>1. Consistent(EmptyBook) /\ Counts(EmptyBook)
  BY EmptyConsistent, EmptyCounts
<1>2. book = EmptyBook /\ event = NoEvent
  BY SameOperations DEF Init, Engine!Init
<1>3. prev.bids = <<>> /\ prev.asks = <<>>
  BY DEF Init, Ofi!Init, Ofi!NoSnapshot
<1>4. row.l1 = extract_l1(EmptyBook)
  BY EmptyLadders DEF Init, NoRow, extract_l1, Sides
<1> QED
  BY <1>1, <1>2, <1>3, <1>4, EmptyLadders DEF OneBehind, Remembers, Sides

\* An event starts from the book that is remembered.
LEMMA DispatchRemembers ==
  ASSUME Proved!IInv, OneBehind, NEW ev \in Events, Dispatch(ev)
  PROVE  OneBehind'
<1>1. PICK b : Remembers(b)
  BY DEF OneBehind
<1>2. /\ event = NoEvent /\ event' = ev /\ ev # NoEvent
      /\ prev' = prev /\ row' = row /\ book = b
      /\ Consistent(b) /\ Counts(b)
  BY <1>1 DEF Dispatch, signal, Remembers, Events, NoEvent
<1>3. InProgress(b)'
  <2>1. CASE ev.type \in {"Add", "Market"} /\ Engine!Submit(AsOrder(ev))
    <3>1. ev.side \in Sides /\ opposite(ev.side) \in Sides
      BY <2>1, EventFields DEF opposite, Sides
    <3>2. book' = b /\ order'.side = ev.side
      BY <1>2, <2>1 DEF Engine!Submit, Engine!StartMatch, AsOrder
    <3>3. Presses(ev.side, b, b)
      BY <1>2, <3>1, GrowsOn DEF Presses
    <3> QED
      BY <1>2, <2>1, <3>2, <3>3 DEF InProgress
  <2>2. CASE ev.type = "Cancel" /\ Engine!Cancel(ev.id)
    BY <1>2, <2>2, CancelEffect DEF InProgress
  <2>3. CASE ev.type = "Modify"
    BY <1>2, <2>3 DEF InProgress
  <2> QED
    BY <2>1, <2>2, <2>3 DEF Dispatch
<1>4. Remembers(b)'
  BY <1>1, <1>2, <1>3 DEF Remembers
<1> QED
  BY <1>4 DEF OneBehind

\* The engine takes the book further in the same direction.
LEMMA MatchRemembers ==
  ASSUME Proved!IInv, Proved!IInv', OneBehind, Match
  PROVE  OneBehind'
<1>1. PICK b : Remembers(b)
  BY DEF OneBehind
<1>2. /\ event # NoEvent /\ event' = event /\ event \in Events
      /\ prev' = prev /\ row' = row
      /\ Consistent(b) /\ InProgress(b)
  BY <1>1 DEF Match, signal, Remembers
<1>3. /\ pc = "match" /\ order.side \in Sides
      /\ Presses(order.side, book, book')
      /\ pc' = "match" => order' = order
      /\ Consistent(book) /\ Consistent(book')
  BY MatchPresses, SameInvariant, SoundNext
<1>4. CASE event.type \in {"Add", "Market"}
  <2>1. order.side = event.side /\ Presses(event.side, b, book)
    BY <1>2, <1>3, <1>4 DEF InProgress
  <2>2. Presses(event.side, b, book')
    BY <1>2, <1>3, <2>1, PressesOn
  <2>3. InProgress(b)'
    BY <1>2, <1>3, <1>4, <2>1, <2>2 DEF InProgress
  <2> QED
    BY <1>1, <1>2, <2>3 DEF Remembers, OneBehind
<1>5. CASE event.type \notin {"Add", "Market"}
  <2>1. event.type # "Cancel"
    BY <1>2, <1>3 DEF InProgress
  <2>2. InProgress(b)'
    BY <1>2, <1>5, <2>1 DEF InProgress
  <2> QED
    BY <1>1, <1>2, <2>2 DEF Remembers, OneBehind
<1> QED
  BY <1>4, <1>5

\* A row makes what is remembered catch up with the book.
LEMMA EmitRemembers ==
  ASSUME Proved!IInv, Emit
  PROVE  OneBehind'
<1>1. Consistent(book) /\ Counts(book)
  BY SameInvariant
<1>2. /\ event' = NoEvent /\ book' = book /\ row'.l1 = extract_l1(book)
      /\ prev'.bids = extract_levels(book, "Buy")
      /\ prev'.asks = extract_levels(book, "Sell")
  BY DEF Emit, Ofi!update, Ofi!Rolled, engine
<1>3. Remembers(book)'
  BY <1>1, <1>2 DEF Remembers
<1> QED
  BY <1>3 DEF OneBehind

\* No step makes the imbalance fall further behind.
LEMMA StepRemembers ==
  ASSUME Proved!IInv, Proved!IInv', OneBehind, [Next]_vars
  PROVE  OneBehind'
<1>1. CASE UNCHANGED vars
  BY <1>1 DEF vars, engine, signal, OneBehind, Remembers, InProgress
<1> QED
  BY <1>1, DispatchRemembers, MatchRemembers, EmitRemembers DEF Next

\* A call starts without trades, a fill prints at the best price it finds and
\* leaves nothing better, and what rests at the end is on the other side.
LEMMA StepTradesFit ==
  ASSUME Proved!IInv, Proved!IInv', TradesFit, [Next]_vars
  PROVE  TradesFit'
<1>1. ASSUME trades' = <<>> PROVE TradesFit'
  BY <1>1 DEF TradesFit
<1>2. ASSUME NEW ev \in Events, Dispatch(ev) PROVE trades' = <<>>
  BY <1>2 DEF Dispatch, Engine!Submit, Engine!StartMatch, Engine!Cancel,
     Engine!Modify, Engine!ModifyAsNew
<1>3. CASE Engine!Fill
  <2> DEFINE s == opposite(order.side)
  <2>1. PICK trade : /\ trades' = Append(trades, trade)
                     /\ trade.aggressor_side = order.side
                     /\ IsBest(book, s, trade.price)
    BY <1>3, FillEffect
  <2>2. /\ pc' = "match" /\ order' = order /\ order.side \in Sides
        /\ DOMAIN book'.levels[s] \subseteq DOMAIN book.levels[s]
    BY <1>3, FillEffect DEF Grows
  <2>3. trades \in Seq(Proved!TradeRecord)
    BY SameInvariant DEF Proved!CallPart
  <2> HIDE DEF s
  <2>4. trades'[Len(trades')] = trade
    <3>1. Len(trades) \in Nat
      BY <2>3, LenProperties
    <3>2. trades \in Seq({trades[i] : i \in 1 .. Len(trades)} \cup {trade})
      <4>1. \A i \in 1 .. Len(trades) : trades[i] \in {trades[j] : j \in 1 .. Len(trades)} \cup {trade}
        OBVIOUS
      <4>2. trades = [i \in 1 .. Len(trades) |-> trades[i]]
        BY <2>3, LenProperties
      <4> QED
        BY <3>1, <4>1, <4>2, IsASeq
    <3> QED
      BY <2>1, <3>1, <3>2, AppendProperties
  <2>5. \A price \in DOMAIN book'.levels[s] : ~Better(s, price, trade.price)
    BY <2>1, <2>2 DEF IsBest
  <2> QED
    BY <2>1, <2>2, <2>4, <2>5 DEF TradesFit, s
<1>4. CASE Engine!Finish
  <2>1. /\ pc = "match" /\ pc' = "idle" /\ trades' = trades
        /\ book'.levels[opposite(order.side)] = book.levels[opposite(order.side)]
    BY <1>4, FinishEffect
  <2> QED
    BY <2>1 DEF TradesFit
<1>5. CASE UNCHANGED engine
  BY <1>5 DEF engine, TradesFit
<1> QED
  BY <1>1, <1>2, <1>3, <1>4, <1>5 DEF Next, Match, Emit, vars

\* The sample of a row is one of the formula, over ladders of integers.
LEMMA SampleTyped ==
  ASSUME Proved!IInv, OneBehind, Ofi!TypeOK, Emit
  PROVE  Ofi!TypeOK'
<1>1. PICK b : Remembers(b)
  BY DEF OneBehind
<1> DEFINE bids == extract_levels(book, "Buy")
           asks == extract_levels(book, "Sell")
<1>2. /\ Consistent(b) /\ Counts(b) /\ Consistent(book) /\ Counts(book)
      /\ prev.bids = extract_levels(b, "Buy") /\ prev.asks = extract_levels(b, "Sell")
  BY <1>1, SameInvariant DEF Remembers
<1>3. prev' = Ofi!Rolled(prev, bids, asks) /\ sample' = Ofi!Sample(prev, bids, asks)
  BY DEF Emit, Ofi!update
<1>4. /\ \A k \in DOMAIN bids : bids[k].price \in Int /\ bids[k].quantity \in Int
      /\ \A k \in DOMAIN asks : asks[k].price \in Int /\ asks[k].quantity \in Int
      /\ \A k \in DOMAIN prev.bids : prev.bids[k].price \in Int /\ prev.bids[k].quantity \in Int
      /\ \A k \in DOMAIN prev.asks : prev.asks[k].price \in Int /\ prev.asks[k].quantity \in Int
  BY <1>2, TrackedTyped DEF Sides
<1> HIDE DEF bids, asks
<1> DEFINE e == Ofi!PerLevel(prev, bids, asks)
<1>5. ASSUME NEW m \in 1 .. levels PROVE e[m] \in Int
  BY <1>4 DEF Ofi!PerLevel, Ofi!Comparable, Ofi!TwoSided, Ofi!bid_e, Ofi!ask_e
<1>6. e = [m \in 1 .. levels |-> e[m]]
  BY DEF Ofi!PerLevel
<1>7. 1 \in 1 .. levels
  BY TrackedAssumption
<1>8. ~Ofi!Comparable(prev, bids, asks, 1) => e[1] = 0
  BY <1>7 DEF Ofi!PerLevel
<1> HIDE DEF e
<1>9. e \in [1 .. levels -> Int]
  BY <1>5, <1>6
<1>10. /\ sample'.per_level = e /\ sample'.l1 = e[1]
       /\ sample'.valid = Ofi!Comparable(prev, bids, asks, 1)
       /\ sample'.mid = IF Ofi!TwoSided(bids, asks, 1) THEN <<bids[1].price + asks[1].price>>
                        ELSE <<>>
  BY <1>3 DEF Ofi!Sample, e
<1>11. ASSUME sample'.valid PROVE Len(sample'.mid) = 1
  <2> DEFINE mid == bids[1].price + asks[1].price
  <2>1. Ofi!TwoSided(bids, asks, 1)
    BY <1>10, <1>11 DEF Ofi!Comparable
  <2>2. sample'.mid = <<mid>>
    BY <1>10, <2>1
  <2> HIDE DEF mid
  <2> QED
    BY <2>2
<1>12. prev'.have_prev = TRUE
  BY <1>3 DEF Ofi!Rolled
<1> QED
  BY <1>8, <1>9, <1>10, <1>11, <1>12 DEF Ofi!TypeOK

\* The trades of an event and the best levels after it.
LEMMA RowFits ==
  ASSUME Proved!IInv, TradesFit, Emit
  PROVE  TouchAfterTrades'
<1>1. Consistent(book) /\ Counts(book) /\ Uncrossed(book)
  BY SameInvariant
<1>2. row'.trades = trades /\ row'.l1.bid = Touch(book, "Buy") /\ row'.l1.ask = Touch(book, "Sell")
  BY DEF Emit, extract_l1
<1> SUFFICES ASSUME trades # <<>> PROVE TouchAfterTrades'
  BY <1>2 DEF TouchAfterTrades
<1>3. PICK last, side :
        /\ last = trades[Len(trades)] /\ side = last.aggressor_side
        /\ side \in Sides
        /\ \A price \in DOMAIN book.levels[opposite(side)] :
             ~Better(opposite(side), price, last.price)
  BY DEF TradesFit
<1> DEFINE own == Touch(book, side)
           against == Touch(book, opposite(side))
<1>4. opposite(side) \in Sides
  BY <1>3 DEF opposite, Sides
<1>5. /\ own # <<>> => own[1].price \in DOMAIN book.levels[side]
      /\ against # <<>> => against[1].price \in DOMAIN book.levels[opposite(side)]
  BY <1>1, <1>3, <1>4, TouchLevel
<1>6. OwnTouch(side)' = own /\ OppositeTouch(side)' = against
  BY <1>2, <1>3 DEF OwnTouch, OppositeTouch, opposite, Sides
<1> HIDE DEF own, against
<1>7. against # <<>> => ~Better(opposite(side), against[1].price, last.price)
  BY <1>3, <1>5
<1>8. own # <<>> /\ against # <<>> => Better(side, against[1].price, own[1].price)
  BY <1>1, <1>3, <1>5 DEF Uncrossed, Better, opposite, Sides
<1>9. row'.trades[Len(row'.trades)] = last /\ last.aggressor_side = side
  BY <1>2, <1>3
<1> QED
  BY <1>6, <1>7, <1>8, <1>9 DEF TouchAfterTrades, OwnTouch, OppositeTouch

\* Only a row changes the outputs, and it is the next one.
LEMMA StepOutputs ==
  ASSUME Proved!IInv, OneBehind, TradesFit, Outputs, [Next]_vars
  PROVE  Outputs'
<1>1. ASSUME NEW ev \in Events, Dispatch(ev) PROVE Outputs'
  <2>1. /\ seq < MaxEvents /\ event' = ev /\ ev # NoEvent
        /\ prev' = prev /\ sample' = sample /\ seq' = seq /\ row' = row
    BY <1>1 DEF Dispatch, signal, Events, NoEvent
  <2> QED
    BY <2>1 DEF Outputs, Ofi!TypeOK, TouchAfterTrades, OwnTouch, OppositeTouch
<1>2. CASE Match
  <2>1. /\ event' = event /\ event # NoEvent
        /\ prev' = prev /\ sample' = sample /\ seq' = seq /\ row' = row
    BY <1>2 DEF Match, signal
  <2> QED
    BY <2>1 DEF Outputs, Ofi!TypeOK, TouchAfterTrades, OwnTouch, OppositeTouch
<1>3. CASE Emit
  <2>1. /\ event' = NoEvent /\ pc' = "idle" /\ seq' = seq + 1 /\ row'.seq = seq
        /\ event # NoEvent
    BY <1>3 DEF Emit, engine
  <2>2. Ofi!TypeOK' /\ TouchAfterTrades'
    BY <1>3, SampleTyped, RowFits DEF Outputs
  <2>3. seq \in 0 .. MaxEvents /\ seq < MaxEvents /\ MaxEvents \in Nat
    BY <2>1, MaxEventsAssumption DEF Outputs
  <2> QED
    BY <2>1, <2>2, <2>3 DEF Outputs
<1>4. CASE UNCHANGED vars
  BY <1>4 DEF vars, engine, signal, Outputs, Ofi!TypeOK, TouchAfterTrades,
     OwnTouch, OppositeTouch
<1> QED
  BY <1>1, <1>2, <1>3, <1>4 DEF Next

\* Nothing has been written, from an empty book.
LEMMA InitReplay ==
  ASSUME Init
  PROVE  ReplayInv
<1>1. Proved!IInv
  <2>1. Proved!Init
    BY SameEngine DEF Init
  <2> QED
    BY <2>1, Proved!InitIInv, PricesAssumption, QuantitiesAssumption, MaxVolumeAssumption
<1>2. OneBehind
  BY InitRemembers
<1>3. TradesFit
  BY DEF Init, Engine!Init, TradesFit
<1>4. Ofi!TypeOK
  BY DEF Init, Ofi!Init, Ofi!TypeOK, Ofi!NoSnapshot, Ofi!NoSample
<1>5. Outputs
  BY <1>4, MaxEventsAssumption DEF Init, Engine!Init, Outputs, NoRow, TouchAfterTrades
<1> QED
  BY <1>1, <1>2, <1>3, <1>5 DEF ReplayInv

\* The four parts of the invariant, step by step.
LEMMA StepReplay ==
  ASSUME ReplayInv, [Next]_vars
  PROVE  ReplayInv'
<1>1. Proved!IInv /\ OneBehind /\ TradesFit /\ Outputs
  BY DEF ReplayInv
<1>2. Proved!IInv'
  BY <1>1, EngineStep
<1> QED
  BY <1>1, <1>2, StepRemembers, StepTradesFit, StepOutputs DEF ReplayInv

\* The engine stays sound and what is remembered is never more than one event
\* behind.
THEOREM ReplayInvariant == Spec => []ReplayInv
<1>1. Init => ReplayInv
  BY InitReplay
<1>2. ReplayInv /\ [Next]_vars => ReplayInv'
  BY StepReplay
<1> QED
  BY <1>1, <1>2, PTL DEF Spec

\* A ladder cut after its first level.
FirstOf(ladder) == SubSeq(ladder, 1, Min({1, Len(ladder)}))

\* It is what the best-price accessors show.
LEMMA FirstLevel ==
  ASSUME NEW b, Consistent(b), Counts(b), NEW side \in Sides
  PROVE  Touch(b, side) = FirstOf(extract_levels(b, side))
<1> DEFINE ladder == extract_levels(b, side)
<1>1. Touch(b, side) = IF DOMAIN ladder = {} THEN <<>> ELSE <<ladder[1]>>
  BY TouchIsFirst
<1>2. PICK d \in Nat : DOMAIN ladder = 1 .. d
  BY TrackedTops DEF TopOf
<1>3. ladder \in Seq({ladder[k] : k \in 1 .. d}) /\ Len(ladder) = d
  <2>1. ladder = [k \in 1 .. d |-> ladder[k]]
    BY <1>2 DEF extract_levels
  <2> QED
    BY <2>1, IsASeq, LenProperties
<1> HIDE DEF ladder
<1>4. Min({1, d}) = IF 1 <= d THEN 1 ELSE d
  BY SmallerOfTwo
<1>5. CASE d = 0
  <2>1. SubSeq(ladder, 1, 0) = <<>> /\ DOMAIN ladder = {}
    BY <1>2, <1>3, <1>5
  <2> QED
    BY <1>1, <1>3, <1>4, <1>5, <2>1 DEF FirstOf, ladder
<1>6. CASE d # 0
  <2>1. 1 \in DOMAIN ladder /\ Min({1, Len(ladder)}) = 1
    BY <1>2, <1>3, <1>4, <1>6
  <2> DEFINE first == SubSeq(ladder, 1, 1)
  <2>2. /\ first \in Seq({ladder[k] : k \in 1 .. d}) /\ Len(first) = 1
        /\ first[1] = ladder[1]
    BY <1>2, <1>3, <2>1, SubSeqProperties
  <2>3. first = <<ladder[1]>>
    <3> HIDE DEF first
    <3> QED
      BY <2>2, LenProperties
  <2> QED
    BY <1>1, <2>1, <2>3 DEF FirstOf, ladder
<1> QED
  BY <1>5, <1>6

\* The three outputs tell one story, for any number of levels tracked, any
\* stream and any length of it.
THEOREM OutputsAgree == Spec => []RowsAgree
<1>1. ReplayInv => RowsAgree
  <2> SUFFICES ASSUME ReplayInv PROVE RowsAgree
    OBVIOUS
  <2>1. PICK b : Remembers(b)
    BY DEF ReplayInv, OneBehind
  <2>2. Engine!TypeOK /\ Outputs
    BY SameInvariant DEF ReplayInv
  <2>3. event \in Events \cup {NoEvent}
    BY <2>1 DEF Remembers
  <2>4. TypeOK /\ TouchAfterTrades
    BY <2>2, <2>3 DEF TypeOK, Outputs
  <2>5. /\ row.l1.bid = Touch(b, "Buy") /\ row.l1.ask = Touch(b, "Sell")
        /\ Touch(b, "Buy") = FirstOf(prev.bids) /\ Touch(b, "Sell") = FirstOf(prev.asks)
    BY <2>1, FirstLevel DEF Remembers, extract_l1, Sides
  <2>6. event = NoEvent => row.l1 = extract_l1(book)
    BY <2>1 DEF Remembers
  <2> QED
    BY <2>4, <2>5, <2>6 DEF RowsAgree, FirstOf
<1> QED
  BY <1>1, ReplayInvariant, PTL

(***************************************************************************)
(* The signal                                                              *)
(***************************************************************************)

\* A level of both sides under pressure from one: its two contributions have
\* one sign, so that they cancel out only if the level stands still.
LEMMA PressedLevel ==
  ASSUME NEW a, NEW b, Consistent(a), Counts(a), Consistent(b), Counts(b),
         NEW side \in Sides, Presses(side, a, b), NEW k,
         k \in DOMAIN extract_levels(a, "Buy"), k \in DOMAIN extract_levels(b, "Buy"),
         k \in DOMAIN extract_levels(a, "Sell"), k \in DOMAIN extract_levels(b, "Sell")
  PROVE  LET old(s) == extract_levels(a, s)[k]
             new(s) == extract_levels(b, s)[k]
             e == Ofi!bid_e(new("Buy"), old("Buy")) - Ofi!ask_e(new("Sell"), old("Sell"))
         IN /\ side = "Buy" => e >= 0
            /\ side = "Sell" => e <= 0
            /\ e = 0 <=> new("Buy") = old("Buy") /\ new("Sell") = old("Sell")
<1> DEFINE old(s) == extract_levels(a, s)[k]
           new(s) == extract_levels(b, s)[k]
           bid == Contribution("Buy", new("Buy"), old("Buy"))
           ask == Contribution("Sell", new("Sell"), old("Sell"))
<1>1. "Buy" \in Sides /\ "Sell" \in Sides
  BY DEF Sides
<1>2. /\ bid = Ofi!bid_e(new("Buy"), old("Buy"))
      /\ ask = Ofi!ask_e(new("Sell"), old("Sell"))
  BY DEF Contribution
<1>3. CASE side = "Buy"
  <2>1. Grows(a, b, "Buy") /\ Grows(b, a, "Sell")
    BY <1>3 DEF Presses, opposite
  <2>2. bid \in Nat /\ (bid = 0 <=> new("Buy") = old("Buy"))
    BY <1>1, <2>1, Contributions
  <2>3. /\ Contribution("Sell", old("Sell"), new("Sell")) \in Nat
        /\ Contribution("Sell", old("Sell"), new("Sell")) = 0 <=> old("Sell") = new("Sell")
        /\ ask = -Contribution("Sell", old("Sell"), new("Sell"))
    BY <1>1, <2>1, Contributions
  <2> HIDE DEF bid, ask, old, new
  <2>4. bid - ask >= 0 /\ (bid - ask = 0 <=> new("Buy") = old("Buy") /\ new("Sell") = old("Sell"))
    BY <2>2, <2>3
  <2> QED
    BY <1>2, <1>3, <2>4 DEF old, new
<1>4. CASE side = "Sell"
  <2>1. Grows(a, b, "Sell") /\ Grows(b, a, "Buy")
    BY <1>4 DEF Presses, opposite
  <2>2. ask \in Nat /\ (ask = 0 <=> new("Sell") = old("Sell"))
    BY <1>1, <2>1, Contributions
  <2>3. /\ Contribution("Buy", old("Buy"), new("Buy")) \in Nat
        /\ Contribution("Buy", old("Buy"), new("Buy")) = 0 <=> old("Buy") = new("Buy")
        /\ bid = -Contribution("Buy", old("Buy"), new("Buy"))
    BY <1>1, <2>1, Contributions
  <2> HIDE DEF bid, ask, old, new
  <2>4. bid - ask <= 0 /\ (bid - ask = 0 <=> new("Buy") = old("Buy") /\ new("Sell") = old("Sell"))
    BY <2>2, <2>3
  <2> QED
    BY <1>2, <1>4, <2>4 DEF old, new
<1> QED
  BY <1>3, <1>4 DEF Sides

\* The row of an event that pressed one way.
LEMMA PressedRow ==
  ASSUME Proved!IInv, NEW b, Remembers(b), Emit, NEW side \in Sides, Presses(side, b, book)
  PROVE  /\ side = "Buy" => \A m \in 1 .. levels : sample'.per_level[m] >= 0
         /\ side = "Sell" => \A m \in 1 .. levels : sample'.per_level[m] <= 0
         /\ sample'.valid => (sample'.l1 = 0 <=> row'.l1 = row.l1)
<1> DEFINE old(s) == extract_levels(b, s)
           new(s) == extract_levels(book, s)
           e == sample'.per_level
<1>1. /\ Consistent(b) /\ Counts(b) /\ Consistent(book) /\ Counts(book)
      /\ prev.bids = old("Buy") /\ prev.asks = old("Sell")
      /\ row.l1 = extract_l1(b) /\ row'.l1 = extract_l1(book)
  BY SameInvariant DEF Remembers, Emit
<1>2. /\ e = Ofi!PerLevel(prev, new("Buy"), new("Sell")) /\ sample'.l1 = e[1]
      /\ sample'.valid = Ofi!Comparable(prev, new("Buy"), new("Sell"), 1)
  BY DEF Emit, Ofi!update, Ofi!Sample
<1>3. 1 \in 1 .. levels
  BY TrackedAssumption
<1>4. ASSUME NEW m \in 1 .. levels, Ofi!Comparable(prev, new("Buy"), new("Sell"), m)
      PROVE  /\ m \in DOMAIN old("Buy") /\ m \in DOMAIN old("Sell")
             /\ m \in DOMAIN new("Buy") /\ m \in DOMAIN new("Sell")
             /\ side = "Buy" => e[m] >= 0
             /\ side = "Sell" => e[m] <= 0
             /\ e[m] = 0 <=> new("Buy")[m] = old("Buy")[m] /\ new("Sell")[m] = old("Sell")[m]
  <2>1. /\ m \in DOMAIN old("Buy") /\ m \in DOMAIN old("Sell")
        /\ m \in DOMAIN new("Buy") /\ m \in DOMAIN new("Sell")
    BY <1>1, <1>4 DEF Ofi!Comparable, Ofi!TwoSided
  <2>2. e[m] = Ofi!bid_e(new("Buy")[m], old("Buy")[m]) - Ofi!ask_e(new("Sell")[m], old("Sell")[m])
    <3> HIDE DEF old, new
    <3> QED
      BY <1>1, <1>2, <1>4 DEF Ofi!PerLevel
  <2> HIDE DEF e
  <2> QED
    BY <1>1, <2>1, <2>2, PressedLevel
<1>5. ASSUME NEW m \in 1 .. levels, ~Ofi!Comparable(prev, new("Buy"), new("Sell"), m)
      PROVE  e[m] = 0
  <2> HIDE DEF old, new
  <2> QED
    BY <1>2, <1>5 DEF Ofi!PerLevel
<1>6. ASSUME sample'.valid PROVE sample'.l1 = 0 <=> row'.l1 = row.l1
  <2>1. /\ 1 \in DOMAIN old("Buy") /\ 1 \in DOMAIN old("Sell")
        /\ 1 \in DOMAIN new("Buy") /\ 1 \in DOMAIN new("Sell")
        /\ sample'.l1 = 0 <=> new("Buy")[1] = old("Buy")[1] /\ new("Sell")[1] = old("Sell")[1]
    BY <1>2, <1>3, <1>4, <1>6
  <2>2. /\ Touch(b, "Buy") = <<old("Buy")[1]>> /\ Touch(b, "Sell") = <<old("Sell")[1]>>
        /\ Touch(book, "Buy") = <<new("Buy")[1]>> /\ Touch(book, "Sell") = <<new("Sell")[1]>>
    BY <1>1, <2>1, TouchIsFirst DEF Sides
  <2> HIDE DEF old, new
  <2>3. \A x, y : <<x>> = <<y>> <=> x = y
    OBVIOUS
  <2> QED
    BY <1>1, <2>1, <2>2, <2>3 DEF extract_l1
<1> HIDE DEF e
<1>7. ASSUME NEW m \in 1 .. levels
      PROVE  (side = "Buy" => e[m] >= 0) /\ (side = "Sell" => e[m] <= 0)
  BY <1>4, <1>5
<1> QED
  BY <1>6, <1>7 DEF e

\* A side that stands still shows the same ladder.
LEMMA SameLadder ==
  ASSUME NEW a, NEW b, NEW side, a.levels[side] = b.levels[side]
  PROVE  extract_levels(a, side) = extract_levels(b, side)
BY DEF extract_levels, price_at_level, quantity_at_level, PriceLadder, quantity_at, Above

\* The row of a new order, resting or not.
LEMMA OrderRow ==
  ASSUME ReplayInv, Emit, event.type \in {"Add", "Market"}
  PROVE  /\ event.side = "Buy" => \A m \in 1 .. levels : sample'.per_level[m] >= 0
         /\ event.side = "Sell" => \A m \in 1 .. levels : sample'.per_level[m] <= 0
         /\ sample'.valid => (sample'.l1 = 0 <=> row'.l1 = row.l1)
<1>1. PICK b : Remembers(b)
  BY DEF ReplayInv, OneBehind
<1>2. event \in Events /\ InProgress(b)
  BY <1>1 DEF Remembers, Emit
<1>3. event.side \in Sides /\ Presses(event.side, b, book)
  BY <1>2, EventFields DEF InProgress
<1> QED
  BY <1>1, <1>3, PressedRow DEF ReplayInv

\* The row of a cancel: the side that lost the order thins, so that the book
\* is pressed from the other.
LEMMA CancelRow ==
  ASSUME ReplayInv, Emit, event.type = "Cancel"
  PROVE  /\ prev.bids # prev'.bids => \A m \in 1 .. levels : sample'.per_level[m] <= 0
         /\ prev.asks # prev'.asks => \A m \in 1 .. levels : sample'.per_level[m] >= 0
         /\ sample'.valid => (sample'.l1 = 0 <=> row'.l1 = row.l1)
<1>1. PICK b : Remembers(b)
  BY DEF ReplayInv, OneBehind
<1>2. PICK side \in Sides :
        /\ Grows(book, b, side)
        /\ \A other \in Sides : other # side => book.levels[other] = b.levels[other]
  BY <1>1 DEF Remembers, Emit, InProgress
<1>3. /\ Consistent(b) /\ Consistent(book)
      /\ prev.bids = extract_levels(b, "Buy") /\ prev.asks = extract_levels(b, "Sell")
      /\ prev'.bids = extract_levels(book, "Buy") /\ prev'.asks = extract_levels(book, "Sell")
  BY <1>1, SameInvariant DEF ReplayInv, Remembers, Emit, Ofi!update, Ofi!Rolled
<1>4. /\ opposite(side) \in Sides /\ opposite(side) # side
      /\ opposite(opposite(side)) = side
  BY <1>2 DEF opposite, Sides
<1>5. book.levels[opposite(side)] = b.levels[opposite(side)]
  BY <1>2, <1>4
<1>6. Presses(opposite(side), b, book)
  BY <1>2, <1>3, <1>4, <1>5, GrowsOn DEF Presses
<1>7. /\ opposite(side) = "Buy" => \A m \in 1 .. levels : sample'.per_level[m] >= 0
      /\ opposite(side) = "Sell" => \A m \in 1 .. levels : sample'.per_level[m] <= 0
      /\ sample'.valid => (sample'.l1 = 0 <=> row'.l1 = row.l1)
  BY <1>1, <1>4, <1>6, PressedRow DEF ReplayInv
<1>8. extract_levels(book, opposite(side)) = extract_levels(b, opposite(side))
  BY <1>5, SameLadder
<1>9. CASE side = "Buy"
  BY <1>3, <1>7, <1>8, <1>9 DEF opposite
<1>10. CASE side = "Sell"
  BY <1>3, <1>7, <1>8, <1>10 DEF opposite
<1> QED
  BY <1>2, <1>9, <1>10 DEF Sides

\* The sign of the signal is the direction of the event, through any number of
\* fills and at any depth, and its L1 value never hides a move of the touch.
THEOREM SignIsTheDirection == Spec => SignedFlow
<1> DEFINE Row ==
      Emit =>
        LET e == sample'.per_level
            adds == event.type \in {"Add", "Market"}
            Up == \A m \in 1 .. levels : e[m] >= 0
            Down == \A m \in 1 .. levels : e[m] <= 0
        IN /\ adds /\ event.side = "Buy" => Up
           /\ adds /\ event.side = "Sell" => Down
           /\ event.type = "Cancel" =>
                /\ prev.bids # prev'.bids => Down
                /\ prev.asks # prev'.asks => Up
           /\ event.type # "Modify" /\ sample'.valid =>
                (sample'.l1 = 0 <=> row'.l1 = row.l1)
<1>1. ASSUME ReplayInv PROVE Row
  <2> SUFFICES ASSUME Emit PROVE Row
    OBVIOUS
  <2>1. event.type \in {"Add", "Market", "Cancel", "Modify"}
    BY <1>1, EventFields DEF ReplayInv, OneBehind, Remembers, Emit
  <2>2. CASE event.type \in {"Add", "Market"}
    BY <1>1, <2>2, OrderRow
  <2>3. CASE event.type = "Cancel"
    BY <1>1, <2>3, CancelRow
  <2>4. CASE event.type = "Modify"
    BY <2>4
  <2> QED
    BY <2>1, <2>2, <2>3, <2>4
<1>2. ReplayInv /\ [Next]_vars => [Row]_vars
  BY <1>1
<1>3. Spec => [][Row]_vars
  <2> HIDE DEF Row
  <2> QED
    BY <1>2, ReplayInvariant, PTL DEF Spec
<1>4. [][Row]_vars <=> SignedFlow
  BY DEF SignedFlow
<1> QED
  BY <1>3, <1>4, PTL

(***************************************************************************)
(* Whole files                                                             *)
(***************************************************************************)

\* The instance of EventParse reads rows as EventRows does.
LEMMA SameRows ==
  /\ \A line : Parse!split_csv(line) = split_csv(line)
  /\ \A f : Parse!RowFault(f) = RowFault(f)
  /\ \A f : Parse!AsEvent(f) = AsEvent(f)
<1>0. Parse!Blank = Blank
  BY Zenon DEF Parse!Blank, Blank
<1>1. \A line : Parse!split_csv(line) = split_csv(line)
  BY <1>0 DEF Parse!split_csv, split_csv, Parse!Last, Last, Parse!Front, Front
<1>2. \A text : Parse!ReadsInt(text) <=> ReadsInt(text)
  BY <1>0 DEF Parse!ReadsInt, ReadsInt, Parse!LongLong, LongLong
<1>3. \A text : Parse!parse_int(text) = parse_int(text)
  BY <1>0 DEF Parse!parse_int, parse_int
<1>4. Parse!EventTypes = EventTypes /\ Parse!SideNames = SideNames
  BY DEF Parse!EventTypes, EventTypes, Parse!SideNames, SideNames
<1>5. \A f : Parse!RowFault(f) = RowFault(f)
  BY <1>2, <1>3, <1>4 DEF Parse!RowFault, RowFault, Parse!QuantityNeeded, QuantityNeeded
<1>6. \A f : Parse!AsEvent(f) = AsEvent(f)
  BY <1>3, <1>4 DEF Parse!AsEvent, AsEvent
<1> QED
  BY <1>1, <1>5, <1>6

\* The events that rows of a file can be.
RowEvents ==
  {AsEvent(split_csv(line)) :
     line \in {text \in Lines : text # <<>> /\ RowFault(split_csv(text)) = "none"}}

\* What the replay reads of such an event.
LEMMA RowEventFields ==
  ASSUME NEW ev \in RowEvents
  PROVE  Untimed(ev) \in Events /\ ev.timestamp \in Int
<1>1. PICK line \in Lines : /\ line # <<>> /\ RowFault(split_csv(line)) = "none"
                            /\ ev = AsEvent(split_csv(line))
  BY DEF RowEvents
<1> DEFINE f == split_csv(line)
<1>2. Untimed(ev) \in Events
  BY <1>1, RowsCoveredAssumption
<1> HIDE DEF f
<1>3. ReadsInt(f[1])
  BY <1>1 DEF RowFault, f
<1>4. parse_int(f[1]) \in Int
  BY <1>3 DEF ReadsInt, parse_int, LongLong
<1>5. ev.timestamp \in Int
  BY <1>1, <1>4 DEF AsEvent, f
<1> QED
  BY <1>2, <1>5

\* An ADD or MODIFY gives its order a size.
LEMMA RowEventSizes ==
  ASSUME NEW ev \in RowEvents, ev.type \in {"Add", "Modify"}
  PROVE  ev.quantity \in Int /\ ev.quantity > 0
<1>1. Untimed(ev) \in Events /\ Untimed(ev).type = ev.type
      /\ Untimed(ev).quantity = ev.quantity
  BY RowEventFields DEF Untimed
<1>2. ev.quantity \in Quantities
  BY <1>1, EventFields
<1>3. \A n \in Quantities : n \in Int /\ n > 0
  BY QuantitiesAssumption
<1> QED
  BY <1>2, <1>3

(***************************************************************************)
(* The sort                                                                *)
(***************************************************************************)

\* A stream of n events with times.
Timed(evs, n) ==
  /\ n \in Nat /\ DOMAIN evs = 1 .. n
  /\ \A k \in 1 .. n : evs[k].timestamp \in Int

\* The events that go in front of one.
InFront(evs, k) == {j \in DOMAIN evs : Precede(evs, j, k)}

\* How the places run.
PlacesAscend(evs, n) ==
  /\ \A k \in 1 .. n : SortedPlace(evs, k) \in 1 .. n
  /\ \A j, k \in 1 .. n :
       Precede(evs, j, k) => SortedPlace(evs, j) < SortedPlace(evs, k)

PlacesMatch(evs, n) ==
  /\ \A j, k \in 1 .. n : SortedPlace(evs, j) = SortedPlace(evs, k) => j = k
  /\ \A m \in 1 .. n : \E k \in 1 .. n : SortedPlace(evs, k) = m

\* Each event is found at its place.
PutInPlace(evs, n, after) ==
  /\ after = [m \in 1 .. n |-> after[m]]
  /\ \A k \in 1 .. n : after[SortedPlace(evs, k)] = evs[k]
  /\ \A m \in 1 .. n : \E k \in 1 .. n : SortedPlace(evs, k) = m /\ after[m] = evs[k]

\* An event that goes in front of another gets a smaller place, and the places
\* of n events are from 1 to n.
LEMMA PlacesRise ==
  ASSUME NEW evs, NEW n, Timed(evs, n)
  PROVE  PlacesAscend(evs, n)
<1>0. n \in Nat /\ 1 \in Int
  BY DEF Timed
<1>1. IsFiniteSet(1 .. n) /\ Cardinality(1 .. n) = n
  BY <1>0, FS_Interval
<1> USE DEF Timed
<1>2. ASSUME NEW k \in 1 .. n
      PROVE  /\ IsFiniteSet(InFront(evs, k)) /\ k \notin InFront(evs, k)
             /\ Cardinality(InFront(evs, k)) \in 0 .. n - 1
             /\ SortedPlace(evs, k) = Cardinality(InFront(evs, k)) + 1
  <2>1. InFront(evs, k) \in SUBSET ((1 .. n) \ {k})
    BY DEF InFront, Precede
  <2>2. IsFiniteSet((1 .. n) \ {k}) /\ Cardinality((1 .. n) \ {k}) = n - 1
    BY <1>1, FS_RemoveElement
  <2>3. IsFiniteSet(InFront(evs, k)) /\ Cardinality(InFront(evs, k)) <= n - 1
    BY <2>1, <2>2, FS_Subset
  <2>4. Cardinality(InFront(evs, k)) \in Nat
    BY <2>3, FS_CardinalityType
  <2>5. SortedPlace(evs, k) = Cardinality(InFront(evs, k)) + 1
    BY DEF SortedPlace, InFront
  <2> QED
    BY <2>1, <2>3, <2>4, <2>5
<1>3. ASSUME NEW j \in 1 .. n, NEW k \in 1 .. n, Precede(evs, j, k)
      PROVE  SortedPlace(evs, j) < SortedPlace(evs, k)
  <2> DEFINE S == InFront(evs, j)
             T == InFront(evs, k)
  <2>1. S \cup {j} \in SUBSET T
    BY <1>3 DEF InFront, Precede
  <2>2. IsFiniteSet(S) /\ j \notin S /\ IsFiniteSet(T)
        /\ Cardinality(S) \in Int /\ Cardinality(T) \in Int
    BY <1>2
  <2> HIDE DEF S, T
  <2>3. Cardinality(S \cup {j}) = Cardinality(S) + 1
    BY <2>2, FS_AddElement
  <2>4. Cardinality(S \cup {j}) <= Cardinality(T)
    BY <2>1, <2>2, FS_Subset
  <2>5. Cardinality(S) < Cardinality(T)
    BY <2>2, <2>3, <2>4
  <2> QED
    BY <1>2, <2>2, <2>5 DEF S, T
<1> QED
  BY <1>2, <1>3 DEF PlacesAscend

\* Every place is taken, by one event.
LEMMA PlacesFill ==
  ASSUME NEW evs, NEW n, Timed(evs, n)
  PROVE  PlacesMatch(evs, n)
<1>0. PlacesAscend(evs, n)
  BY PlacesRise
<1>1. ASSUME NEW j \in 1 .. n, NEW k \in 1 .. n, j # k
      PROVE  SortedPlace(evs, j) # SortedPlace(evs, k)
  <2>1. Precede(evs, j, k) \/ Precede(evs, k, j)
    BY <1>1 DEF Precede, Timed
  <2>2. \A i \in 1 .. n : SortedPlace(evs, i) \in Int
    BY <1>0 DEF PlacesAscend
  <2> QED
    BY <1>0, <2>1, <2>2 DEF PlacesAscend
<1>2. ASSUME NEW m \in 1 .. n, \A k \in 1 .. n : SortedPlace(evs, k) # m
      PROVE  FALSE
  <2> DEFINE place == [k \in 1 .. n |-> SortedPlace(evs, k)]
             S == 1 .. n
             T == (1 .. n) \ {m}
  <2>1. IsFiniteSet(S) /\ Cardinality(S) = n /\ n \in Nat
    BY FS_Interval DEF Timed
  <2>2. IsFiniteSet(T) /\ Cardinality(T) = n - 1
    BY <2>1, FS_RemoveElement
  <2>3. place \in [S -> T]
    BY <1>0, <1>2 DEF PlacesAscend
  <2>4. \A x, y \in S : place[x] = place[y] => x = y
    BY <1>1
  <2> HIDE DEF place, S, T
  <2>5. Cardinality(T) < Cardinality(S)
    BY <2>1, <2>2
  <2> QED
    BY <2>1, <2>2, <2>3, <2>4, <2>5, FS_PigeonHole
<1> QED
  BY <1>1, <1>2 DEF PlacesMatch

\* Each event is at its place after the sort.
LEMMA StableSortedAt ==
  ASSUME NEW evs, NEW n, Timed(evs, n), NEW after, after = StableSorted(evs)
  PROVE  PutInPlace(evs, n, after)
<1>0. PlacesAscend(evs, n) /\ PlacesMatch(evs, n)
  BY PlacesRise, PlacesFill
<1>1. after = [m \in 1 .. n |-> evs[CHOOSE k \in 1 .. n : SortedPlace(evs, k) = m]]
  BY DEF StableSorted, Timed
<1>2. ASSUME NEW k \in 1 .. n
      PROVE  after[SortedPlace(evs, k)] = evs[k]
  <2>1. SortedPlace(evs, k) \in 1 .. n
    BY <1>0 DEF PlacesAscend
  <2>2. (CHOOSE j \in 1 .. n : SortedPlace(evs, j) = SortedPlace(evs, k)) = k
    BY <1>0 DEF PlacesMatch
  <2> QED
    BY <1>1, <2>1, <2>2
<1>3. ASSUME NEW m \in 1 .. n
      PROVE  \E k \in 1 .. n : SortedPlace(evs, k) = m /\ after[m] = evs[k]
  BY <1>0, <1>2 DEF PlacesMatch
<1> QED
  BY <1>1, <1>2, <1>3 DEF PutInPlace

\* Times do not fall along the sorted stream.
LEMMA SortedInTime ==
  ASSUME NEW evs, NEW n, Timed(evs, n), NEW after, after = StableSorted(evs),
         NEW l \in 1 .. n, NEW m \in 1 .. n, l < m
  PROVE  after[l].timestamp <= after[m].timestamp
<1>0. PlacesAscend(evs, n) /\ PutInPlace(evs, n, after)
  BY PlacesRise, StableSortedAt
<1>1. PICK j \in 1 .. n : SortedPlace(evs, j) = l /\ after[l] = evs[j]
  BY <1>0 DEF PutInPlace
<1>2. PICK k \in 1 .. n : SortedPlace(evs, k) = m /\ after[m] = evs[k]
  BY <1>0 DEF PutInPlace
<1>3. ~Precede(evs, k, j)
  BY <1>0, <1>1, <1>2 DEF PlacesAscend
<1> QED
  BY <1>1, <1>2, <1>3 DEF Precede, Timed

\* As many events of its time are up to an event before the sort as after.
LEMMA SortedKeepsOrder ==
  ASSUME NEW evs, NEW n, Timed(evs, n), NEW after, after = StableSorted(evs),
         NEW k \in 1 .. n
  PROVE  NthOfTime(after, SortedPlace(evs, k)) = NthOfTime(evs, k)
<1> DEFINE t == evs[k].timestamp
           m == SortedPlace(evs, k)
           S == {i \in 1 .. k : evs[i].timestamp = t}
           T == {j \in 1 .. m : after[j].timestamp = t}
           place == [i \in S |-> SortedPlace(evs, i)]
<1>0. PlacesAscend(evs, n) /\ PlacesMatch(evs, n) /\ PutInPlace(evs, n, after)
  BY PlacesRise, PlacesFill, StableSortedAt
<1>1. m \in 1 .. n /\ after[m] = evs[k]
  BY <1>0 DEF PlacesAscend, PutInPlace
<1>2. ASSUME NEW i \in S
      PROVE  SortedPlace(evs, i) \in T
  <2>1. i \in 1 .. n /\ i <= k /\ evs[i].timestamp = t
    BY DEF Timed
  <2>2. SortedPlace(evs, i) \in 1 .. n /\ after[SortedPlace(evs, i)] = evs[i]
    BY <1>0, <2>1 DEF PlacesAscend, PutInPlace
  <2>3. i = k \/ Precede(evs, i, k)
    BY <2>1 DEF Precede
  <2>4. SortedPlace(evs, i) <= m
    BY <1>1, <2>1, <2>2, <2>3, <1>0 DEF PlacesAscend
  <2> QED
    BY <2>1, <2>2, <2>4
<1>3. ASSUME NEW j \in T
      PROVE  \E i \in S : SortedPlace(evs, i) = j
  <2>1. j \in 1 .. n /\ j <= m /\ after[j].timestamp = t
    BY <1>1 DEF Timed
  <2>2. PICK i \in 1 .. n : SortedPlace(evs, i) = j /\ after[j] = evs[i]
    BY <1>0, <2>1 DEF PutInPlace
  <2>3. ~Precede(evs, k, i)
    BY <1>1, <2>1, <2>2, <1>0 DEF PlacesAscend
  <2>4. i <= k
    BY <2>1, <2>2, <2>3 DEF Precede, Timed
  <2> QED
    BY <2>1, <2>2, <2>4 DEF Timed
<1>4. \A x, y \in S : SortedPlace(evs, x) = SortedPlace(evs, y) => x = y
  BY <1>0 DEF PlacesMatch, Timed
<1>5. IsFiniteSet(T)
  <2>1. IsFiniteSet(1 .. m) /\ T \in SUBSET (1 .. m)
    BY <1>1, FS_Interval
  <2> QED
    BY <2>1, FS_Subset
<1>6. NthOfTime(after, m) = Cardinality(T) /\ NthOfTime(evs, k) = Cardinality(S)
  BY <1>1 DEF NthOfTime
<1>7. place \in Injection(S, T) /\ place \in Surjection(S, T)
  BY <1>2, <1>3, <1>4 DEF Injection, Surjection, IsInjective
<1> HIDE DEF S, T, place
<1>8. Cardinality(S) = Cardinality(T)
  BY <1>5, <1>7, FS_Injection
<1> QED
  BY <1>6, <1>8

(***************************************************************************)
(* The replay of a file is a replay                                        *)
(***************************************************************************)

\* What is read are events, what is replayed is their sort, and where the
\* replay stands in it.
FilePart ==
  /\ file \in Seq(RowEvents) /\ events \in Seq(RowEvents)
  /\ phase = "reading" =>
       /\ seq = 0 /\ event = NoEvent /\ events = <<>>
       /\ trade_rows = <<>> /\ book_rows = <<>>
  /\ phase # "reading" => status = "returned" /\ events = StableSorted(file)
  /\ seq \in Nat /\ seq <= Len(events)
  /\ event # NoEvent =>
       /\ phase = "replaying" /\ seq < Len(events)
       /\ event = Untimed(events[seq + 1])

\* A stream of row events is one with times.
LEMMA StreamTimed ==
  ASSUME NEW evs \in Seq(RowEvents)
  PROVE  Timed(evs, Len(evs))
<1>1. Len(evs) \in Nat /\ DOMAIN evs = 1 .. Len(evs)
  BY LenProperties
<1>2. ASSUME NEW k \in 1 .. Len(evs) PROVE evs[k].timestamp \in Int
  <2>1. evs[k] \in RowEvents
    BY ElementOfSeq
  <2> QED
    BY <2>1, RowEventFields
<1> QED
  BY <1>1, <1>2 DEF Timed

\* Its sort is a stream of as many.
LEMMA SortTyped ==
  ASSUME NEW evs \in Seq(RowEvents)
  PROVE  StableSorted(evs) \in Seq(RowEvents) /\ Len(StableSorted(evs)) = Len(evs)
<1> DEFINE n == Len(evs)
           after == StableSorted(evs)
<1>1. Timed(evs, n) /\ n \in Nat
  BY StreamTimed, LenProperties
<1>2. after = StableSorted(evs)
  OBVIOUS
<1> HIDE DEF after
<1>3. PutInPlace(evs, n, after)
  BY <1>1, <1>2, StableSortedAt
<1>4. ASSUME NEW m \in 1 .. n PROVE after[m] \in RowEvents
  <2>1. PICK k \in 1 .. n : after[m] = evs[k]
    BY <1>3 DEF PutInPlace
  <2> QED
    BY <2>1, ElementOfSeq
<1>5. [m \in 1 .. n |-> after[m]] \in Seq(RowEvents)
  BY <1>1, <1>4, IsASeq
<1>6. after = [m \in 1 .. n |-> after[m]]
  BY <1>3 DEF PutInPlace
<1>7. after \in Seq(RowEvents)
  BY <1>5, <1>6
<1>8. Len(after) = n
  <2>1. DOMAIN after = 1 .. n /\ Len(after) \in Nat /\ DOMAIN after = 1 .. Len(after)
    BY <1>6, <1>7, LenProperties
  <2> QED
    BY <1>1, <2>1
<1> QED
  BY <1>2, <1>7, <1>8

\* A row read is another event, or none.
LEMMA ReadTyped ==
  ASSUME file \in Seq(RowEvents), Read
  PROVE  file' \in Seq(RowEvents) /\ status = "parsing"
<1>1. ASSUME NEW line \in Lines, Parse!Row(line), file' # file
      PROVE  file' \in Seq(RowEvents)
  <2>1. /\ line # <<>> /\ RowFault(split_csv(line)) = "none"
        /\ file' = Append(file, AsEvent(split_csv(line)))
    BY <1>1, SameRows DEF Parse!Row
  <2> DEFINE ev == AsEvent(split_csv(line))
  <2>2. ev \in RowEvents
    BY <2>1 DEF RowEvents
  <2> HIDE DEF ev
  <2>3. Append(file, ev) \in Seq(RowEvents)
    BY <2>2, AppendProperties
  <2> QED
    BY <2>1, <2>3 DEF ev
<1>2. status = "parsing"
  BY DEF Read, Parse!Next, Parse!BlankLine, Parse!HeaderLine, Parse!Row, Parse!NextLine,
     Parse!EndOfFile
<1>3. file' = file \/ \E line \in Lines : Parse!Row(line)
  BY DEF Read, Parse!Next, Parse!BlankLine, Parse!HeaderLine, Parse!EndOfFile
<1> QED
  BY <1>1, <1>2, <1>3

\* An event of the stream is taken as EventReplay has it.
LEMMA NextEvent ==
  ASSUME FilePart, DispatchNext
  PROVE  LET ev == Untimed(events[seq + 1])
         IN /\ events[seq + 1] \in RowEvents
            /\ ev \in Events /\ ev # NoEvent /\ Dispatch(ev)
            /\ event = NoEvent /\ event' = ev
<1>1. seq + 1 \in 1 .. Len(events) /\ events \in Seq(RowEvents)
  BY LenProperties DEF FilePart, DispatchNext
<1>2. events[seq + 1] \in RowEvents
  BY <1>1, ElementOfSeq
<1> DEFINE ev == Untimed(events[seq + 1])
<1>3. ev \in Events
  BY <1>2, RowEventFields
<1>4. Dispatch(ev)
  BY DEF DispatchNext
<1> HIDE DEF ev
<1>5. ev # NoEvent
  BY <1>3 DEF Events, NoEvent
<1>6. event = NoEvent /\ event' = ev
  BY <1>4 DEF Dispatch
<1> QED
  BY <1>2, <1>3, <1>4, <1>5, <1>6 DEF ev

\* Each step of a file's replay is a step of EventReplay, or none.
LEMMA FileStepReplays ==
  ASSUME FilePart, [FileNext]_file_vars
  PROVE  [Next]_vars
<1>1. CASE DispatchNext
  BY <1>1, NextEvent DEF Next
<1>2. CASE MatchOn \/ EmitRows
  BY <1>2 DEF MatchOn, EmitRows, Next
<1>3. CASE Read \/ Sort \/ Abort \/ Finish \/ UNCHANGED file_vars
  BY <1>3 DEF Read, Sort, Abort, Finish, file_vars
<1> QED
  BY <1>1, <1>2, <1>3 DEF FileNext

LEMMA FileStepPart ==
  ASSUME FilePart, [FileNext]_file_vars
  PROVE  FilePart'
<1>1. CASE Read
  <2>1. UNCHANGED <<seq, event, events, phase, trade_rows, book_rows>>
    BY <1>1 DEF Read, vars, outputs
  <2>2. file' \in Seq(RowEvents) /\ status = "parsing"
    BY <1>1, ReadTyped DEF FilePart
  <2> QED
    BY <2>1, <2>2 DEF FilePart
<1>2. CASE Sort
  <2>1. /\ phase = "reading" /\ phase' = "replaying" /\ status' = "returned"
        /\ events' = StableSorted(file')
        /\ UNCHANGED <<seq, event, file, trade_rows, book_rows>>
    BY <1>2 DEF Sort, vars, parse, outputs
  <2>2. events' \in Seq(RowEvents) /\ Len(events') \in Nat
    BY <2>1, SortTyped, LenProperties DEF FilePart
  <2>3. seq = 0 /\ event = NoEvent
    BY <2>1 DEF FilePart
  <2> QED
    BY <2>1, <2>2, <2>3 DEF FilePart
<1>3. CASE DispatchNext
  <2>1. UNCHANGED <<parse, events, phase, outputs, seq>>
    BY <1>3, NextEvent DEF DispatchNext, Dispatch
  <2>2. event' = Untimed(events[seq + 1]) /\ seq < Len(events) /\ phase = "replaying"
    BY <1>3, NextEvent DEF DispatchNext
  <2> QED
    BY <2>1, <2>2 DEF FilePart, parse, outputs
<1>4. CASE MatchOn
  BY <1>4 DEF FilePart, MatchOn, Match, parse, outputs
<1>5. CASE EmitRows
  <2>1. /\ UNCHANGED <<parse, events, phase>> /\ seq' = seq + 1 /\ event' = NoEvent
        /\ event # NoEvent
    BY <1>5 DEF EmitRows, Emit
  <2>2. phase = "replaying" /\ seq < Len(events) /\ seq \in Nat /\ Len(events) \in Nat
    BY <2>1, LenProperties DEF FilePart
  <2>3. phase' = "replaying" /\ seq' <= Len(events') /\ seq' \in Nat
    BY <2>1, <2>2
  <2> QED
    BY <2>1, <2>3 DEF FilePart, parse
<1>6. CASE Abort \/ Finish
  <2>1. /\ UNCHANGED <<parse, seq, event, events>> /\ phase = "replaying"
        /\ phase' \in {"aborted", "done"} /\ event = NoEvent
    BY <1>6 DEF Abort, Finish, vars
  <2> QED
    BY <2>1 DEF FilePart, parse
<1>7. CASE UNCHANGED file_vars
  BY <1>7 DEF FilePart, file_vars, vars, parse, outputs
<1> QED
  BY <1>1, <1>2, <1>3, <1>4, <1>5, <1>6, <1>7 DEF FileNext

LEMMA FileStartsPart == FileInit => FilePart
<1> SUFFICES ASSUME FileInit PROVE FilePart
  OBVIOUS
<1>1. file = <<>> /\ events = <<>> /\ <<>> \in Seq(RowEvents) /\ Len(<<>>) = 0
  BY EmptySeq DEF FileInit, Parse!Init
<1> QED
  BY <1>1 DEF FileInit, Init, FilePart

\* The stream that EventReplay chooses freely may be that of a file: the
\* replay of every file is a behaviour of EventReplay, so that all that is
\* proved about it holds here.
THEOREM FileReplayIsReplay == FileSpec => Spec
<1>1. FileInit => FilePart /\ Init
  BY FileStartsPart DEF FileInit
<1>2. FilePart /\ [FileNext]_file_vars => FilePart' /\ [Next]_vars
  BY FileStepPart, FileStepReplays
<1> QED
  BY <1>1, <1>2, PTL DEF FileSpec, Spec

(***************************************************************************)
(* The rows of trades.csv                                                  *)
(***************************************************************************)

\* A sequence, of whatever it is.
IsRows(rows) == \E n \in Nat : rows = [k \in 1 .. n |-> rows[k]]

\* A sequence of rows is a sequence over any set that holds them all.
LEMMA RowsAreSeq ==
  ASSUME NEW rows, IsRows(rows), NEW S, {rows[k] : k \in DOMAIN rows} \subseteq S
  PROVE  rows \in Seq(S)
<1>1. PICK n \in Nat : rows = [k \in 1 .. n |-> rows[k]]
  BY DEF IsRows
<1>2. \A k \in 1 .. n : rows[k] \in S
  BY <1>1
<1>3. [k \in 1 .. n |-> rows[k]] \in Seq(S)
  BY <1>2, IsASeq
<1> QED
  BY <1>1, <1>3

\* What joining two of them gives.
Joins(p, q, rows) ==
  /\ IsRows(rows) /\ Len(p) \in Nat /\ Len(q) \in Nat
  /\ DOMAIN p = 1 .. Len(p) /\ DOMAIN q = 1 .. Len(q)
  /\ Len(rows) = Len(p) + Len(q)
  /\ DOMAIN rows = 1 .. Len(p) + Len(q)
  /\ \A k \in 1 .. Len(p) + Len(q) :
       rows[k] = IF k <= Len(p) THEN p[k] ELSE q[k - Len(p)]

LEMMA RowsJoin ==
  ASSUME NEW p, NEW q, IsRows(p), IsRows(q), NEW rows, rows = p \o q
  PROVE  Joins(p, q, rows)
<1> DEFINE S == {p[k] : k \in DOMAIN p} \cup {q[k] : k \in DOMAIN q}
<1>1. p \in Seq(S) /\ q \in Seq(S)
  <2>1. {p[k] : k \in DOMAIN p} \subseteq S /\ {q[k] : k \in DOMAIN q} \subseteq S
    OBVIOUS
  <2> HIDE DEF S
  <2> QED
    BY <2>1, RowsAreSeq
<1> HIDE DEF S
<1>2. /\ rows \in Seq(S) /\ Len(rows) = Len(p) + Len(q)
      /\ \A k \in 1 .. Len(p) + Len(q) :
           rows[k] = IF k <= Len(p) THEN p[k] ELSE q[k - Len(p)]
  BY <1>1, ConcatProperties
<1>3. /\ Len(p) \in Nat /\ Len(q) \in Nat /\ Len(rows) \in Nat
      /\ DOMAIN p = 1 .. Len(p) /\ DOMAIN q = 1 .. Len(q) /\ DOMAIN rows = 1 .. Len(rows)
  BY <1>1, <1>2, LenProperties
<1>4. rows = [k \in 1 .. Len(rows) |-> rows[k]]
  <2>1. rows \in [1 .. Len(rows) -> S]
    BY <1>2, LenProperties
  <2> QED
    BY <2>1
<1> QED
  BY <1>2, <1>3, <1>4 DEF Joins, IsRows

\* One more row.
Extends(rows, r, more) ==
  /\ IsRows(more)
  /\ Len(rows) \in Nat /\ DOMAIN rows = 1 .. Len(rows)
  /\ Len(more) = Len(rows) + 1 /\ DOMAIN more = 1 .. Len(rows) + 1
  /\ more[Len(rows) + 1] = r
  /\ \A k \in 1 .. Len(rows) : more[k] = rows[k]

LEMMA RowAppends ==
  ASSUME NEW rows, IsRows(rows), NEW r, NEW more, more = Append(rows, r)
  PROVE  Extends(rows, r, more)
<1> DEFINE S == {rows[k] : k \in DOMAIN rows} \cup {r}
<1>1. rows \in Seq(S) /\ r \in S
  <2>1. {rows[k] : k \in DOMAIN rows} \subseteq S /\ r \in S
    OBVIOUS
  <2> HIDE DEF S
  <2> QED
    BY <2>1, RowsAreSeq
<1> HIDE DEF S
<1>2. /\ more \in Seq(S) /\ Len(more) = Len(rows) + 1
      /\ \A k \in 1 .. Len(rows) : more[k] = rows[k]
      /\ more[Len(rows) + 1] = r
  BY <1>1, AppendProperties
<1>3. /\ Len(rows) \in Nat /\ DOMAIN rows = 1 .. Len(rows)
      /\ Len(more) \in Nat /\ DOMAIN more = 1 .. Len(more)
  BY <1>1, <1>2, LenProperties
<1>4. more = [k \in 1 .. Len(more) |-> more[k]]
  <2>1. more \in [1 .. Len(more) -> S]
    BY <1>2, LenProperties
  <2> QED
    BY <2>1
<1> QED
  BY <1>2, <1>3, <1>4 DEF Extends, IsRows

\* The rows of trades so far, those of the event in progress included.
AllRows == IF event = NoEvent THEN trade_rows ELSE trade_rows \o TradeRows

\* The row of one trade of the event in progress.
RowOf(trade) ==
  [seq |-> seq, timestamp |-> entered[trade.aggressor_id], trade |-> trade]

\* The trades of a call are a sequence, and so are their rows.
LEMMA TradesAreRows ==
  ASSUME Proved!IInv
  PROVE  /\ IsRows(trades) /\ IsRows(TradeRows) /\ DOMAIN TradeRows = DOMAIN trades
         /\ Len(trades) \in Nat /\ DOMAIN trades = 1 .. Len(trades)
         /\ \A k \in DOMAIN trades : TradeRows[k] = RowOf(trades[k])
         /\ trades \in Seq(Proved!TradeRecord)
<1>1. trades \in Seq(Proved!TradeRecord)
  BY SameInvariant DEF Proved!CallPart
<1>2. DOMAIN trades = 1 .. Len(trades) /\ Len(trades) \in Nat
  BY <1>1, LenProperties
<1>3. trades = [k \in 1 .. Len(trades) |-> trades[k]]
  BY <1>1, <1>2, LenProperties
<1>4. \A k \in DOMAIN trades : TradeRows[k] = RowOf(trades[k])
  BY DEF TradeRows, RowOf
<1>5. DOMAIN TradeRows = 1 .. Len(trades)
  BY <1>2 DEF TradeRows
<1>6. TradeRows = [k \in 1 .. Len(trades) |-> TradeRows[k]]
  BY <1>2 DEF TradeRows
<1> QED
  BY <1>1, <1>2, <1>3, <1>4, <1>5, <1>6 DEF IsRows

\* A row behind the second of two sequences is behind both.
LEMMA ExtendsBoth ==
  ASSUME NEW p, NEW q, NEW r, NEW more, IsRows(p), IsRows(q), Extends(q, r, more),
         NEW rows, rows = p \o q, NEW longer, longer = p \o more
  PROVE  Extends(rows, r, longer)
<1>1. IsRows(more)
  BY DEF Extends
<1>2. Joins(p, q, rows) /\ Joins(p, more, longer)
  BY <1>1, RowsJoin
<1>3. /\ Len(p) \in Nat /\ Len(q) \in Nat /\ Len(rows) = Len(p) + Len(q)
      /\ Len(more) = Len(q) + 1 /\ Len(longer) = Len(p) + Len(q) + 1
      /\ IsRows(longer) /\ DOMAIN rows = 1 .. Len(rows)
      /\ DOMAIN longer = 1 .. Len(rows) + 1
  BY <1>2 DEF Extends, Joins
<1>4. longer[Len(rows) + 1] = r
  <2>1. longer[Len(rows) + 1] = more[Len(q) + 1]
    BY <1>2, <1>3 DEF Joins
  <2> QED
    BY <2>1 DEF Extends
<1>5. ASSUME NEW k \in 1 .. Len(rows) PROVE longer[k] = rows[k]
  <2>1. longer[k] = IF k <= Len(p) THEN p[k] ELSE more[k - Len(p)]
    BY <1>2, <1>3 DEF Joins
  <2>2. rows[k] = IF k <= Len(p) THEN p[k] ELSE q[k - Len(p)]
    BY <1>2, <1>3 DEF Joins
  <2>3. ~(k <= Len(p)) => k - Len(p) \in 1 .. Len(q)
    BY <1>3
  <2>4. ~(k <= Len(p)) => more[k - Len(p)] = q[k - Len(p)]
    BY <2>3 DEF Extends
  <2> QED
    BY <2>1, <2>2, <2>4
<1> QED
  BY <1>3, <1>4, <1>5 DEF Extends

\* The rows whose trade is one of an order since it was the l-th event, and the
\* shares that they and that all rows come to.
TradesSince(rows, id, l) ==
  {k \in DOMAIN rows :
     /\ rows[k].seq >= l - 1
     /\ id \in {rows[k].trade.aggressor_id, rows[k].trade.resting_id}}

Sold(rows, id, l) ==
  SumFunction([k \in TradesSince(rows, id, l) |-> rows[k].trade.quantity])

Volume(rows) == SumFunction([k \in DOMAIN rows |-> rows[k].trade.quantity])

\* Rows of trades that came with an event before the n-th.
TradeRowsUpTo(rows, n) ==
  \A k \in DOMAIN rows :
    rows[k].seq \in Nat /\ rows[k].seq < n /\ rows[k].trade.quantity \in Int

\* Each new row adds its shares.
LEMMA VolumeExtends ==
  ASSUME NEW rows, NEW r, NEW more, Extends(rows, r, more), NEW n, TradeRowsUpTo(rows, n),
         r.trade.quantity \in Int
  PROVE  Volume(more) = Volume(rows) + r.trade.quantity
<1> DEFINE f == [k \in DOMAIN rows |-> rows[k].trade.quantity]
           g == [k \in DOMAIN more |-> more[k].trade.quantity]
           S == DOMAIN rows
           T == DOMAIN more
           m == Len(rows) + 1
<1>1. /\ Len(rows) \in Nat /\ S = 1 .. Len(rows) /\ T = S \cup {m} /\ m \notin S
      /\ more[m] = r /\ \A k \in S : more[k] = rows[k]
  BY DEF Extends
<1>2. IsFiniteSet(S)
  BY <1>1, FS_Interval
<1>3. /\ \A k \in S : f[k] \in Int /\ f[k] = g[k]
      /\ g[m] = r.trade.quantity
  BY <1>1 DEF TradeRowsUpTo
<1>4. Volume(rows) = SumFunctionOnSet(f, S) /\ Volume(more) = SumFunctionOnSet(g, T)
  BY DEF Volume, SumFunction
<1> HIDE DEF f, g, S, T, m
<1>5. SumFunctionOnSet(g, T) = SumFunctionOnSet(f, S) + g[m]
  <2>1. \A x \in S : f[x] \in Int
    BY <1>3
  <2>2. \A x \in S : f[x] = g[x]
    BY <1>3
  <2>3. IsFiniteSet(T) /\ m \in T /\ T \ {m} = S
    BY <1>1, <1>2, FS_AddElement
  <2>4. \A x \in T : g[x] \in Int
    BY <1>1, <1>3, <2>1, <2>2
  <2>5. SumFunctionOnSet(g, T) = g[m] + SumFunctionOnSet(g, S)
    BY <2>3, <2>4, SumTakes
  <2>6. SumFunctionOnSet(f, S) = SumFunctionOnSet(g, S)
    BY <1>2, <2>2, SumSame
  <2>7. SumFunctionOnSet(f, S) \in Int /\ g[m] \in Int
    BY <1>2, <1>3, <2>1, SumInt
  <2> QED
    BY <2>5, <2>6, <2>7
<1> QED
  BY <1>3, <1>4, <1>5

\* And to its two orders only.
LEMMA SoldExtends ==
  ASSUME NEW rows, NEW r, NEW more, Extends(rows, r, more), NEW n, TradeRowsUpTo(rows, n),
         r.trade.quantity \in Int, NEW id, NEW l, r.seq >= l - 1
  PROVE  /\ Sold(rows, id, l) \in Int
         /\ Sold(more, id, l) =
              IF id \in {r.trade.aggressor_id, r.trade.resting_id}
              THEN Sold(rows, id, l) + r.trade.quantity ELSE Sold(rows, id, l)
<1> DEFINE S == TradesSince(rows, id, l)
           T == TradesSince(more, id, l)
           f == [k \in S |-> rows[k].trade.quantity]
           g == [k \in T |-> more[k].trade.quantity]
           m == Len(rows) + 1
<1>1. /\ Len(rows) \in Nat /\ DOMAIN rows = 1 .. Len(rows)
      /\ DOMAIN more = DOMAIN rows \cup {m} /\ m \notin DOMAIN rows
      /\ more[m] = r /\ \A k \in DOMAIN rows : more[k] = rows[k]
  BY DEF Extends
<1>2. IsFiniteSet(S)
  <2>1. IsFiniteSet(DOMAIN rows) /\ S \in SUBSET DOMAIN rows
    BY <1>1, FS_Interval DEF TradesSince
  <2> QED
    BY <2>1, FS_Subset
<1>3. m \notin S /\ T = IF id \in {r.trade.aggressor_id, r.trade.resting_id}
                        THEN S \cup {m} ELSE S
  BY <1>1 DEF TradesSince
<1>4. /\ \A k \in S : f[k] \in Int /\ k \in T /\ f[k] = g[k]
      /\ m \in T => g[m] = r.trade.quantity
  BY <1>1, <1>3 DEF TradeRowsUpTo, TradesSince
<1>5. /\ Sold(rows, id, l) = SumFunctionOnSet(f, S)
      /\ Sold(more, id, l) = SumFunctionOnSet(g, T)
  BY DEF Sold, SumFunction
<1> HIDE DEF f, g, S, T, m
<1>6. SumFunctionOnSet(f, S) \in Int
  BY <1>2, <1>4, SumInt
<1>7. CASE id \in {r.trade.aggressor_id, r.trade.resting_id}
  <2>1. T = S \cup {m} /\ g[m] = r.trade.quantity
    BY <1>3, <1>4, <1>7
  <2>2. SumFunctionOnSet(g, T) = SumFunctionOnSet(f, S) + g[m]
    <3>1. \A x \in S : f[x] \in Int
      BY <1>4
    <3>2. \A x \in S : f[x] = g[x]
      BY <1>4
    <3>3. g[m] \in Int /\ m \notin S /\ T = S \cup {m}
      BY <1>3, <2>1
    <3> HIDE <1>3, <1>4, <2>1
    <3> QED
      BY <1>2, <3>1, <3>2, <3>3, SumAdded
  <2> QED
    BY <1>5, <1>6, <1>7, <2>1, <2>2
<1>8. CASE id \notin {r.trade.aggressor_id, r.trade.resting_id}
  <2>1. T = S
    BY <1>3, <1>8
  <2>2. SumFunctionOnSet(f, S) = SumFunctionOnSet(g, S)
    BY <1>2, <1>4, SumSame
  <2> QED
    BY <1>5, <1>6, <1>8, <2>1, <2>2
<1> QED
  BY <1>7, <1>8

\* Before its event an order has no such rows.
LEMMA SoldBefore ==
  ASSUME NEW rows, NEW n \in Nat, TradeRowsUpTo(rows, n), NEW id
  PROVE  Sold(rows, id, n + 1) = 0
<1>1. TradesSince(rows, id, n + 1) = {}
  BY DEF TradesSince, TradeRowsUpTo
<1>2. DOMAIN [k \in TradesSince(rows, id, n + 1) |-> rows[k].trade.quantity] = {}
  BY <1>1
<1> QED
  BY <1>2, SumEmpty DEF Sold, SumFunction

\* A fill takes shares of the order at the front of the best level.
Fills(front, fill) ==
  /\ contains(book, front.id) /\ find(book, front.id) = front
  /\ fill <= front.quantity
  /\ executed_volume' = executed_volume + fill
  /\ remaining' = remaining - fill
  /\ book' = Proved!AfterFill(book, front, fill)

\* Its trade is one more row, of the two orders and their shares.
LEMMA FillRows ==
  ASSUME Proved!IInv, Proved!IInv', IsRows(trade_rows), MatchOn, Engine!Fill
  PROVE  \E front \in Order : \E fill \in Nat \ {0} : \E r :
           /\ Fills(front, fill)
           /\ r.seq = seq
           /\ r.trade.aggressor_id = order.id /\ r.trade.resting_id = front.id
           /\ r.trade.quantity = fill
           /\ Extends(AllRows, r, AllRows')
<1>1. Proved!Fill
  BY SameEngine
<1>2. PICK front \in Proved!Order : \E fill \in Nat \ {0} :
           /\ Proved!contains(book, front.id) /\ Proved!find(book, front.id) = front
           /\ fill <= front.quantity
           /\ trades' = Append(trades, Proved!Trade(order, front, fill))
           /\ executed_volume' = executed_volume + fill
           /\ remaining' = remaining - fill
           /\ book' = Proved!AfterFill(book, front, fill)
  BY <1>1, Proved!FillEffect, PricesAssumption, QuantitiesAssumption, MaxVolumeAssumption
<1>3. PICK fill \in Nat \ {0} :
           /\ Proved!contains(book, front.id) /\ Proved!find(book, front.id) = front
           /\ fill <= front.quantity
           /\ trades' = Append(trades, Proved!Trade(order, front, fill))
           /\ executed_volume' = executed_volume + fill
           /\ remaining' = remaining - fill
           /\ book' = Proved!AfterFill(book, front, fill)
  BY <1>2
<1> DEFINE trade == Proved!Trade(order, front, fill)
           r == RowOf(trade)
<1>4. /\ trade.aggressor_id = order.id /\ trade.resting_id = front.id
      /\ trade.quantity = fill
  BY DEF Proved!Trade
<1>5. r.seq = seq /\ r.trade = trade
  BY DEF RowOf
<1>6. front \in Order /\ Fills(front, fill)
  BY <1>3, SameOperations DEF Fills, Proved!Order, Order, Proved!Sides, Sides
<1>7. /\ event # NoEvent /\ event' = event /\ seq' = seq /\ entered' = entered
      /\ trade_rows' = trade_rows
  BY DEF MatchOn, Match, outputs
<1> HIDE DEF r, trade
<1>8. IsRows(trades) /\ IsRows(TradeRows) /\ DOMAIN TradeRows = DOMAIN trades
      /\ Len(trades) \in Nat /\ DOMAIN trades = 1 .. Len(trades)
      /\ \A k \in DOMAIN trades : TradeRows[k] = RowOf(trades[k])
  BY TradesAreRows
<1>9. PICK more : more = TradeRows' /\ more = [k \in DOMAIN trades' |-> RowOf(trades'[k])]
  BY <1>7 DEF TradeRows, RowOf
<1>10. Extends(trades, trade, trades')
  BY <1>3, <1>8, RowAppends DEF trade
<1>11. Extends(TradeRows, r, more)
  <2>1. /\ Len(trades') = Len(trades) + 1 /\ DOMAIN trades' = 1 .. Len(trades) + 1
        /\ trades'[Len(trades) + 1] = trade
        /\ \A k \in 1 .. Len(trades) : trades'[k] = trades[k]
    BY <1>10 DEF Extends
  <2>2. Len(TradeRows) = Len(trades)
    <3>1. TradeRows \in Seq({TradeRows[k] : k \in DOMAIN TradeRows})
      BY <1>8, RowsAreSeq
    <3>2. Len(TradeRows) \in Nat /\ DOMAIN TradeRows = 1 .. Len(TradeRows)
      BY <3>1, LenProperties
    <3> QED
      BY <1>8, <3>2
  <2>3. more = [k \in 1 .. Len(trades) + 1 |-> more[k]]
    BY <1>9, <2>1
  <2>4. IsRows(more) /\ DOMAIN more = 1 .. Len(trades) + 1
    BY <1>8, <2>3 DEF IsRows
  <2>5. Len(more) = Len(trades) + 1
    <3>1. more \in Seq({more[k] : k \in DOMAIN more})
      BY <2>4, RowsAreSeq
    <3>2. Len(more) \in Nat /\ DOMAIN more = 1 .. Len(more)
      BY <3>1, LenProperties
    <3> QED
      BY <1>8, <2>4, <3>2
  <2>6. more[Len(trades) + 1] = r
    BY <1>8, <1>9, <2>1 DEF r
  <2>7. \A k \in 1 .. Len(trades) : more[k] = TradeRows[k]
    BY <1>8, <1>9, <2>1
  <2> QED
    BY <1>8, <2>2, <2>4, <2>5, <2>6, <2>7 DEF Extends
<1>12. AllRows = trade_rows \o TradeRows /\ AllRows' = trade_rows \o more
  BY <1>7, <1>9 DEF AllRows
<1>13. Extends(AllRows, r, AllRows')
  BY <1>8, <1>11, <1>12, ExtendsBoth
<1> QED
  BY <1>3, <1>4, <1>5, <1>6, <1>13

\* Nothing else changes what has traded; the rows of an event join the file
\* when it has been dealt with.
LEMMA RowsStand ==
  ASSUME FilePart, Proved!IInv, IsRows(trade_rows), [FileNext]_file_vars,
         ~(MatchOn /\ Engine!Fill)
  PROVE  AllRows' = AllRows /\ executed_volume' = executed_volume
<1>1. ASSUME UNCHANGED <<event, trade_rows, executed_volume>>,
             event = NoEvent \/ UNCHANGED <<seq, entered, trades>>
      PROVE  AllRows' = AllRows /\ executed_volume' = executed_volume
  BY <1>1 DEF AllRows, TradeRows
<1>2. CASE Read \/ Sort \/ Abort \/ UNCHANGED file_vars
  BY <1>1, <1>2 DEF Read, Sort, Abort, file_vars, vars, engine, outputs
<1>3. CASE Finish
  BY <1>1, <1>3 DEF Finish, vars, engine
<1>4. CASE DispatchNext
  <2>1. /\ event = NoEvent /\ event' # NoEvent /\ trade_rows' = trade_rows
        /\ Dispatch(Untimed(events[seq + 1]))
    BY <1>4, NextEvent DEF DispatchNext, outputs
  <2>2. trades' = <<>> /\ executed_volume' = executed_volume
    BY <2>1 DEF Dispatch, Engine!Submit, Engine!StartMatch, Engine!Cancel,
       Engine!Modify, Engine!ModifyNothing, Engine!ModifyInPlace, Engine!ModifyAsNew
  <2>3. TradeRows' = <<>>
    BY <2>2 DEF TradeRows
  <2>4. trade_rows \o <<>> = trade_rows
    <3>1. trade_rows \in Seq({trade_rows[k] : k \in DOMAIN trade_rows})
      BY RowsAreSeq
    <3> QED
      BY <3>1, ConcatEmptySeq
  <2> QED
    BY <2>1, <2>2, <2>3, <2>4 DEF AllRows
<1>5. CASE MatchOn /\ Engine!Finish
  BY <1>1, <1>5 DEF MatchOn, Match, Engine!Finish, outputs
<1>6. CASE EmitRows
  BY <1>6 DEF EmitRows, Emit, engine, AllRows
<1> QED
  BY <1>2, <1>3, <1>4, <1>5, <1>6 DEF FileNext, MatchOn, Match

\* How many events have been begun.
Begun == IF event = NoEvent THEN seq ELSE seq + 1

\* The rows of trades come to what the engine says has traded, in the middle
\* of an event too.
TradesPart ==
  /\ IsRows(trade_rows)
  /\ TradeRowsUpTo(AllRows, Begun)
  /\ executed_volume = Volume(AllRows)

LEMMA FileStartsTrades == FileInit => TradesPart
<1> SUFFICES ASSUME FileInit PROVE TradesPart
  OBVIOUS
<1>1. trade_rows = <<>> /\ AllRows = <<>> /\ executed_volume = 0
  BY DEF FileInit, Init, Engine!Init, AllRows
<1>2. <<>> = [k \in 1 .. 0 |-> <<>>[k]] /\ DOMAIN <<>> = {}
  OBVIOUS
<1>3. IsRows(<<>>)
  BY <1>2 DEF IsRows
<1>4. Volume(<<>>) = 0
  BY <1>2, SumEmpty DEF Volume, SumFunction
<1>5. TradeRowsUpTo(<<>>, Begun)
  BY <1>2 DEF TradeRowsUpTo
<1> QED
  BY <1>1, <1>3, <1>4, <1>5 DEF TradesPart

\* Events are begun one after the other.
LEMMA BegunRises ==
  ASSUME FilePart, [FileNext]_file_vars
  PROVE  /\ Begun \in Nat
         /\ Begun' = IF DispatchNext THEN Begun + 1 ELSE Begun
<1>1. seq \in Nat
  BY DEF FilePart
<1>2. CASE DispatchNext
  <2>1. event = NoEvent /\ event' # NoEvent /\ seq' = seq
    BY <1>2, NextEvent DEF DispatchNext, Dispatch
  <2> QED
    BY <1>1, <1>2, <2>1 DEF Begun
<1>3. CASE UNCHANGED <<event, seq>>
  <2>1. ~DispatchNext
    BY <1>3, NextEvent
  <2> QED
    BY <1>1, <1>3, <2>1 DEF Begun
<1>4. CASE EmitRows
  <2>1. event # NoEvent /\ event' = NoEvent /\ seq' = seq + 1
    BY <1>4 DEF EmitRows, Emit
  <2>2. ~DispatchNext
    BY <2>1, NextEvent
  <2> QED
    BY <1>1, <2>1, <2>2 DEF Begun
<1>5. DispatchNext \/ EmitRows \/ UNCHANGED <<event, seq>>
  BY DEF FileNext, Read, Sort, Abort, MatchOn, Match, Finish, file_vars, vars
<1> QED
  BY <1>2, <1>3, <1>4, <1>5

LEMMA FileStepTrades ==
  ASSUME FilePart, Proved!IInv, Proved!IInv', TradesPart, [FileNext]_file_vars
  PROVE  TradesPart'
<1>1. /\ IsRows(trade_rows) /\ TradeRowsUpTo(AllRows, Begun)
      /\ executed_volume = Volume(AllRows)
  BY DEF TradesPart
<1>2. PICK n, n2 : n = Begun /\ n2 = Begun'
  OBVIOUS
<1>3. n \in Nat /\ n2 \in Nat /\ n <= n2
  BY <1>2, BegunRises
<1>4. PICK rows, more : rows = AllRows /\ more = AllRows'
  OBVIOUS
<1>5. TradeRowsUpTo(rows, n)
  BY <1>1, <1>2, <1>4
<1>6. IsRows(trade_rows')
  <2>1. CASE EmitRows
    <3>1. IsRows(TradeRows) /\ trade_rows' = trade_rows \o TradeRows
      BY <2>1, TradesAreRows DEF EmitRows
    <3>2. Joins(trade_rows, TradeRows, trade_rows')
      BY <1>1, <3>1, RowsJoin
    <3> QED
      BY <3>2 DEF Joins
  <2>2. CASE ~EmitRows
    BY <1>1, <2>2 DEF FileNext, Read, Sort, Abort, DispatchNext, MatchOn, Finish, file_vars,
       outputs
  <2> QED
    BY <2>1, <2>2
<1>7. CASE ~(MatchOn /\ Engine!Fill)
  <2>1. more = rows /\ executed_volume' = executed_volume
    BY <1>1, <1>4, <1>7, RowsStand
  <2>2. TradeRowsUpTo(more, n2)
    BY <1>3, <1>5, <2>1 DEF TradeRowsUpTo
  <2> QED
    BY <1>1, <1>2, <1>4, <1>6, <2>1, <2>2 DEF TradesPart
<1>8. CASE MatchOn /\ Engine!Fill
  <2>1. PICK front, fill, r :
           /\ front \in Order /\ fill \in Nat \ {0}
           /\ Fills(front, fill)
           /\ r.seq = seq
           /\ r.trade.aggressor_id = order.id /\ r.trade.resting_id = front.id
           /\ r.trade.quantity = fill
           /\ Extends(AllRows, r, AllRows')
    BY <1>1, <1>8, FillRows
  <2>2. Extends(rows, r, more)
    BY <1>4, <2>1
  <2>3. executed_volume' = executed_volume + fill /\ r.trade.quantity \in Int
    BY <2>1 DEF Fills
  <2>4. Volume(more) = Volume(rows) + r.trade.quantity
    BY <1>5, <2>2, <2>3, VolumeExtends
  <2>5. executed_volume' = Volume(more)
    BY <1>1, <1>4, <2>1, <2>3, <2>4
  <2>6. seq \in Nat /\ n2 = seq + 1 /\ n = n2
    BY <1>2, <1>8, BegunRises DEF FilePart, MatchOn, Match, Begun
  <2>7. TradeRowsUpTo(more, n2)
    <3> SUFFICES ASSUME NEW k \in DOMAIN more
                 PROVE  /\ more[k].seq \in Nat /\ more[k].seq < n2
                        /\ more[k].trade.quantity \in Int
      BY DEF TradeRowsUpTo
    <3>1. CASE k \in 1 .. Len(rows)
      <4>1. more[k] = rows[k] /\ k \in DOMAIN rows
        BY <2>2, <3>1 DEF Extends
      <4> QED
        BY <1>5, <2>6, <4>1 DEF TradeRowsUpTo
    <3>2. CASE k = Len(rows) + 1
      <4>1. more[k] = r
        BY <2>2, <3>2 DEF Extends
      <4> QED
        BY <2>1, <2>3, <2>6, <4>1
    <3> QED
      BY <2>2, <3>1, <3>2 DEF Extends
  <2> QED
    BY <1>2, <1>4, <1>6, <2>5, <2>7 DEF TradesPart
<1> QED
  BY <1>7, <1>8

\* The other outputs: the rows of book.csv carry the times of their events,
\* and the summary is what it should be when the replay is over.
OutputPart ==
  /\ IsRows(book_rows) /\ Len(book_rows) = seq /\ DOMAIN book_rows = 1 .. seq
  /\ \A k \in 1 .. seq : book_rows[k].timestamp = events[k].timestamp
  /\ stats \in [events_processed : Int, trades_generated : Int, executed_volume : Int]
  /\ stats.trades_generated = Len(trade_rows)
  /\ phase = "done" =>
       /\ event = NoEvent /\ stats.events_processed = seq
       /\ stats.executed_volume = executed_volume

LEMMA FileStartsOutputs == FileInit => OutputPart
<1> SUFFICES ASSUME FileInit PROVE OutputPart
  OBVIOUS
<1>1. /\ trade_rows = <<>> /\ book_rows = <<>> /\ seq = 0 /\ phase = "reading"
      /\ stats = [events_processed |-> 0, trades_generated |-> 0, executed_volume |-> 0]
  BY DEF FileInit, Init
<1>2. <<>> = [k \in 1 .. 0 |-> <<>>[k]] /\ DOMAIN <<>> = 1 .. 0 /\ Len(<<>>) = 0
  OBVIOUS
<1>3. IsRows(<<>>)
  BY <1>2 DEF IsRows
<1> QED
  BY <1>1, <1>2, <1>3 DEF OutputPart

LEMMA FileStepOutputs ==
  ASSUME FilePart, Proved!IInv, TradesPart, OutputPart, [FileNext]_file_vars
  PROVE  OutputPart'
<1>1. CASE EmitRows
  <2> DEFINE r == [seq |-> seq, timestamp |-> events[seq + 1].timestamp,
                   l1 |-> extract_l1(book)]
  <2>1. /\ seq' = seq + 1 /\ UNCHANGED <<events, phase>> /\ event # NoEvent
        /\ book_rows' = Append(book_rows, r)
        /\ trade_rows' = trade_rows \o TradeRows
        /\ stats' = [stats EXCEPT !.trades_generated = @ + Len(trades)]
    BY <1>1 DEF EmitRows, Emit, Tallied
  <2>2. phase = "replaying" /\ seq \in Nat
    BY <2>1 DEF FilePart
  <2>3. r.timestamp = events[seq + 1].timestamp
    OBVIOUS
  <2> HIDE DEF r
  <2>4. PICK rows : rows = book_rows'
    OBVIOUS
  <2>5. Extends(book_rows, r, rows) /\ Len(book_rows) = seq
    BY <2>1, <2>4, RowAppends DEF OutputPart
  <2>6. IsRows(rows) /\ Len(rows) = seq + 1 /\ DOMAIN rows = 1 .. seq + 1
    BY <2>5 DEF Extends
  <2>7. \A k \in 1 .. seq + 1 : rows[k].timestamp = events[k].timestamp
    BY <2>2, <2>3, <2>5 DEF Extends, OutputPart
  <2>8. Len(trades) \in Nat /\ Len(trade_rows') = Len(trade_rows) + Len(trades)
    <3>1. /\ IsRows(trades) /\ IsRows(TradeRows) /\ DOMAIN TradeRows = DOMAIN trades
          /\ Len(trades) \in Nat /\ DOMAIN trades = 1 .. Len(trades) /\ IsRows(trade_rows)
      BY TradesAreRows DEF TradesPart
    <3>2. Joins(trade_rows, TradeRows, trade_rows')
      BY <2>1, <3>1, RowsJoin
    <3>3. Len(TradeRows) = Len(trades)
      BY <3>1, <3>2 DEF Joins
    <3> QED
      BY <3>1, <3>2, <3>3 DEF Joins
  <2>9. /\ stats' \in [events_processed : Int, trades_generated : Int, executed_volume : Int]
        /\ stats'.trades_generated = Len(trade_rows')
    BY <2>1, <2>8 DEF OutputPart
  <2> QED
    BY <2>1, <2>2, <2>4, <2>6, <2>7, <2>9 DEF OutputPart
<1>2. CASE Finish
  <2>1. /\ UNCHANGED <<seq, event, events, book_rows, trade_rows, executed_volume>>
        /\ event = NoEvent /\ seq = Len(events)
        /\ stats' = [stats EXCEPT !.events_processed = Len(events),
                                  !.executed_volume = executed_volume]
    BY <1>2 DEF Finish, vars, engine
  <2>2. Len(events) \in Int /\ executed_volume \in Int
    BY <2>1, SameInvariant DEF FilePart, Engine!TypeOK
  <2>3. /\ stats' \in [events_processed : Int, trades_generated : Int, executed_volume : Int]
        /\ stats'.trades_generated = stats.trades_generated
        /\ stats'.events_processed = Len(events) /\ stats'.executed_volume = executed_volume
    BY <2>1, <2>2 DEF OutputPart
  <2> QED
    BY <2>1, <2>3 DEF OutputPart
<1>3. CASE Sort
  <2>1. /\ UNCHANGED <<seq, event, book_rows, trade_rows, stats, executed_volume>>
        /\ phase = "reading" /\ phase' = "replaying"
    BY <1>3 DEF Sort, vars, engine, outputs
  <2>2. seq = 0
    BY <2>1 DEF FilePart
  <2> QED
    BY <2>1, <2>2 DEF OutputPart
<1>4. CASE Read \/ Abort \/ UNCHANGED file_vars
  <2>1. /\ UNCHANGED <<seq, event, events, book_rows, trade_rows, stats, executed_volume>>
        /\ phase' \in {phase, "aborted"}
    BY <1>4 DEF Read, Abort, file_vars, vars, engine, outputs
  <2> QED
    BY <2>1 DEF OutputPart
<1>5. CASE DispatchNext \/ MatchOn
  <2>1. /\ UNCHANGED <<seq, events, book_rows, trade_rows, stats, phase>>
    BY <1>5 DEF DispatchNext, Dispatch, MatchOn, Match, outputs
  <2>2. phase = "replaying"
    BY <1>5 DEF DispatchNext, MatchOn, Match, FilePart
  <2> QED
    BY <2>1, <2>2 DEF OutputPart
<1> QED
  BY <1>1, <1>2, <1>3, <1>4, <1>5 DEF FileNext

\* The parts hold together, next to what is proved of every replay.
FileInv == FilePart /\ TradesPart /\ OutputPart

LEMMA FileInvariant == FileSpec => [](FileInv /\ Proved!IInv)
<1>1. FileInit => FileInv
  BY FileStartsPart, FileStartsTrades, FileStartsOutputs DEF FileInv
<1>2. FileInv /\ Proved!IInv /\ Proved!IInv' /\ [FileNext]_file_vars => FileInv'
  BY FileStepPart, FileStepTrades, FileStepOutputs DEF FileInv
<1>3. ReplayInv => Proved!IInv
  BY DEF ReplayInv
<1> QED
  BY <1>1, <1>2, <1>3, FileReplayIsReplay, ReplayInvariant, PTL DEF FileSpec

\* However an event trades, and whatever is left unfilled, repriced or
\* cancelled, the summary counts the rows of the two files and the shares in
\* them.
THEOREM SummaryIsOfTheRows == FileSpec => []SummaryOfRows
<1>1. FileInv => SummaryOfRows
  <2> SUFFICES ASSUME FileInv PROVE SummaryOfRows
    OBVIOUS
  <2>1. Len(book_rows) = seq /\ stats.trades_generated = Len(trade_rows)
    BY DEF FileInv, OutputPart
  <2>2. phase = "done" => /\ event = NoEvent /\ stats.events_processed = seq
                          /\ stats.executed_volume = executed_volume
    BY DEF FileInv, OutputPart
  <2>3. event = NoEvent => executed_volume = Volume(trade_rows)
    BY DEF FileInv, TradesPart, AllRows
  <2> QED
    BY <2>1, <2>2, <2>3 DEF SummaryOfRows, Volume
<1> QED
  BY <1>1, FileInvariant, PTL

\* However the lines of a file are ordered and however many share a time, the
\* rows of book.csv are in time order and events of one time are replayed in
\* the order of the file.
THEOREM ReplayKeepsFileOrder == FileSpec => []TimeThenFileOrder
<1>1. FileInv => TimeThenFileOrder
  <2> SUFFICES ASSUME FileInv PROVE TimeThenFileOrder
    OBVIOUS
  <2> DEFINE n == Len(file)
  <2>1. /\ DOMAIN book_rows = 1 .. seq
        /\ \A k \in 1 .. seq : book_rows[k].timestamp = events[k].timestamp
    BY DEF FileInv, OutputPart
  <2>2. phase = "reading" => seq = 0 /\ events = <<>>
    BY DEF FileInv, FilePart
  <2>3. CASE phase = "reading"
    BY <2>1, <2>2, <2>3 DEF TimeThenFileOrder
  <2>4. CASE phase # "reading"
    <3>1. Timed(file, n) /\ events = StableSorted(file) /\ Len(events) = n /\ n \in Nat
          /\ DOMAIN events = 1 .. n /\ DOMAIN file = 1 .. n /\ seq \in Nat /\ seq <= n
      BY <2>4, StreamTimed, SortTyped, LenProperties DEF FileInv, FilePart
    <3> HIDE DEF n
    <3>2. ASSUME NEW j \in 1 .. seq, NEW k \in 1 .. seq, j < k
          PROVE  book_rows[j].timestamp <= book_rows[k].timestamp
      <4>1. j \in 1 .. n /\ k \in 1 .. n
        BY <3>1
      <4>2. events[j].timestamp <= events[k].timestamp
        BY <3>1, <3>2, <4>1, SortedInTime
      <4> QED
        BY <2>1, <4>2
    <3>3. ASSUME NEW k \in 1 .. n
          PROVE  \E m \in 1 .. n : /\ events[m] = file[k]
                                   /\ NthOfTime(events, m) = NthOfTime(file, k)
      <4> DEFINE m == SortedPlace(file, k)
      <4>1. m \in 1 .. n
        BY <3>1, PlacesRise DEF PlacesAscend
      <4>2. events[m] = file[k]
        BY <3>1, StableSortedAt DEF PutInPlace
      <4>3. NthOfTime(events, m) = NthOfTime(file, k)
        BY <3>1, SortedKeepsOrder
      <4> QED
        BY <4>1, <4>2, <4>3
    <3> QED
      BY <2>1, <3>1, <3>2, <3>3 DEF TimeThenFileOrder
  <2> QED
    BY <2>3, <2>4
<1> QED
  BY <1>1, FileInvariant, PTL

(***************************************************************************)
(* What the files say of the book                                          *)
(***************************************************************************)

\* The event gives the order a size.
Sizes(ev, id) == ev.id = id /\ ev.type \in {"Add", "Modify"}

\* The shares an order has are those that the last of the first n events to
\* size it gave it, less the trades since.
Explains(rows, evs, n, id, size) ==
  \E l \in 1 .. n :
    /\ Sizes(evs[l], id)
    /\ \A k \in 1 .. n : k > l => ~Sizes(evs[k], id)
    /\ size = evs[l].quantity - Sold(rows, id, l)

\* An event that does not size the order leaves its account as it is.
LEMMA ExplainsOn ==
  ASSUME NEW rows, NEW evs, NEW n \in Nat, NEW id, NEW size,
         Explains(rows, evs, n, id, size), ~Sizes(evs[n + 1], id)
  PROVE  Explains(rows, evs, n + 1, id, size)
<1>1. PICK l \in 1 .. n : /\ Sizes(evs[l], id)
                          /\ \A k \in 1 .. n : k > l => ~Sizes(evs[k], id)
                          /\ size = evs[l].quantity - Sold(rows, id, l)
  BY DEF Explains
<1>2. l \in 1 .. n + 1 /\ \A k \in 1 .. n + 1 : k > l => ~Sizes(evs[k], id)
  BY <1>1
<1> QED
  BY <1>1, <1>2 DEF Explains

\* One that does starts a new account.
LEMMA ExplainsNew ==
  ASSUME NEW rows, NEW evs, NEW n \in Nat, NEW id, TradeRowsUpTo(rows, n),
         Sizes(evs[n + 1], id), evs[n + 1].quantity \in Int
  PROVE  Explains(rows, evs, n + 1, id, evs[n + 1].quantity)
<1>1. Sold(rows, id, n + 1) = 0
  BY SoldBefore
<1>2. n + 1 \in 1 .. n + 1 /\ \A k \in 1 .. n + 1 : ~(k > n + 1)
  OBVIOUS
<1>3. evs[n + 1].quantity = evs[n + 1].quantity - Sold(rows, id, n + 1)
  BY <1>1
<1> QED
  BY <1>2, <1>3 DEF Explains

\* The events that size an order carry sizes.
SizesInt(evs, n) ==
  \A l \in 1 .. n : evs[l].type \in {"Add", "Modify"} => evs[l].quantity \in Int

\* A trade is taken off the accounts of its two orders.
LEMMA ExplainsFill ==
  ASSUME NEW rows, NEW evs, NEW n \in Nat, NEW id, NEW size,
         Explains(rows, evs, n, id, size), TradeRowsUpTo(rows, n), SizesInt(evs, n),
         NEW r, NEW more, Extends(rows, r, more), r.trade.quantity \in Int, r.seq = n - 1
  PROVE  Explains(more, evs, n, id,
                  IF id \in {r.trade.aggressor_id, r.trade.resting_id}
                  THEN size - r.trade.quantity ELSE size)
<1>1. PICK l \in 1 .. n : /\ Sizes(evs[l], id)
                          /\ \A k \in 1 .. n : k > l => ~Sizes(evs[k], id)
                          /\ size = evs[l].quantity - Sold(rows, id, l)
  BY DEF Explains
<1> DEFINE sold == Sold(rows, id, l)
           later == Sold(more, id, l)
           q == evs[l].quantity
           t == r.trade.quantity
<1>2. r.seq >= l - 1 /\ q \in Int
  BY <1>1 DEF Sizes, SizesInt
<1>3. /\ sold \in Int
      /\ later = IF id \in {r.trade.aggressor_id, r.trade.resting_id}
                 THEN sold + t ELSE sold
  BY <1>2, SoldExtends
<1>4. size = q - sold /\ t \in Int
  BY <1>1
<1> HIDE DEF sold, later, q, t
<1>5. (IF id \in {r.trade.aggressor_id, r.trade.resting_id} THEN size - t ELSE size)
        = q - later
  BY <1>2, <1>3, <1>4
<1> QED
  BY <1>1, <1>5 DEF Explains, later, q, t

\* The account is what FromFiles reads.
LEMMA ExplainsReads ==
  ASSUME event = NoEvent, NEW id, NEW size, seq \in Nat,
         Explains(trade_rows, events, seq, id, size)
  PROVE  size = FromFiles(id)
<1>1. PICK l \in 1 .. seq : /\ Sizes(events[l], id)
                            /\ \A k \in 1 .. seq : k > l => ~Sizes(events[k], id)
                            /\ size = events[l].quantity - Sold(trade_rows, id, l)
  BY DEF Explains
<1> DEFINE sized == {k \in 1 .. seq : events[k].id = id /\ events[k].type \in {"Add", "Modify"}}
<1>2. l \in sized /\ \A k \in sized : k \in Int /\ l >= k
  BY <1>1 DEF Sizes
<1> HIDE DEF sized
<1>3. Max(sized) = l
  <2>1. \A x \in sized : (\A y \in sized : x >= y) => x = l
    BY <1>2
  <2> QED
    BY <1>2, <2>1 DEF Max
<1> DEFINE Since(last) ==
             {k \in DOMAIN trade_rows :
                /\ trade_rows[k].seq >= last - 1
                /\ id \in {trade_rows[k].trade.aggressor_id, trade_rows[k].trade.resting_id}}
<1>4. FromFiles(id) = events[Max(sized)].quantity
                      - SumFunction([k \in Since(Max(sized)) |-> trade_rows[k].trade.quantity])
  BY DEF FromFiles, sized
<1>5. Sold(trade_rows, id, l) = SumFunction([k \in Since(l) |-> trade_rows[k].trade.quantity])
  BY DEF Sold, TradesSince
<1> QED
  BY <1>1, <1>3, <1>4, <1>5

\* Every resting order, and the one being matched if it may rest, is accounted
\* for.
SizesPart ==
  /\ \A id \in DOMAIN book.locations :
       Explains(AllRows, events, Begun, id, find(book, id).quantity)
  /\ pc = "match" /\ order.type = "Limit" =>
       Explains(AllRows, events, Begun, order.id, remaining)

\* The orders of one book have the sizes that they have in another.
SizesKept(b, after, ids) ==
  \A id \in ids : id \in DOMAIN b.locations /\ find(after, id).quantity = find(b, id).quantity

\* What a fill does to the sizes in the book.
LEMMA FillSizes ==
  ASSUME Proved!IInv, NEW front \in Order, NEW fill \in Nat \ {0}, Fills(front, fill)
  PROVE  /\ SizesKept(book, book', DOMAIN book'.locations \ {front.id})
         /\ front.id \in DOMAIN book'.locations =>
              find(book', front.id).quantity = find(book, front.id).quantity - fill
         /\ front.id \in DOMAIN book.locations
<1>1. Consistent(book) /\ Counts(book)
  BY SameInvariant
<1>2. /\ front.id \in DOMAIN book.locations /\ find(book, front.id) = front
      /\ fill <= front.quantity /\ front.quantity \in Nat \ {0}
  BY DEF Fills, contains, Order
<1>3. book' = IF fill = front.quantity THEN cancel_order(book, front.id)
              ELSE modify_order(book, front.id, front.price, front.quantity - fill)
  BY SameOperations DEF Fills, Proved!AfterFill
<1>4. CASE fill = front.quantity
  <2>1. book' = cancel_order(book, front.id)
    BY <1>3, <1>4
  <2>2. /\ DOMAIN book'.locations = DOMAIN book.locations \ {front.id}
    BY <1>2, <2>1, CancelLocations
  <2>3. \A other \in DOMAIN book.locations :
           other # front.id => find(book', other) = find(book, other)
    BY <1>1, <1>2, <2>1, CancelFindsOthers
  <2> QED
    BY <1>2, <2>2, <2>3 DEF SizesKept
<1>5. CASE fill # front.quantity
  <2> DEFINE left == front.quantity - fill
  <2>1. left \in Nat \ {0} /\ left <= front.quantity /\ ~(left <= 0)
    BY <1>2, <1>5
  <2>2. front.price = book.locations[front.id].price
    BY <1>1, <1>2, FindResting
  <2>3. book' = modify_order(book, front.id, front.price, left)
    BY <1>3, <1>5
  <2> HIDE DEF left
  <2>4. book' = Reduced(book, front.id, left)
    BY <1>2, <2>1, <2>2, <2>3 DEF modify_order, contains
  <2>5. DOMAIN book'.locations = DOMAIN book.locations
    BY <2>4 DEF Reduced
  <2>6. /\ find(book', front.id) = [find(book, front.id) EXCEPT !.quantity = left]
        /\ \A other \in DOMAIN book.locations : other # front.id =>
              find(book', other) = find(book, other)
    BY <1>1, <1>2, <2>1, <2>4, ReducedFindsAll
  <2>7. find(book', front.id).quantity = left
    BY <1>2, <2>6 DEF Order
  <2> QED
    BY <1>2, <2>5, <2>6, <2>7 DEF SizesKept, left
<1> QED
  BY <1>4, <1>5

\* A fill is on the accounts of its two orders.
LEMMA FillStepSizes ==
  ASSUME FilePart, Proved!IInv, Proved!IInv', TradesPart, SizesPart,
         [FileNext]_file_vars, MatchOn, Engine!Fill
  PROVE  SizesPart'
<1>1. PICK front, fill, r :
           /\ front \in Order /\ fill \in Nat \ {0}
           /\ Fills(front, fill)
           /\ r.seq = seq
           /\ r.trade.aggressor_id = order.id /\ r.trade.resting_id = front.id
           /\ r.trade.quantity = fill
           /\ Extends(AllRows, r, AllRows')
  BY FillRows DEF TradesPart
<1>2. PICK rows, more, n : rows = AllRows /\ more = AllRows' /\ n = Begun
  OBVIOUS
<1>3. /\ event # NoEvent /\ events' = events /\ pc = "match" /\ order' = order
      /\ pc' = "match" /\ remaining' = remaining - fill
  BY <1>1 DEF MatchOn, Match, Engine!Fill, Fills
<1>4. n \in Nat /\ n = seq + 1 /\ r.seq = n - 1 /\ Begun' = n
  <2>1. ~DispatchNext
    BY <1>3, NextEvent
  <2>2. seq \in Nat
    BY DEF FilePart
  <2> QED
    BY <1>1, <1>2, <1>3, <2>1, <2>2, BegunRises DEF Begun
<1>5. TradeRowsUpTo(rows, n) /\ SizesInt(events, n)
  <2>1. TradeRowsUpTo(rows, n)
    BY <1>2 DEF TradesPart
  <2>2. ASSUME NEW l \in 1 .. n, events[l].type \in {"Add", "Modify"}
        PROVE  events[l].quantity \in Int
    <3>1. l \in 1 .. Len(events) /\ events \in Seq(RowEvents)
      BY <1>3, <1>4, LenProperties DEF FilePart
    <3>2. events[l] \in RowEvents
      BY <3>1, ElementOfSeq
    <3> QED
      BY <2>2, <3>2, RowEventSizes
  <2> QED
    BY <2>1, <2>2 DEF SizesInt
<1>6. ASSUME NEW id, NEW size, Explains(rows, events, n, id, size)
      PROVE  Explains(more, events, n, id,
                      IF id \in {order.id, front.id} THEN size - fill ELSE size)
  <2>1. Extends(rows, r, more) /\ r.trade.quantity \in Int
    BY <1>1, <1>2
  <2>2. Explains(more, events, n, id,
                 IF id \in {r.trade.aggressor_id, r.trade.resting_id}
                 THEN size - r.trade.quantity ELSE size)
    BY <1>4, <1>5, <1>6, <2>1, ExplainsFill
  <2> QED
    BY <1>1, <2>2
<1>7. ASSUME NEW id \in DOMAIN book'.locations
      PROVE  Explains(more, events, n, id, find(book', id).quantity)
  <2>1. id \in DOMAIN book.locations
    BY <1>1, FillSizes DEF SizesKept
  <2>2. PICK size : size = find(book, id).quantity
    OBVIOUS
  <2>3. Explains(rows, events, n, id, size)
    BY <1>2, <2>1, <2>2 DEF SizesPart
  <2>4. id # order.id
    BY <1>3, <2>1, SameInvariant DEF Engine!TypeOK, Engine!contains
  <2>5. find(book', id).quantity = IF id \in {order.id, front.id} THEN size - fill ELSE size
    BY <1>1, <2>2, <2>4, FillSizes DEF SizesKept
  <2> QED
    BY <1>6, <2>3, <2>5
<1>8. ASSUME order.type = "Limit"
      PROVE  Explains(more, events, n, order.id, remaining')
  <2>1. PICK size : size = remaining
    OBVIOUS
  <2>2. Explains(rows, events, n, order.id, size)
    BY <1>2, <1>3, <1>8, <2>1 DEF SizesPart
  <2>3. remaining' = IF order.id \in {order.id, front.id} THEN size - fill ELSE size
    BY <1>3, <2>1
  <2> QED
    BY <1>6, <2>2, <2>3
<1> QED
  BY <1>2, <1>3, <1>4, <1>7, <1>8 DEF SizesPart

\* What rests of a limit order at the end of its match has its account.
LEMMA RestStepSizes ==
  ASSUME FilePart, Proved!IInv, TradesPart, SizesPart,
         [FileNext]_file_vars, MatchOn, Engine!Finish
  PROVE  SizesPart'
<1>1. event # NoEvent /\ events' = events /\ pc = "match" /\ pc' = "idle"
  BY DEF MatchOn, Match, Engine!Finish
<1>2. AllRows' = AllRows
  BY <1>1, RowsStand DEF TradesPart, Engine!Fill
<1>3. Begun' = Begun
  BY <1>1, BegunRises, NextEvent
<1>4. Consistent(book) /\ order \in Engine!Aggressor /\ remaining \in Nat
      /\ ~contains(book, order.id)
  BY <1>1, SameInvariant DEF Engine!TypeOK, Engine!contains, contains, Engine!Aggressor
<1>5. ASSUME NEW id \in DOMAIN book'.locations
      PROVE  Explains(AllRows, events, Begun, id, find(book', id).quantity)
  <2>1. CASE ~Engine!Rests(order, remaining)
    <3>1. book' = book
      BY <2>1 DEF Engine!Finish
    <3> QED
      BY <1>5, <3>1 DEF SizesPart
  <2>2. CASE Engine!Rests(order, remaining)
    <3> DEFINE rest == Engine!RestingPart(order, remaining)
    <3>1. order.type = "Limit" /\ remaining \in Nat \ {0}
      BY <1>4, <2>2 DEF Engine!Rests
    <3>2. rest \in Order /\ rest.id = order.id /\ rest.quantity = remaining
      BY <1>4, <3>1 DEF Engine!RestingPart, Engine!Aggressor, Order, Engine!Sides, Sides
    <3>3. book' = insert_order(book, rest)
      BY <2>2, SameOperations DEF Engine!Finish
    <3> HIDE DEF rest
    <3>4. ~contains(book, rest.id)
      BY <1>4, <3>2
    <3>5. DOMAIN book'.locations = DOMAIN book.locations \cup {rest.id}
      BY <3>3, <3>4 DEF insert_order, contains, Emplace, Put
    <3>6. /\ find(book', rest.id) = rest
          /\ \A other \in DOMAIN book.locations : find(book', other) = find(book, other)
      BY <1>4, <3>2, <3>3, <3>4, InsertFinds
    <3>7. CASE id = rest.id
      BY <1>1, <3>1, <3>2, <3>6, <3>7 DEF SizesPart
    <3>8. CASE id # rest.id
      BY <1>5, <3>5, <3>6, <3>8 DEF SizesPart
    <3> QED
      BY <3>7, <3>8
  <2> QED
    BY <2>1, <2>2
<1> QED
  BY <1>1, <1>2, <1>3, <1>5 DEF SizesPart

\* The books before and after an event is begun, order by order.
SizesOn(ev, b, after) ==
  \A id \in DOMAIN after.locations :
    \/ /\ ~Sizes(ev, id) /\ id \in DOMAIN b.locations
       /\ find(after, id).quantity = find(b, id).quantity
    \/ Sizes(ev, id) /\ find(after, id).quantity = ev.quantity

\* Beginning an event leaves the accounts of the others, and the orders it
\* sizes have the size it names.
LEMMA BegunSizes ==
  ASSUME FilePart, Proved!IInv, TradesPart, SizesPart, [FileNext]_file_vars, DispatchNext,
         NEW ev, ev = events[seq + 1],
         SizesOn(ev, book, book'),
         pc' = "match" /\ order'.type = "Limit" =>
           Sizes(ev, order'.id) /\ remaining' = ev.quantity
  PROVE  SizesPart'
<1>1. /\ event = NoEvent /\ ev \in RowEvents /\ events' = events
  BY NextEvent DEF DispatchNext
<1>2. AllRows' = AllRows
  BY <1>1, RowsStand DEF TradesPart, MatchOn, Match
<1>3. PICK rows, n : rows = AllRows /\ n = Begun
  OBVIOUS
<1>4. n \in Nat /\ n = seq /\ Begun' = n + 1 /\ TradeRowsUpTo(rows, n) /\ ev = events[n + 1]
  BY <1>1, <1>3, BegunRises DEF Begun, TradesPart
<1>5. ASSUME NEW id, Sizes(ev, id)
      PROVE  Explains(rows, events, n + 1, id, ev.quantity)
  <2>1. ev.quantity \in Int
    BY <1>1, <1>5, RowEventSizes DEF Sizes
  <2> QED
    BY <1>4, <1>5, <2>1, ExplainsNew
<1>6. ASSUME NEW id, NEW size, ~Sizes(ev, id), Explains(rows, events, n, id, size)
      PROVE  Explains(rows, events, n + 1, id, size)
  BY <1>4, <1>6, ExplainsOn
<1>7. ASSUME NEW id \in DOMAIN book'.locations
      PROVE  Explains(rows, events, n + 1, id, find(book', id).quantity)
  <2>1. CASE Sizes(ev, id) /\ find(book', id).quantity = ev.quantity
    BY <1>5, <2>1
  <2>2. CASE /\ ~Sizes(ev, id) /\ id \in DOMAIN book.locations
             /\ find(book', id).quantity = find(book, id).quantity
    <3>1. PICK size : size = find(book, id).quantity
      OBVIOUS
    <3>2. Explains(rows, events, n, id, size)
      BY <1>3, <2>2, <3>1 DEF SizesPart
    <3> QED
      BY <1>6, <2>2, <3>1, <3>2
  <2> QED
    BY <2>1, <2>2 DEF SizesOn
<1>8. pc' = "match" /\ order'.type = "Limit" =>
        Explains(rows, events, n + 1, order'.id, remaining')
  BY <1>5
<1> QED
  BY <1>1, <1>2, <1>3, <1>4, <1>7, <1>8 DEF SizesPart

LEMMA DispatchStepSizes ==
  ASSUME FilePart, Proved!IInv, TradesPart, SizesPart, [FileNext]_file_vars, DispatchNext
  PROVE  SizesPart'
<1>1. PICK ev : ev = events[seq + 1]
  OBVIOUS
<1>2. PICK did : did = Untimed(ev)
  OBVIOUS
<1>3. ev \in RowEvents /\ did \in Events /\ Dispatch(did)
  BY <1>1, <1>2, NextEvent
<1>4. /\ did.type = ev.type /\ did.id = ev.id
      /\ ev.type \in {"Add", "Market"} => AsOrder(did).quantity = ev.quantity
      /\ ev.type = "Modify" => did.quantity = ev.quantity
      /\ ev.type \in {"Add", "Modify"} => ev.quantity \in Int /\ ev.quantity > 0
  BY <1>2, <1>3, RowEventSizes DEF Untimed, AsOrder
<1>5. Consistent(book)
  BY SameInvariant
<1>6. ASSUME Engine!Submit(AsOrder(did)), did.type \in {"Add", "Market"}
      PROVE  SizesPart'
  <2>1. /\ book' = book /\ ~contains(book, ev.id) /\ order' = AsOrder(did)
        /\ remaining' = ev.quantity /\ order'.id = ev.id
    BY <1>4, <1>6, SameOperations DEF Engine!Submit, Engine!StartMatch, AsOrder
  <2>2. SizesOn(ev, book, book')
    BY <2>1 DEF SizesOn, Sizes, contains
  <2>3. order'.type = "Limit" => Sizes(ev, order'.id) /\ remaining' = ev.quantity
    BY <1>4, <1>6, <2>1 DEF Sizes, AsOrder
  <2> QED
    BY <1>1, <2>2, <2>3, BegunSizes
<1>7. ASSUME Engine!Cancel(did.id), did.type = "Cancel"
      PROVE  SizesPart'
  <2>1. book' = cancel_order(book, ev.id) /\ pc' = "idle"
    BY <1>4, <1>7, SameOperations DEF Engine!Cancel
  <2>2. \A id : ~Sizes(ev, id)
    BY <1>4, <1>7 DEF Sizes
  <2>3. CASE ev.id \notin DOMAIN book.locations
    <3>1. book' = book
      BY <2>1, <2>3 DEF cancel_order, contains
    <3> QED
      BY <1>1, <2>1, <2>2, <3>1, BegunSizes DEF SizesOn
  <2>4. CASE ev.id \in DOMAIN book.locations
    <3>1. DOMAIN book'.locations = DOMAIN book.locations \ {ev.id}
      BY <2>1, <2>4 DEF cancel_order, contains, Without
    <3>2. \A other \in DOMAIN book.locations :
             other # ev.id => find(book', other) = find(book, other)
      BY <1>5, <2>1, <2>4, CancelFindsOthers
    <3>3. SizesOn(ev, book, book')
      BY <2>2, <3>1, <3>2 DEF SizesOn
    <3> QED
      BY <1>1, <2>1, <3>3, BegunSizes
  <2> QED
    BY <2>3, <2>4
<1>8. ASSUME Engine!Modify(did.id, did.price, did.quantity), did.type = "Modify"
      PROVE  SizesPart'
  <2> DEFINE id == ev.id
             q == ev.quantity
  <2>1. q \in Nat \ {0} /\ did.quantity = q /\ did.id = id /\ ~(q <= 0)
    BY <1>4, <1>8
  <2>2. \A other : Sizes(ev, other) <=> other = id
    BY <1>4, <1>8 DEF Sizes
  <2>3. CASE Engine!ModifyNothing(id, q)
    <3>1. book' = book /\ ~contains(book, id) /\ pc' = pc /\ pc = "idle"
      BY <1>8, <2>1, <2>3, SameOperations DEF Engine!ModifyNothing, Engine!Modify
    <3>2. SizesOn(ev, book, book')
      BY <2>2, <3>1 DEF SizesOn, contains
    <3> QED
      BY <1>1, <3>1, <3>2, BegunSizes
  <2>4. CASE Engine!ModifyInPlace(id, did.price, q)
    <3>1. /\ id \in DOMAIN book.locations /\ did.price = find(book, id).price
          /\ q <= find(book, id).quantity /\ book' = modify_order(book, id, did.price, q)
          /\ pc' = pc /\ pc = "idle"
      BY <1>8, <2>4, SameOperations DEF Engine!ModifyInPlace, Engine!Modify, contains
    <3>2. did.price = book.locations[id].price /\ find(book, id) \in Order
      BY <1>5, <3>1, FindResting
    <3> HIDE DEF id, q
    <3>3. book' = Reduced(book, id, q)
      BY <2>1, <3>1, <3>2 DEF modify_order, contains
    <3>4. DOMAIN book'.locations = DOMAIN book.locations
      BY <3>3 DEF Reduced
    <3>5. /\ find(book', id) = [find(book, id) EXCEPT !.quantity = q]
          /\ \A other \in DOMAIN book.locations : other # id =>
                find(book', other) = find(book, other)
      BY <1>5, <2>1, <3>1, <3>3, ReducedFindsAll
    <3>6. find(book', id).quantity = q
      BY <3>2, <3>5 DEF Order
    <3>7. SizesOn(ev, book, book')
      BY <2>2, <3>4, <3>5, <3>6 DEF SizesOn, q
    <3> QED
      BY <1>1, <3>1, <3>7, BegunSizes
  <2>5. CASE Engine!ModifyAsNew(id, did.price, q)
    <3>1. /\ id \in DOMAIN book.locations /\ book' = cancel_order(book, id)
          /\ order'.id = id /\ remaining' = q
      BY <2>5, SameOperations DEF Engine!ModifyAsNew, Engine!StartMatch, contains
    <3>2. DOMAIN book'.locations = DOMAIN book.locations \ {id}
      BY <3>1 DEF cancel_order, contains, Without
    <3>3. \A other \in DOMAIN book.locations :
             other # id => find(book', other) = find(book, other)
      BY <1>5, <3>1, CancelFindsOthers
    <3>4. SizesOn(ev, book, book')
      BY <2>2, <3>2, <3>3 DEF SizesOn
    <3> QED
      BY <1>1, <2>2, <3>1, <3>4, BegunSizes
  <2> QED
    BY <1>8, <2>1, <2>3, <2>4, <2>5 DEF Engine!Modify
<1> QED
  BY <1>3, <1>6, <1>7, <1>8 DEF Dispatch

\* A step of any kind keeps the accounts.
LEMMA FileStepSizes ==
  ASSUME FilePart, Proved!IInv, Proved!IInv', TradesPart, SizesPart, [FileNext]_file_vars
  PROVE  SizesPart'
<1>1. CASE DispatchNext
  BY <1>1, DispatchStepSizes
<1>2. CASE MatchOn
  BY <1>2, FillStepSizes, RestStepSizes DEF MatchOn, Match
<1>3. CASE Sort
  <2>1. Begun = 0
    BY <1>3 DEF Begun, Sort, FilePart
  <2>2. \A id, size : ~Explains(AllRows, events, Begun, id, size)
    BY <2>1 DEF Explains
  <2>3. DOMAIN book.locations = {} /\ ~(pc = "match" /\ order.type = "Limit")
    BY <2>2 DEF SizesPart
  <2>4. book' = book /\ pc' = pc /\ order' = order
    BY <1>3 DEF Sort, vars, engine
  <2> QED
    BY <2>3, <2>4 DEF SizesPart
<1>4. CASE Read \/ Abort \/ EmitRows \/ Finish \/ UNCHANGED file_vars
  <2>1. UNCHANGED <<book, pc, order, remaining, events>>
    BY <1>4 DEF Read, Abort, EmitRows, Emit, Finish, file_vars, vars, engine
  <2>2. ~DispatchNext /\ ~(MatchOn /\ Engine!Fill)
    <3>1. CASE EmitRows
      <4>1. event # NoEvent /\ event' = NoEvent /\ pc = "idle"
        BY <3>1 DEF EmitRows, Emit
      <4> QED
        BY <4>1, NextEvent DEF Engine!Fill
    <3>2. CASE Read \/ Abort \/ Finish \/ UNCHANGED file_vars
      <4>1. UNCHANGED <<event, remaining, executed_volume, trades>>
        BY <3>2 DEF Read, Abort, Finish, file_vars, vars, engine
      <4>2. ~DispatchNext
        BY <4>1, NextEvent
      <4>3. ~(MatchOn /\ Engine!Fill)
        <5>1. ASSUME MatchOn, Engine!Fill PROVE FALSE
          <6>1. PICK front \in Order, fill \in Nat \ {0} : Fills(front, fill)
            BY <5>1, FillRows DEF TradesPart
          <6> QED
            BY <4>1, <6>1, SameInvariant DEF Fills, Engine!TypeOK
        <5> QED
          BY <5>1
      <4> QED
        BY <4>2, <4>3
    <3> QED
      BY <1>4, <3>1, <3>2
  <2>3. AllRows' = AllRows /\ Begun' = Begun
    BY <2>2, RowsStand, BegunRises DEF TradesPart
  <2> QED
    BY <2>1, <2>3 DEF SizesPart
<1> QED
  BY <1>1, <1>2, <1>3, <1>4 DEF FileNext

\* However an order trades, on either side and in however many parts, and
\* however often it is resized or repriced in between, what rests of it is
\* what the rows of the files leave it.
THEOREM ReplayIsToldByItsFiles == FileSpec => []FilesExplainTheBook
<1>1. FileInit => SizesPart
  <2>1. ASSUME FileInit PROVE SizesPart
    <3>1. book = EmptyBook /\ pc = "idle"
      BY <2>1, SameOperations DEF FileInit, Init, Engine!Init
    <3>2. DOMAIN book.locations = {}
      BY <3>1 DEF EmptyBook
    <3> QED
      BY <3>1, <3>2 DEF SizesPart
  <2> QED
    BY <2>1
<1>2. /\ FileInv /\ Proved!IInv /\ Proved!IInv' /\ SizesPart /\ [FileNext]_file_vars
      => SizesPart'
  BY FileStepSizes DEF FileInv
<1>3. FileInv /\ SizesPart => FilesExplainTheBook
  <2> SUFFICES ASSUME FileInv, SizesPart, event = NoEvent, NEW id \in DOMAIN book.locations
               PROVE  find(book, id).quantity = FromFiles(id)
    BY DEF FilesExplainTheBook
  <2>1. PICK size : size = find(book, id).quantity
    OBVIOUS
  <2>2. AllRows = trade_rows /\ Begun = seq /\ seq \in Nat
    BY DEF AllRows, Begun, FileInv, FilePart
  <2>3. Explains(trade_rows, events, seq, id, size)
    BY <2>1, <2>2 DEF SizesPart
  <2> QED
    BY <2>1, <2>2, <2>3, ExplainsReads
<1> QED
  BY <1>1, <1>2, <1>3, FileInvariant, PTL DEF FileSpec

(***************************************************************************)
(* The rows of a file                                                      *)
(***************************************************************************)

\* A line is well formed exactly when parse finds no fault with its fields,
\* and the fields it reads are those of the line.
LEMMA FieldsOfLine ==
  ASSUME NEW line \in Lines, line # <<>>
  PROVE  LET f == split_csv(line)
         IN /\ Len(f) \in Nat
            /\ Len(f) >= 6 <=> Len(line) > 6 \/ (Len(line) = 6 /\ line[6] # Blank)
            /\ Len(f) >= 6 => \A k \in 1 .. 6 : f[k] = line[k]
<1>1. line \in Seq(STRING) /\ line # <<Blank>>
  BY LinesAssumption
<1>2. Len(line) \in Nat \ {0} /\ DOMAIN line = 1 .. Len(line)
  BY <1>1, LenProperties, EmptySeq
<1>3. CASE line[Len(line)] # Blank
  <2>1. split_csv(line) = line
    BY <1>2, <1>3 DEF split_csv, Last
  <2> QED
    BY <1>2, <1>3, <2>1
<1>4. CASE line[Len(line)] = Blank
  <2>1. split_csv(line) = SubSeq(line, 1, Len(line) - 1)
    BY <1>2, <1>4 DEF split_csv, Last, Front
  <2>2. PICK f : f = split_csv(line)
    OBVIOUS
  <2>3. /\ Len(f) \in Nat /\ Len(f) = Len(line) - 1
        /\ \A k \in 1 .. Len(line) - 1 : f[k] = line[k]
    BY <1>1, <1>2, <2>1, <2>2
  <2>4. Len(f) >= 6 <=> Len(line) > 6
    BY <1>2, <2>3
  <2>5. Len(line) = 6 => line[6] = Blank
    BY <1>4
  <2>6. Len(f) >= 6 => \A k \in 1 .. 6 : f[k] = line[k]
    BY <1>2, <2>3
  <2> QED
    BY <2>2, <2>3, <2>4, <2>5, <2>6
<1> QED
  BY <1>3, <1>4

LEMMA WellFormedRows ==
  ASSUME NEW line \in Lines, line # <<>>
  PROVE  /\ Parse!WellFormed(line) <=> RowFault(split_csv(line)) = "none"
         /\ Parse!WellFormed(line) => AsEvent(split_csv(line)) = AsEvent(line)
<1> DEFINE f == split_csv(line)
<1>1. /\ Len(f) \in Nat
      /\ Len(f) >= 6 <=> Len(line) > 6 \/ (Len(line) = 6 /\ line[6] # Blank)
      /\ Len(f) >= 6 => \A k \in 1 .. 6 : f[k] = line[k]
  BY FieldsOfLine
<1>2. \A text : Parse!Number(text) <=> ReadsInt(text)
  BY Zenon DEF Parse!Number, ReadsInt, Parse!LongLong, LongLong, Parse!Blank, Blank
<1>3. \A text : Parse!Positive(text) <=> ReadsInt(text) /\ ~(parse_int(text) <= 0)
  <2>1. Parse!Blank = Blank
    BY Zenon DEF Parse!Blank, Blank
  <2>2. ASSUME NEW text, ReadsInt(text), text # Blank
        PROVE  Numerals[text] > 0 <=> ~(Numerals[text] <= 0)
    <3>1. Numerals[text] \in Int
      BY <2>2, HalfRangeAssumption DEF ReadsInt, LongLong
    <3> QED
      BY <3>1
  <2> QED
    BY <1>2, <2>1, <2>2 DEF Parse!Positive, parse_int
<1> HIDE DEF f
<1>4. Parse!WellFormed(line) <=>
        /\ Len(f) >= 6
        /\ ReadsInt(f[1]) /\ ReadsInt(f[3]) /\ ReadsInt(f[5])
        /\ f[4] \in {"B", "S"}
        /\ \/ f[2] = "CANCEL" /\ ReadsInt(f[6])
           \/ /\ f[2] \in {"ADD", "MODIFY", "MARKET"}
              /\ ReadsInt(f[6]) /\ ~(parse_int(f[6]) <= 0)
  <2>1. Parse!Blank = Blank
    BY Zenon DEF Parse!Blank, Blank
  <2> QED
    BY <1>1, <1>2, <1>3, <2>1 DEF Parse!WellFormed
<1>5. Len(f) < 6 <=> ~(Len(f) >= 6)
  BY <1>1
<1>6. RowFault(f) = "none" <=>
        /\ Len(f) >= 6
        /\ ReadsInt(f[1]) /\ ReadsInt(f[3]) /\ ReadsInt(f[5])
        /\ f[4] \in {"B", "S"}
        /\ \/ f[2] = "CANCEL" /\ ReadsInt(f[6])
           \/ /\ f[2] \in {"ADD", "MODIFY", "MARKET"}
              /\ ReadsInt(f[6]) /\ ~(parse_int(f[6]) <= 0)
  BY <1>5 DEF RowFault, QuantityNeeded, EventTypes, SideNames
<1> QED
  BY <1>1, <1>4, <1>6 DEF f, AsEvent

\* Line k of the lines is a row: it is not blank, and not a header in front.
IsRowAt(ls, k) ==
  ls[k] # <<>> /\ ~(ls[k][1] \in HeaderFields /\ \A j \in 1 .. k - 1 : ls[j] = <<>>)

\* It is a row with no fault.
IsEventAt(ls, k) == IsRowAt(ls, k) /\ Parse!WellFormed(ls[k])

EventLines(ls, n) == {k \in 1 .. n : IsEventAt(ls, k)}

\* The rows that a file is said to have are those.
LEMMA RowLinesAre ==
  ASSUME NEW n \in Nat, DOMAIN lines = 1 .. n
  PROVE  Parse!RowLines = {k \in 1 .. n : IsRowAt(lines, k)}
<1> DEFINE text == {k \in 1 .. n : lines[k] # <<>>}
<1>1. ASSUME NEW k \in text
      PROVE  k = Parse!Min(text) <=> \A j \in 1 .. k - 1 : lines[j] = <<>>
  <2>1. text \in SUBSET Nat /\ text # {} /\ \A j \in text : j \in Int
    OBVIOUS
  <2>2. PICK m \in text : \A j \in text : m <= j
    BY <2>1, LeastNatural
  <2>3. Parse!Min(text) = m
    <3>1. \A x \in text : (\A y \in text : x <= y) => x = m
      BY <2>1, <2>2
    <3> HIDE DEF text
    <3> QED
      BY <2>2, <3>1 DEF Parse!Min
  <2>4. k = m <=> \A j \in 1 .. k - 1 : j \notin text
    BY <2>1, <2>2
  <2> QED
    BY <2>3, <2>4
<1>2. Parse!RowLines = {k \in text : ~(k = Parse!Min(text) /\ lines[k][1] \in HeaderFields)}
  BY DEF Parse!RowLines
<1> QED
  BY <1>1, <1>2 DEF IsRowAt

\* One more line says nothing of those before it.
LEMMA LineAppends ==
  ASSUME NEW ls, NEW line, NEW more, Extends(ls, line, more), NEW n \in Nat, Len(ls) = n
  PROVE  /\ \A k \in 1 .. n : IsRowAt(more, k) <=> IsRowAt(ls, k)
         /\ \A k \in 1 .. n : IsEventAt(more, k) <=> IsEventAt(ls, k)
         /\ IsRowAt(more, n + 1) <=>
              line # <<>> /\ ~(line[1] \in HeaderFields /\ \A j \in 1 .. n : ls[j] = <<>>)
         /\ IsEventAt(more, n + 1) <=> IsRowAt(more, n + 1) /\ Parse!WellFormed(line)
<1>1. more[n + 1] = line /\ \A k \in 1 .. n : more[k] = ls[k]
  BY DEF Extends
<1>2. ASSUME NEW k \in 1 .. n
      PROVE  IsRowAt(more, k) <=> IsRowAt(ls, k)
  <2>1. \A j \in 1 .. k - 1 : more[j] = ls[j]
    BY <1>1
  <2> QED
    BY <1>1, <2>1 DEF IsRowAt
<1>3. IsRowAt(more, n + 1) <=>
        line # <<>> /\ ~(line[1] \in HeaderFields /\ \A j \in 1 .. n : ls[j] = <<>>)
  <2>1. n + 1 - 1 = n
    OBVIOUS
  <2> QED
    BY <1>1, <2>1 DEF IsRowAt
<1> QED
  BY <1>1, <1>2, <1>3 DEF IsEventAt

\* The events so far are those of the first n lines, in order.
EventsOf(ls, n, evs) ==
  /\ Len(evs) = Cardinality(EventLines(ls, n))
  /\ \A k \in 1 .. n : IsEventAt(ls, k) =>
       evs[Cardinality(EventLines(ls, k))] = AsEvent(ls[k])

LEMMA EventLinesCount ==
  ASSUME NEW ls, NEW n \in Nat
  PROVE  /\ IsFiniteSet(EventLines(ls, n)) /\ Cardinality(EventLines(ls, n)) \in Nat
         /\ n + 1 \notin EventLines(ls, n)
         /\ \A k \in 1 .. n : IsEventAt(ls, k) =>
              Cardinality(EventLines(ls, k)) \in 1 .. Cardinality(EventLines(ls, n))
<1>1. \A m \in Nat : IsFiniteSet(EventLines(ls, m)) /\ Cardinality(EventLines(ls, m)) \in Nat
  <2> TAKE m \in Nat
  <2>1. IsFiniteSet(1 .. m)
    BY FS_Interval
  <2>2. EventLines(ls, m) \in SUBSET (1 .. m)
    BY DEF EventLines
  <2> QED
    BY <2>1, <2>2, FS_Subset, FS_CardinalityType
<1>2. ASSUME NEW k \in 1 .. n, IsEventAt(ls, k)
      PROVE  Cardinality(EventLines(ls, k)) \in 1 .. Cardinality(EventLines(ls, n))
  <2>1. k \in EventLines(ls, k) /\ EventLines(ls, k) \in SUBSET EventLines(ls, n)
    BY <1>2 DEF EventLines
  <2>2. /\ IsFiniteSet(EventLines(ls, k)) /\ Cardinality(EventLines(ls, k)) \in Nat
        /\ IsFiniteSet(EventLines(ls, n)) /\ Cardinality(EventLines(ls, n)) \in Nat
    BY <1>1
  <2>3. Cardinality(EventLines(ls, k)) <= Cardinality(EventLines(ls, n))
    BY <2>1, <2>2, FS_Subset
  <2>4. Cardinality(EventLines(ls, k)) # 0
    BY <2>1, <2>2, FS_EmptySet
  <2> QED
    BY <2>2, <2>3, <2>4
<1>3. n + 1 \notin EventLines(ls, n)
  BY DEF EventLines
<1> QED
  BY <1>1, <1>2, <1>3

\* A line that is no row leaves the events as they are, a row adds its own.
LEMMA EventsOfOn ==
  ASSUME NEW ls, NEW line, NEW more, Extends(ls, line, more), NEW n \in Nat, Len(ls) = n,
         NEW evs, EventsOf(ls, n, evs), NEW evs2,
         IF IsEventAt(more, n + 1) THEN Extends(evs, AsEvent(line), evs2) ELSE evs2 = evs
  PROVE  EventsOf(more, n + 1, evs2)
<1>1. more[n + 1] = line /\ \A k \in 1 .. n : more[k] = ls[k]
  BY DEF Extends
<1>2. \A k \in 1 .. n : IsEventAt(more, k) <=> IsEventAt(ls, k)
  BY LineAppends
<1>3. \A k \in 1 .. n : EventLines(more, k) = EventLines(ls, k)
  BY <1>2 DEF EventLines
<1>4. EventLines(more, n) = EventLines(ls, n)
  BY <1>2 DEF EventLines
<1>5. EventLines(more, n + 1) = IF IsEventAt(more, n + 1)
                                THEN EventLines(more, n) \cup {n + 1}
                                ELSE EventLines(more, n)
  BY DEF EventLines
<1>6. Len(evs) = Cardinality(EventLines(ls, n)) /\ Len(evs) \in Nat
  BY EventLinesCount DEF EventsOf
<1>7. CASE ~IsEventAt(more, n + 1)
  <2>1. Len(evs) = Cardinality(EventLines(more, n + 1))
    BY <1>4, <1>5, <1>6, <1>7
  <2>2. ASSUME NEW k \in 1 .. n + 1, IsEventAt(more, k)
        PROVE  evs[Cardinality(EventLines(more, k))] = AsEvent(more[k])
    <3>1. k \in 1 .. n
      BY <1>7, <2>2
    <3> QED
      BY <1>1, <1>2, <1>3, <2>2, <3>1 DEF EventsOf
  <2> QED
    BY <1>7, <2>1, <2>2 DEF EventsOf
<1>8. CASE IsEventAt(more, n + 1)
  <2>1. Extends(evs, AsEvent(line), evs2)
    BY <1>8
  <2>2. /\ IsFiniteSet(EventLines(more, n)) /\ n + 1 \notin EventLines(more, n)
    BY EventLinesCount
  <2>3. Cardinality(EventLines(more, n + 1)) = Cardinality(EventLines(more, n)) + 1
    BY <1>5, <1>8, <2>2, FS_AddElement
  <2>4. Cardinality(EventLines(more, n + 1)) = Len(evs) + 1
    BY <1>4, <1>6, <2>3
  <2>5. ASSUME NEW k \in 1 .. n + 1, IsEventAt(more, k)
        PROVE  evs2[Cardinality(EventLines(more, k))] = AsEvent(more[k])
    <3>1. CASE k \in 1 .. n
      <4>1. IsEventAt(ls, k) /\ EventLines(more, k) = EventLines(ls, k)
        BY <1>2, <1>3, <2>5, <3>1
      <4>2. Cardinality(EventLines(ls, k)) \in 1 .. Len(evs)
        BY <1>6, <3>1, <4>1, EventLinesCount
      <4>3. evs[Cardinality(EventLines(ls, k))] = AsEvent(ls[k])
        BY <3>1, <4>1 DEF EventsOf
      <4> QED
        BY <1>1, <2>1, <3>1, <4>1, <4>2, <4>3 DEF Extends
    <3>2. CASE k = n + 1
      <4>1. evs2[Len(evs) + 1] = AsEvent(line)
        BY <2>1 DEF Extends
      <4> QED
        BY <1>1, <2>4, <3>2, <4>1
    <3> QED
      BY <3>1, <3>2
  <2>6. Len(evs2) = Cardinality(EventLines(more, n + 1))
    BY <2>1, <2>4 DEF Extends
  <2> QED
    BY <2>5, <2>6 DEF EventsOf
<1> QED
  BY <1>7, <1>8

\* What a file's rows are, in these terms: `bad` is the row that was refused.
RowsAre(ls, n, evs, bad) ==
  /\ EventsOf(ls, n, evs)
  /\ {k \in 1 .. n : IsRowAt(ls, k) /\ ~Parse!WellFormed(ls[k])} = bad

LEMMA FileRowsAre ==
  ASSUME NEW n \in Nat, DOMAIN lines = 1 .. n, Len(lines) = n, line_no = n,
         RowsAre(lines, n, file, IF status = "thrown" THEN {line_no} ELSE {})
  PROVE  Parse!EventsAreTheRows
<1>1. Parse!RowLines = {k \in 1 .. n : IsRowAt(lines, k)}
  BY RowLinesAre
<1>2. {k \in Parse!RowLines : Parse!WellFormed(lines[k])} = EventLines(lines, n)
  BY <1>1 DEF EventLines, IsEventAt
<1>3. Parse!RowLines \ EventLines(lines, n)
        = {k \in 1 .. n : IsRowAt(lines, k) /\ ~Parse!WellFormed(lines[k])}
  BY <1>1 DEF EventLines, IsEventAt
<1>4. \A k \in EventLines(lines, n) :
         /\ k \in 1 .. n /\ IsEventAt(lines, k)
         /\ {j \in EventLines(lines, n) : j <= k} = EventLines(lines, k)
  BY DEF EventLines
<1>5. \A k \in EventLines(lines, n) :
         file[Cardinality({j \in EventLines(lines, n) : j <= k})] = AsEvent(lines[k])
  BY <1>4 DEF RowsAre, EventsOf
<1>6. Len(file) = Cardinality(EventLines(lines, n))
  BY DEF RowsAre, EventsOf
<1>7. \A f : Parse!AsEvent(f) = AsEvent(f)
  BY SameRows
<1> DEFINE sound == {k \in Parse!RowLines : Parse!WellFormed(lines[k])}
           At(k) == Cardinality({j \in sound : j <= k})
<1>8. /\ Len(file) = Cardinality(sound)
      /\ Parse!RowLines \ sound = IF status = "thrown" THEN {line_no} ELSE {}
  <2>1. sound = EventLines(lines, n)
    BY <1>2
  <2> HIDE DEF sound
  <2> QED
    BY <1>3, <1>6, <2>1 DEF RowsAre
<1>9. \A k \in sound : file[At(k)] = Parse!AsEvent(lines[k])
  <2>1. sound = EventLines(lines, n)
    BY <1>2
  <2> HIDE DEF sound
  <2> QED
    BY <1>5, <1>7, <2>1
<1>10. line_no = Len(lines)
  OBVIOUS
<1>11. \A S : Parse!Cardinality(S) = Cardinality(S)
  BY DEF Parse!Cardinality, Cardinality
<1> QED
  BY Zenon, <1>8, <1>9, <1>10, <1>11 DEF Parse!EventsAreTheRows

\* An event is within the types of the program's, and has a size if it needs
\* one.
Sound(ev) == ev \in Parse!ParsedEvent /\ (ev.type = "Cancel" \/ ev.quantity > 0)

LEMMA RowEventTyped ==
  ASSUME NEW f, RowFault(f) = "none"
  PROVE  Sound(AsEvent(f))
<1>1. /\ ReadsInt(f[1]) /\ ReadsInt(f[3]) /\ ReadsInt(f[5]) /\ ReadsInt(f[6])
      /\ f[4] \in {"B", "S"} /\ f[2] \in {"ADD", "CANCEL", "MODIFY", "MARKET"}
      /\ f[2] # "CANCEL" => ~(parse_int(f[6]) <= 0)
  BY DEF RowFault, QuantityNeeded, EventTypes, SideNames
<1>2. ASSUME NEW text, ReadsInt(text)
      PROVE  parse_int(text) \in LongLong /\ parse_int(text) \in Int
  BY <1>2, HalfRangeAssumption DEF ReadsInt, parse_int, LongLong
<1>3. \A k \in {1, 3, 5, 6} : parse_int(f[k]) \in LongLong /\ parse_int(f[k]) \in Int
  BY <1>1, <1>2
<1>4. parse_int(f[3]) % (2 * HalfRange) \in 0 .. 2 * HalfRange - 1
  <2>1. 2 * HalfRange \in Nat \ {0} /\ parse_int(f[3]) \in Int
    BY <1>3, HalfRangeAssumption
  <2>2. PICK m \in Nat \ {0}, x \in Int : m = 2 * HalfRange /\ x = parse_int(f[3])
    BY <2>1
  <2>3. x % m \in 0 .. m - 1
    BY <2>2
  <2> QED
    BY <2>2, <2>3
<1>5. /\ EventTypes[f[2]] \in {"Add", "Cancel", "Modify", "Market"}
      /\ EventTypes[f[2]] = "Cancel" \/ f[2] # "CANCEL"
      /\ SideNames[f[4]] \in {"Buy", "Sell"}
  BY <1>1 DEF EventTypes, SideNames
<1>6. f[2] # "CANCEL" => parse_int(f[6]) > 0
  BY <1>1, <1>3
<1>7. Parse!LongLong = LongLong
  BY DEF Parse!LongLong, LongLong
<1> QED
  BY <1>3, <1>4, <1>5, <1>6, <1>7 DEF Sound, AsEvent, Parse!ParsedEvent

\* The lines are read one after the other, and the flag is up once there was
\* one that is not blank.
ParsePart ==
  /\ lines \in Seq(Lines) /\ Len(lines) = line_no /\ line_no \in 0 .. MaxLines
  /\ checked_header \in BOOLEAN
  /\ checked_header <=> \E k \in 1 .. line_no : lines[k] # <<>>
  /\ \A k \in DOMAIN file : Sound(file[k])
  /\ status \in {"parsing", "returned", "thrown"}
  /\ status = "thrown" <=> fault # "none"
  /\ RowsAre(lines, line_no, file, IF status = "thrown" THEN {line_no} ELSE {})

\* What a line makes of the file so far.
LineRead(line) ==
  /\ lines' = Append(lines, line) /\ line_no' = line_no + 1
  /\ checked_header' = (checked_header \/ line # <<>>)
  /\ IF line = <<>> \/ Parse!IsHeader(line)
     THEN UNCHANGED <<file, status, fault>>
     ELSE /\ fault' = RowFault(split_csv(line))
          /\ IF fault' = "none"
             THEN file' = Append(file, AsEvent(split_csv(line))) /\ status' = status
             ELSE file' = file /\ status' = "thrown"

LEMMA ReadSteps ==
  ASSUME ParsePart, Read
  PROVE  /\ status = "parsing" /\ fault = "none"
         /\ \/ \E line \in Lines : LineRead(line) /\ line_no < MaxLines
            \/ /\ status' = "returned"
               /\ UNCHANGED <<lines, line_no, checked_header, file, fault>>
<1>1. /\ \A line : Parse!split_csv(line) = split_csv(line)
      /\ \A f : Parse!RowFault(f) = RowFault(f)
      /\ \A f : Parse!AsEvent(f) = AsEvent(f)
  BY SameRows
<1>2. ASSUME NEW line \in Lines, Parse!BlankLine(line)
      PROVE  LineRead(line) /\ status = "parsing" /\ line_no < MaxLines
  BY <1>2 DEF Parse!BlankLine, Parse!NextLine, LineRead, ParsePart
<1>3. ASSUME NEW line \in Lines, Parse!HeaderLine(line)
      PROVE  LineRead(line) /\ status = "parsing" /\ line_no < MaxLines
  BY <1>3 DEF Parse!HeaderLine, Parse!NextLine, LineRead
<1>4. ASSUME NEW line \in Lines, Parse!Row(line)
      PROVE  LineRead(line) /\ status = "parsing" /\ line_no < MaxLines
  BY <1>1, <1>4 DEF Parse!Row, Parse!NextLine, LineRead
<1>5. CASE Parse!EndOfFile
  BY <1>5 DEF Parse!EndOfFile, ParsePart
<1>6. CASE \E line \in Lines : Parse!BlankLine(line) \/ Parse!HeaderLine(line) \/ Parse!Row(line)
  BY <1>2, <1>3, <1>4, <1>6 DEF ParsePart
<1> QED
  BY <1>5, <1>6 DEF Read, Parse!Next

LEMMA LineKeepsParse ==
  ASSUME ParsePart, file \in Seq(RowEvents), status = "parsing", fault = "none",
         NEW line \in Lines, LineRead(line), line_no < MaxLines
  PROVE  ParsePart'
<1> DEFINE f == split_csv(line)
<1>1. PICK n \in Nat : n = line_no
  BY DEF ParsePart
<1>2. PICK more, evs : more = lines' /\ evs = file'
  OBVIOUS
<1>3. IsRows(lines) /\ IsRows(file) /\ Len(lines) = n /\ DOMAIN lines = 1 .. n
  <2>1. /\ lines = [k \in 1 .. Len(lines) |-> lines[k]]
        /\ file = [k \in 1 .. Len(file) |-> file[k]]
        /\ Len(lines) \in Nat /\ Len(file) \in Nat
    BY LenProperties DEF ParsePart
  <2> QED
    BY <1>1, <2>1, LenProperties DEF IsRows, ParsePart
<1>4. Extends(lines, line, more)
  BY <1>2, <1>3, RowAppends DEF LineRead
<1>5. /\ n + 1 \in 0 .. MaxLines /\ line_no' = n + 1 /\ Len(more) = n + 1
      /\ more \in Seq(Lines)
  <2>1. Append(lines, line) \in Seq(Lines)
    BY AppendProperties DEF ParsePart
  <2>2. MaxLines \in Int /\ n < MaxLines
    <3>1. MaxLines \in Int
      BY MaxLinesAssumption
    <3> QED
      BY <1>1, <3>1
  <2>3. line_no' = n + 1 /\ more = Append(lines, line)
    BY <1>1, <1>2 DEF LineRead
  <2>4. Len(more) = n + 1
    BY <1>3, <1>4 DEF Extends
  <2>5. n + 1 \in 0 .. MaxLines
    BY <2>2
  <2> QED
    BY <2>1, <2>3, <2>4, <2>5
<1>6. checked_header' <=> \E k \in 1 .. n + 1 : more[k] # <<>>
  <2>1. more[n + 1] = line /\ \A k \in 1 .. n : more[k] = lines[k]
    BY <1>3, <1>4 DEF Extends
  <2>2. checked_header <=> \E k \in 1 .. n : lines[k] # <<>>
    BY <1>1 DEF ParsePart
  <2>3. checked_header' <=> checked_header \/ line # <<>>
    BY DEF LineRead, ParsePart
  <2>4. \A k \in 1 .. n + 1 : k \in 1 .. n \/ k = n + 1
    OBVIOUS
  <2>5. \A k \in 1 .. n : k \in 1 .. n + 1
    OBVIOUS
  <2> QED
    BY <2>1, <2>2, <2>3, <2>4, <2>5
<1>7. /\ \A k \in 1 .. n : IsRowAt(more, k) <=> IsRowAt(lines, k)
      /\ \A k \in 1 .. n : more[k] = lines[k]
      /\ more[n + 1] = line
      /\ IsRowAt(more, n + 1) <=> ~(line = <<>> \/ Parse!IsHeader(line))
      /\ IsEventAt(more, n + 1) <=> IsRowAt(more, n + 1) /\ Parse!WellFormed(line)
  <2>1. checked_header <=> \E k \in 1 .. n : lines[k] # <<>>
    BY <1>1 DEF ParsePart
  <2> QED
    BY <1>3, <1>4, <2>1, LineAppends DEF Extends, Parse!IsHeader
<1>8. {k \in 1 .. n : IsRowAt(lines, k) /\ ~Parse!WellFormed(lines[k])} = {}
      /\ EventsOf(lines, n, file)
  BY <1>1 DEF ParsePart, RowsAre
<1>9. {k \in 1 .. n + 1 : IsRowAt(more, k) /\ ~Parse!WellFormed(more[k])}
        = IF IsRowAt(more, n + 1) /\ ~Parse!WellFormed(line) THEN {n + 1} ELSE {}
  BY <1>7, <1>8
<1>10. CASE line = <<>> \/ Parse!IsHeader(line)
  <2>1. evs = file /\ status' = status /\ fault' = fault
    BY <1>2, <1>10 DEF LineRead
  <2>2. EventsOf(more, n + 1, evs)
    BY <1>3, <1>4, <1>7, <1>8, <1>10, <2>1, EventsOfOn
  <2>3. RowsAre(more, n + 1, evs, {})
    BY <1>7, <1>9, <1>10, <2>2 DEF RowsAre
  <2> QED
    BY <1>2, <1>5, <1>6, <2>1, <2>3 DEF ParsePart, LineRead
<1>11. CASE ~(line = <<>> \/ Parse!IsHeader(line))
  <2>1. /\ Parse!WellFormed(line) <=> RowFault(f) = "none"
        /\ Parse!WellFormed(line) => AsEvent(f) = AsEvent(line)
    BY <1>11, WellFormedRows
  <2>2. fault' = RowFault(f) /\ IsRowAt(more, n + 1)
    BY <1>7, <1>11 DEF LineRead
  <2>3. CASE RowFault(f) = "none"
    <3>1. evs = Append(file, AsEvent(f)) /\ status' = status
      BY <1>2, <1>11, <2>2, <2>3 DEF LineRead
    <3>2. PICK ev : ev = AsEvent(f)
      OBVIOUS
    <3>3. Extends(file, ev, evs) /\ ev = AsEvent(line) /\ Sound(ev)
      BY <1>3, <2>1, <2>3, <3>1, <3>2, RowAppends, RowEventTyped
    <3>4. EventsOf(more, n + 1, evs)
      BY <1>3, <1>4, <1>7, <1>8, <2>1, <2>2, <2>3, <3>3, EventsOfOn
    <3>5. RowsAre(more, n + 1, evs, {})
      BY <1>9, <2>1, <2>3, <3>4 DEF RowsAre
    <3>6. \A k \in DOMAIN evs : Sound(evs[k])
      BY <3>3 DEF Extends, ParsePart
    <3> QED
      BY <1>2, <1>5, <1>6, <2>2, <2>3, <3>1, <3>5, <3>6 DEF ParsePart, LineRead
  <2>4. CASE RowFault(f) # "none"
    <3>1. evs = file /\ status' = "thrown"
      BY <1>2, <1>11, <2>2, <2>4 DEF LineRead
    <3>2. EventsOf(more, n + 1, evs)
      BY <1>3, <1>4, <1>7, <1>8, <2>1, <2>4, <3>1, EventsOfOn
    <3>3. RowsAre(more, n + 1, evs, {n + 1})
      BY <1>9, <2>1, <2>2, <2>4, <3>2 DEF RowsAre
    <3> QED
      BY <1>2, <1>5, <1>6, <2>2, <2>4, <3>1, <3>3 DEF ParsePart, LineRead
  <2> QED
    BY <2>3, <2>4
<1> QED
  BY <1>10, <1>11

\* Whatever mix of blank lines, headers and rows a file is, and wherever its
\* first malformed row is, the events are the rows before it, in order and
\* each once, and the number in the message is that row's.
THEOREM ReplayReadsTheRows == FileSpec => []EventsAreTheRows
<1>1. FileInit => ParsePart
  <2>1. ASSUME FileInit PROVE ParsePart
    <3>1. /\ lines = <<>> /\ line_no = 0 /\ ~checked_header /\ file = <<>>
          /\ checked_header \in BOOLEAN /\ status = "parsing" /\ fault = "none"
      BY <2>1 DEF FileInit, Parse!Init
    <3>2. /\ <<>> \in Seq(Lines) /\ Len(<<>>) = 0 /\ DOMAIN <<>> = {} /\ 1 .. 0 = {}
          /\ 0 \in 0 .. MaxLines
      BY MaxLinesAssumption, MaxEventsAssumption
    <3>3. EventLines(lines, 0) = {}
      BY DEF EventLines
    <3>4. RowsAre(lines, 0, file, {})
      BY <3>1, <3>2, <3>3, FS_EmptySet DEF RowsAre, EventsOf
    <3> QED
      BY <3>1, <3>2, <3>4 DEF ParsePart
  <2> QED
    BY <2>1
<1>2. FileInv /\ ParsePart /\ [FileNext]_file_vars => ParsePart'
  <2> SUFFICES ASSUME FileInv, ParsePart, [FileNext]_file_vars PROVE ParsePart'
    OBVIOUS
  <2>1. CASE Read
    <3>1. CASE \E line \in Lines : LineRead(line) /\ line_no < MaxLines
      BY <2>1, <3>1, ReadSteps, LineKeepsParse DEF FileInv, FilePart
    <3>2. CASE /\ status' = "returned" /\ status = "parsing"
               /\ UNCHANGED <<lines, line_no, checked_header, file, fault>>
      BY <3>2 DEF ParsePart
    <3> QED
      BY <2>1, <3>1, <3>2, ReadSteps
  <2>2. CASE ~Read
    <3>1. UNCHANGED parse
      BY <2>2 DEF FileNext, Sort, Abort, DispatchNext, MatchOn, EmitRows, Finish, file_vars
    <3> QED
      BY <3>1 DEF parse, ParsePart
  <2> QED
    BY <2>1, <2>2
<1>3. ParsePart => Parse!TypeOK /\ Parse!EventsAreTheRows
  <2> SUFFICES ASSUME ParsePart PROVE Parse!TypeOK /\ Parse!EventsAreTheRows
    OBVIOUS
  <2>1. Parse!TypeOK
    BY DEF ParsePart, Parse!TypeOK, Sound
  <2>2. DOMAIN lines = 1 .. line_no /\ line_no \in Nat /\ Len(lines) = line_no
    BY LenProperties DEF ParsePart
  <2>3. RowsAre(lines, line_no, file, IF status = "thrown" THEN {line_no} ELSE {})
    BY DEF ParsePart
  <2> QED
    BY <2>1, <2>2, <2>3, FileRowsAre
<1> QED
  BY <1>1, <1>2, <1>3, FileInvariant, PTL DEF FileSpec, EventsAreTheRows
=============================================================================
