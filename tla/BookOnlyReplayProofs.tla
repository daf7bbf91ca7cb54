------------------------- MODULE BookOnlyReplayProofs -------------------------
(***************************************************************************)
(* The replay of a matched stream implements OrderBook whatever the stream *)
(* holds, as the tests that stand before each call are enough.  And its    *)
(* rows are one event behind the book: what the imbalance remembers, and   *)
(* the best levels of the last row, are those of the book before the event *)
(* that is being processed, so that a signal is the change of one event.   *)
(***************************************************************************)
EXTENDS BookOnlyReplay, BookLemmas, TLAPS

\* The operations of the instance are those that the replay calls.
LEMMA SameOperations ==
  /\ Book!EmptyBook = EmptyBook
  /\ \A id : Book!contains(book, id) <=> contains(book, id)
  /\ \A order : Book!insert_order(book, order) = insert_order(book, order)
  /\ \A id : Book!cancel_order(book, id) = cancel_order(book, id)
  /\ \A id, price, quantity :
       Book!modify_order(book, id, price, quantity)
         = modify_order(book, id, price, quantity)
<1>1. Book!EmptyBook = EmptyBook
  BY DEF EmptyBook, Book!EmptyBook, NoLevels, Book!NoLevels, EmptyLevel,
         Book!EmptyLevel, Sides, Book!Sides
<1>2. ASSUME NEW id PROVE Book!contains(book, id) <=> contains(book, id)
  BY DEF contains, Book!contains
<1>3. ASSUME NEW order PROVE Book!insert_order(book, order) = insert_order(book, order)
  BY DEF insert_order, Book!insert_order, WithLevel, Book!WithLevel, Put,
         Book!Put, Emplace, Book!Emplace, LevelAt, Book!LevelAt, EmptyLevel,
         Book!EmptyLevel, LevelAdd, Book!LevelAdd
<1>4. ASSUME NEW id PROVE Book!cancel_order(book, id) = cancel_order(book, id)
  BY DEF cancel_order, Book!cancel_order, contains, Book!contains, LeftLevel,
         Book!LeftLevel, LevelCancel, Book!LevelCancel, HasOrder, Book!HasOrder,
         Positions, Book!Positions, PositionOf, Book!PositionOf, FindInLevel,
         Book!FindInLevel, RemoveAt, Book!RemoveAt, Without, Book!Without,
         WithLevel, Book!WithLevel, Put, Book!Put
<1>5. ASSUME NEW id, NEW price, NEW quantity
      PROVE  Book!modify_order(book, id, price, quantity)
               = modify_order(book, id, price, quantity)
  BY DEF modify_order, Book!modify_order, find, Book!find, Reduced,
         Book!Reduced, LevelReduce, Book!LevelReduce, CanReduce, Book!CanReduce,
         Repriced, Book!Repriced, insert_order, Book!insert_order, WithLevel,
         Book!WithLevel, Put, Book!Put, Emplace, Book!Emplace, LevelAt,
         Book!LevelAt, EmptyLevel, Book!EmptyLevel, LevelAdd, Book!LevelAdd,
         cancel_order, Book!cancel_order, contains, Book!contains, LeftLevel,
         Book!LeftLevel, LevelCancel, Book!LevelCancel, HasOrder, Book!HasOrder,
         Positions, Book!Positions, PositionOf, Book!PositionOf, FindInLevel,
         Book!FindInLevel, RemoveAt, Book!RemoveAt, Without, Book!Without
<1> QED
  BY <1>1, <1>2, <1>3, <1>4, <1>5

\* An event is a call that the book's precondition allows, or changes nothing.
LEMMA ApplyIsACall ==
  ASSUME NEW ev \in Events, Apply(ev)
  PROVE  [Book!Next]_book
<1>1. book' = Applied(book, ev)
  BY DEF Apply
<1>2. ev.type \in {"Add", "Cancel", "Modify", "Market"} /\ ev.id \in OrderIds
  BY DEF Events
<1>3. CASE ev.type = "Add"
  <2>1. ev.side \in Sides /\ ev.price \in Prices /\ ev.quantity \in ModifySizes
    BY <1>3 DEF Events
  <2>2. CASE ev.quantity > 0 /\ ~contains(book, ev.id)
    <3>1. ev.quantity \in Quantities
      BY <2>1, <2>2 DEF ModifySizes
    <3>2. book' = insert_order(book, AsOrder(ev))
      BY <1>1, <1>3, <2>2 DEF Applied
    <3>3. Book!add_limit_order([id |-> ev.id, side |-> ev.side, price |-> ev.price,
                                quantity |-> ev.quantity])
      BY <2>2, <3>2, SameOperations DEF Book!add_limit_order, AsOrder
    <3> QED
      BY <1>2, <2>1, <3>1, <3>3 DEF Book!Next, Book!Sides, Sides
  <2>3. CASE ~(ev.quantity > 0 /\ ~contains(book, ev.id))
    BY <1>1, <1>3, <2>3 DEF Applied
  <2> QED
    BY <2>2, <2>3
<1>4. CASE ev.type = "Cancel"
  <2>1. Book!Cancel(ev.id)
    BY <1>1, <1>4, SameOperations DEF Applied, Book!Cancel
  <2> QED
    BY <1>2, <2>1 DEF Book!Next
<1>5. CASE ev.type = "Modify"
  <2>1. ev.price \in Prices /\ ev.quantity \in ModifySizes
    BY <1>5 DEF Events
  <2>2. Book!Modify(ev.id, ev.price, ev.quantity)
    BY <1>1, <1>5, SameOperations DEF Applied, Book!Modify
  <2> QED
    BY <1>2, <2>1, <2>2 DEF Book!Next, Book!ModifySizes, ModifySizes
<1>6. CASE ev.type = "Market"
  BY <1>1, <1>6 DEF Applied
<1> QED
  BY <1>2, <1>3, <1>4, <1>5, <1>6

\* No stream makes the replay misuse the book.
THEOREM ReplayRespectsBook == Spec => RespectsBook
<1>1. Init => Book!Init
  BY SameOperations DEF Init, Book!Init
<1>2. [Next]_vars => [Book!Next]_book
  <2> SUFFICES ASSUME [Next]_vars PROVE [Book!Next]_book
    OBVIOUS
  <2>1. ASSUME NEW ev \in Events, Apply(ev) PROVE [Book!Next]_book
    BY <2>1, ApplyIsACall
  <2>2. CASE Emit
    BY <2>2 DEF Emit
  <2>3. CASE UNCHANGED vars
    BY <2>3 DEF vars
  <2> QED
    BY <2>1, <2>2, <2>3 DEF Next
<1> QED
  BY <1>1, <1>2, PTL DEF Spec, RespectsBook, Book!Spec

(***************************************************************************)
(* The book and the rows                                                   *)
(***************************************************************************)

\* The fields that an event's handler reads.
LEMMA EventFields ==
  ASSUME NEW ev \in Events
  PROVE  /\ ev.type \in {"Add", "Cancel", "Modify", "Market"} /\ ev.id \in OrderIds
         /\ ev.type \in {"Add", "Modify"} =>
              /\ ev.side \in Sides /\ ev.price \in Prices
              /\ ev.quantity \in Nat
<1>1. /\ ev.type \in {"Add", "Cancel", "Modify", "Market"} /\ ev.id \in OrderIds
      /\ ev.type \in {"Add", "Modify"} =>
           /\ ev.side \in Sides /\ ev.price \in Prices
           /\ ev.quantity \in ModifySizes
  BY DEF Events
<1>2. ModifySizes \subseteq Nat
  BY QuantitiesAssumption DEF ModifySizes
<1> QED
  BY <1>1, <1>2

\* An event leaves the book sound.
LEMMA AppliedSound ==
  ASSUME NEW b, Consistent(b), Counts(b), NEW ev \in Events
  PROVE  Consistent(Applied(b, ev)) /\ Counts(Applied(b, ev))
<1>1. ev.type \in {"Add", "Cancel", "Modify", "Market"} /\ ev.id \in OrderIds
  BY EventFields
<1>2. CASE ev.type = "Add" /\ ev.quantity > 0 /\ ~contains(b, ev.id)
  <2>1. ev.side \in Sides /\ ev.price \in Prices /\ ev.quantity \in Nat \ {0}
    BY <1>2, EventFields
  <2>2. AsOrder(ev) \in Order /\ AsOrder(ev).id = ev.id
    BY <1>1, <2>1 DEF AsOrder, Order
  <2>3. Applied(b, ev) = insert_order(b, AsOrder(ev))
    BY <1>2 DEF Applied
  <2> QED
    BY <1>2, <2>2, <2>3, InsertConsistent, InsertCounts
<1>3. CASE ev.type = "Cancel"
  <2>1. Applied(b, ev) = cancel_order(b, ev.id)
    BY <1>3 DEF Applied
  <2>2. CASE ev.id \in DOMAIN b.locations
    BY <2>1, <2>2, CancelConsistent, CancelCounts
  <2>3. CASE ev.id \notin DOMAIN b.locations
    BY <2>1, <2>3 DEF cancel_order, contains
  <2> QED
    BY <2>2, <2>3
<1>4. CASE ev.type = "Modify"
  <2>1. ev.price \in Prices /\ ev.quantity \in Int
    BY <1>4, EventFields
  <2>2. Applied(b, ev) = modify_order(b, ev.id, ev.price, ev.quantity)
    BY <1>4 DEF Applied
  <2> QED
    BY <2>1, <2>2, ModifyConsistent, ModifyCounts
<1>5. CASE Applied(b, ev) = b
  BY <1>5
<1> QED
  BY <1>1, <1>2, <1>3, <1>4, <1>5 DEF Applied

\* An ADD makes its side grow, or is refused, and leaves the other side alone.
LEMMA AddGrows ==
  ASSUME NEW b, Consistent(b), NEW ev \in Events, ev.type = "Add"
  PROVE  /\ ev.side \in Sides
         /\ Grows(b, Applied(b, ev), ev.side)
         /\ \A side \in Sides : side # ev.side =>
              Grows(b, Applied(b, ev), side) /\ Grows(Applied(b, ev), b, side)
<1>1. ev.id \in OrderIds /\ ev.side \in Sides /\ ev.price \in Prices
  BY EventFields
<1>2. \A side \in Sides : Grows(b, b, side)
  BY DEF Grows, Consistent, WellTyped, Level
<1>3. CASE ev.quantity > 0 /\ ~contains(b, ev.id)
  <2>1. ev.quantity \in Nat \ {0}
    BY <1>3, EventFields
  <2>2. AsOrder(ev) \in Order /\ AsOrder(ev).side = ev.side
    BY <1>1, <2>1 DEF AsOrder, Order
  <2>3. Applied(b, ev) = insert_order(b, AsOrder(ev))
    BY <1>3 DEF Applied
  <2>4. /\ Grows(b, Applied(b, ev), ev.side)
        /\ \A side \in Sides : side # ev.side =>
             Applied(b, ev).levels[side] = b.levels[side]
    BY <2>2, <2>3, InsertGrows
  <2> QED
    BY <1>1, <1>2, <2>4 DEF Grows
<1>4. CASE ~(ev.quantity > 0 /\ ~contains(b, ev.id))
  <2>1. Applied(b, ev) = b
    BY <1>4 DEF Applied
  <2> QED
    BY <1>1, <1>2, <2>1
<1> QED
  BY <1>3, <1>4

\* The tracked levels of both sides.
LEMMA TrackedTops ==
  ASSUME NEW b, Consistent(b), Counts(b), NEW side \in Sides
  PROVE  TopOf(extract_levels(b, side), b, side, levels)
<1>1. extract_levels(b, side) = TopLevels(b, side, levels)
  BY DEF extract_levels, TopLevels
<1> QED
  BY <1>1, TrackedAssumption, TopsRead

\* The row's best levels are the first tracked ones, through other accessors.
LEMMA TouchIsFirst ==
  ASSUME NEW b, Consistent(b), Counts(b), NEW side \in Sides
  PROVE  Touch(b, side) = IF DOMAIN extract_levels(b, side) = {} THEN <<>>
                          ELSE <<extract_levels(b, side)[1]>>
<1>1. TopOf(extract_levels(b, side), b, side, levels)
  BY TrackedTops
<1>2. DOMAIN extract_levels(b, side) = {} <=> DOMAIN b.levels[side] = {}
  BY <1>1, TrackedAssumption, TopIsBest
<1>3. CASE DOMAIN b.levels[side] = {}
  BY <1>2, <1>3 DEF Touch
<1>4. CASE DOMAIN b.levels[side] # {}
  <2>1. extract_levels(b, side)[1]
          = LET best == CHOOSE price \in DOMAIN b.levels[side] : IsBest(b, side, price)
            IN [price |-> best, quantity |-> b.levels[side][best].total_quantity]
    BY <1>1, <1>4, TrackedAssumption, BestIsTop
  <2> QED
    BY <1>2, <1>4, <2>1 DEF Touch
<1> QED
  BY <1>3, <1>4

\* Between events the imbalance remembers the book as it is, and so does the
\* last row; while an event is processed they are of the book before it.
Remembers(b) ==
  /\ Consistent(b) /\ Counts(b)
  /\ event = NoEvent => book = b
  /\ event # NoEvent => event \in Events /\ book = Applied(b, event)
  /\ prev.bids = extract_levels(b, "Buy")
  /\ prev.asks = extract_levels(b, "Sell")
  /\ l1 = extract_l1(b)

OneBehind == \E b : Remembers(b)

\* An empty book shows nothing, as the imbalance remembers at first.
LEMMA EmptyLadders ==
  ASSUME NEW side \in Sides
  PROVE  extract_levels(EmptyBook, side) = <<>> /\ Touch(EmptyBook, side) = <<>>
<1>1. extract_levels(EmptyBook, side) = TopLevels(EmptyBook, side, levels)
  BY DEF extract_levels, TopLevels
<1>2. DOMAIN EmptyBook.levels[side] = {}
  BY DEF EmptyBook, NoLevels
<1> QED
  BY <1>1, <1>2, TrackedAssumption, NoTops DEF Touch

\* At first what is remembered is the empty book.
LEMMA InitRemembers ==
  ASSUME Init
  PROVE  OneBehind
<1>1. Consistent(EmptyBook) /\ Counts(EmptyBook)
  BY EmptyConsistent, EmptyCounts
<1>2. prev.bids = <<>> /\ prev.asks = <<>> /\ book = EmptyBook /\ event = NoEvent
  BY DEF Init, Ofi!Init, Ofi!NoSnapshot
<1>3. l1 = extract_l1(EmptyBook)
  BY EmptyLadders DEF Init, NoTouch, extract_l1, Sides
<1> QED
  BY <1>1, <1>2, <1>3, EmptyLadders DEF OneBehind, Remembers, Sides

\* The book is sound on either side of the event.
LEMMA BookIsSound ==
  ASSUME OneBehind
  PROVE  Consistent(book) /\ Counts(book)
BY AppliedSound DEF OneBehind, Remembers

\* A row makes what is remembered catch up with the book; an event moves the
\* book one step ahead.
LEMMA StepRemembers ==
  ASSUME OneBehind, [Next]_vars
  PROVE  OneBehind'
<1>1. ASSUME NEW ev \in Events, Apply(ev) PROVE OneBehind'
  <2>1. PICK b : Remembers(b)
    BY DEF OneBehind
  <2>2. /\ event = NoEvent /\ event' = ev /\ book' = Applied(book, ev)
        /\ prev' = prev /\ l1' = l1 /\ ev # NoEvent
    BY <1>1 DEF Apply, Events, NoEvent
  <2>3. Remembers(b)'
    BY <2>1, <2>2 DEF Remembers
  <2> QED
    BY <2>3 DEF OneBehind
<1>2. ASSUME Emit PROVE OneBehind'
  <2>1. Consistent(book) /\ Counts(book)
    BY BookIsSound
  <2>2. /\ event' = NoEvent /\ book' = book /\ l1' = extract_l1(book)
        /\ prev'.bids = extract_levels(book, "Buy")
        /\ prev'.asks = extract_levels(book, "Sell")
    BY <1>2 DEF Emit, Ofi!update, Ofi!Rolled
  <2>3. Remembers(book)'
    BY <2>1, <2>2 DEF Remembers
  <2> QED
    BY <2>3 DEF OneBehind
<1>3. CASE UNCHANGED vars
  BY <1>3 DEF vars, OneBehind, Remembers
<1> QED
  BY <1>1, <1>2, <1>3 DEF Next

\* What is remembered is never more than one event behind.
THEOREM RowsAreOneBehind == Spec => []OneBehind
<1>1. Init => OneBehind
  BY InitRemembers
<1>2. OneBehind /\ [Next]_vars => OneBehind'
  BY StepRemembers
<1> QED
  BY <1>1, <1>2, PTL DEF Spec

\* So the reconstructed book keeps its types, and its index and its queues
\* agree, crossed or not, after every event of any stream.
THEOREM ReconstructedBookStaysConsistent == Spec => []Book!StaysConsistent
<1>1. OneBehind => Book!StaysConsistent
  <2> SUFFICES ASSUME OneBehind PROVE Book!StaysConsistent
    OBVIOUS
  <2>1. WellTyped(book) /\ Agrees(book)
    BY BookIsSound DEF Consistent
  <2> QED
    BY <2>1 DEF Book!StaysConsistent, Book!TypeOK, Book!IndexAgrees,
         Book!WellTyped, WellTyped, Book!Agrees, Agrees, Book!IndexedAreQueued,
         IndexedAreQueued, Book!LevelIndexed, LevelIndexed, Book!OrderIndexed,
         OrderIndexed, Book!NoTwins, NoTwins, Book!Positions, Positions,
         Book!HasOrder, HasOrder, Book!contains, contains, Book!Level, Level,
         Book!Location, Location, Book!Order, Order, Book!Sides, Sides
<1> QED
  BY <1>1, RowsAreOneBehind, PTL

(***************************************************************************)
(* The signal                                                              *)
(***************************************************************************)

\* On a side that an event leaves alone no tracked level moves.
LEMMA SameTops ==
  ASSUME NEW a, NEW b, Consistent(a), Counts(a), Consistent(b), Counts(b),
         NEW side \in Sides, Grows(a, b, side), Grows(b, a, side),
         NEW k \in DOMAIN extract_levels(a, side), k \in DOMAIN extract_levels(b, side)
  PROVE  extract_levels(a, side)[k] = extract_levels(b, side)[k]
BY TrackedTops, TrackedAssumption, TopsStand

\* A level's price and size are integers.
LEMMA TrackedTyped ==
  ASSUME NEW b, Consistent(b), Counts(b), NEW side \in Sides,
         NEW k \in DOMAIN extract_levels(b, side)
  PROVE  /\ extract_levels(b, side)[k].price \in Int
         /\ extract_levels(b, side)[k].quantity \in Nat
BY TrackedTops DEF TopOf

\* A level of a side that grows adds nothing of the other side's sign.
LEMMA GrowingLevel ==
  ASSUME NEW a, NEW b, Consistent(a), Counts(a), Consistent(b), Counts(b),
         NEW side \in Sides, Grows(a, b, side),
         NEW k \in DOMAIN extract_levels(a, side)
  PROVE  LET old == extract_levels(a, side)
             new == extract_levels(b, side)
         IN /\ side = "Buy" => Ofi!bid_e(new[k], old[k]) \in Nat
            /\ side = "Sell" => Ofi!ask_e(new[k], old[k]) \in Nat
<1> DEFINE old == extract_levels(a, side)
           new == extract_levels(b, side)
<1>1. TopOf(old, a, side, levels) /\ TopOf(new, b, side, levels)
  BY TrackedTops
<1> HIDE DEF old, new
<1>2. /\ k \in DOMAIN old /\ k \in DOMAIN new
      /\ ~Better(side, old[k].price, new[k].price)
      /\ old[k].price = new[k].price => old[k].quantity <= new[k].quantity
  BY <1>1, TrackedAssumption, TopsRise DEF old
<1>3. /\ old[k].price \in Int /\ old[k].quantity \in Nat
      /\ new[k].price \in Int /\ new[k].quantity \in Nat
  BY <1>1, <1>2 DEF TopOf
<1>4. CASE side = "Buy"
  BY <1>2, <1>3, <1>4 DEF Better, Ofi!bid_e, old, new
<1>5. CASE side = "Sell"
  BY <1>2, <1>3, <1>5 DEF Better, Ofi!ask_e, old, new
<1> QED
  BY <1>4, <1>5 DEF Sides

\* Equal levels contribute nothing.
LEMMA StillLevel ==
  ASSUME NEW level, level.price \in Int, level.quantity \in Int
  PROVE  Ofi!bid_e(level, level) = 0 /\ Ofi!ask_e(level, level) = 0
BY DEF Ofi!bid_e, Ofi!ask_e

\* The sample of a row, level by level.
LEMMA EmittedSample ==
  ASSUME NEW b, Remembers(b), Emit
  PROVE  /\ Consistent(b) /\ Counts(b) /\ Consistent(book) /\ Counts(book)
         /\ event \in Events /\ book = Applied(b, event)
         /\ \A side \in Sides :
              /\ side = "Buy" => prev.bids = extract_levels(b, side)
                                 /\ prev'.bids = extract_levels(book, side)
              /\ side = "Sell" => prev.asks = extract_levels(b, side)
                                  /\ prev'.asks = extract_levels(book, side)
         /\ l1 = extract_l1(b) /\ l1' = extract_l1(book)
         /\ sample'.per_level = Ofi!PerLevel(prev, prev'.bids, prev'.asks)
<1>1. event # NoEvent /\ l1' = extract_l1(book)
  BY DEF Emit
<1>2. Consistent(book) /\ Counts(book)
  BY BookIsSound DEF OneBehind
<1>3. /\ prev'.bids = extract_levels(book, "Buy")
      /\ prev'.asks = extract_levels(book, "Sell")
      /\ sample' = Ofi!Sample(prev, extract_levels(book, "Buy"), extract_levels(book, "Sell"))
  BY DEF Emit, Ofi!update, Ofi!Rolled
<1>4. sample'.per_level = Ofi!PerLevel(prev, prev'.bids, prev'.asks)
  BY <1>3 DEF Ofi!Sample
<1> QED
  BY <1>1, <1>2, <1>3, <1>4 DEF Remembers, Sides

\* What a level adds is zero unless both snapshots have it on both sides.
LEMMA LevelEntry ==
  ASSUME NEW old, NEW bids, NEW asks, NEW m \in 1 .. levels,
         NEW x, x = Ofi!PerLevel(old, bids, asks)[m],
         x # 0
  PROVE  /\ m \in DOMAIN bids /\ m \in DOMAIN asks
         /\ m \in DOMAIN old.bids /\ m \in DOMAIN old.asks
         /\ x = Ofi!bid_e(bids[m], old.bids[m]) - Ofi!ask_e(asks[m], old.asks[m])
BY DEF Ofi!PerLevel, Ofi!Comparable, Ofi!TwoSided

\* An event that moved no tracked level.
LEMMA StillRow ==
  ASSUME OneBehind, Emit, prev.bids = prev'.bids, prev.asks = prev'.asks
  PROVE  sample'.per_level = [m \in 1 .. levels |-> 0] /\ l1' = l1
<1>1. PICK b : Remembers(b)
  BY DEF OneBehind
<1>2. /\ Consistent(b) /\ Counts(b) /\ Consistent(book) /\ Counts(book)
      /\ prev.bids = extract_levels(b, "Buy") /\ prev.asks = extract_levels(b, "Sell")
      /\ prev'.bids = extract_levels(book, "Buy") /\ prev'.asks = extract_levels(book, "Sell")
      /\ l1 = extract_l1(b) /\ l1' = extract_l1(book)
      /\ sample'.per_level = Ofi!PerLevel(prev, prev'.bids, prev'.asks)
  BY <1>1, EmittedSample DEF Sides
<1>3. ASSUME NEW m \in 1 .. levels, Ofi!PerLevel(prev, prev'.bids, prev'.asks)[m] # 0
      PROVE  FALSE
  <2>1. /\ m \in DOMAIN prev.bids /\ m \in DOMAIN prev.asks
        /\ Ofi!PerLevel(prev, prev'.bids, prev'.asks)[m]
             = Ofi!bid_e(prev.bids[m], prev.bids[m]) - Ofi!ask_e(prev.asks[m], prev.asks[m])
    BY <1>3, LevelEntry
  <2>2. /\ prev.bids[m].price \in Int /\ prev.bids[m].quantity \in Int
        /\ prev.asks[m].price \in Int /\ prev.asks[m].quantity \in Int
    BY <1>2, <2>1, TrackedTyped DEF Sides
  <2>3. /\ Ofi!bid_e(prev.bids[m], prev.bids[m]) = 0
        /\ Ofi!ask_e(prev.asks[m], prev.asks[m]) = 0
    BY <2>2, StillLevel
  <2> QED
    BY <1>3, <2>1, <2>3
<1>4. sample'.per_level = [m \in 1 .. levels |-> 0]
  <2>1. sample'.per_level
          = [m \in 1 .. levels |-> Ofi!PerLevel(prev, prev'.bids, prev'.asks)[m]]
    BY <1>2 DEF Ofi!PerLevel
  <2> QED
    BY <1>3, <2>1
<1>5. Touch(b, "Buy") = Touch(book, "Buy") /\ Touch(b, "Sell") = Touch(book, "Sell")
  BY <1>2, TouchIsFirst DEF Sides
<1> QED
  BY <1>2, <1>4, <1>5 DEF extract_l1

\* An ADD.
LEMMA AddRow ==
  ASSUME OneBehind, Emit, event.type = "Add", NEW m \in 1 .. levels
  PROVE  /\ event.side = "Buy" => sample'.per_level[m] >= 0
         /\ event.side = "Sell" => sample'.per_level[m] <= 0
<1>1. PICK b : Remembers(b)
  BY DEF OneBehind
<1> DEFINE e == sample'.per_level[m]
           old(side) == extract_levels(b, side)
           new(side) == extract_levels(book, side)
<1>2. /\ Consistent(b) /\ Counts(b) /\ Consistent(book) /\ Counts(book)
      /\ event \in Events /\ book = Applied(b, event)
      /\ prev.bids = old("Buy") /\ prev.asks = old("Sell")
      /\ prev'.bids = new("Buy") /\ prev'.asks = new("Sell")
      /\ e = Ofi!PerLevel(prev, prev'.bids, prev'.asks)[m]
  BY <1>1, EmittedSample DEF Sides
<1>3. /\ event.side \in Sides
      /\ Grows(b, book, event.side)
      /\ \A side \in Sides : side # event.side => Grows(b, book, side) /\ Grows(book, b, side)
  BY <1>2, AddGrows
<1> HIDE DEF e, old, new
<1>4. CASE e = 0
  BY <1>4 DEF e
<1>5. CASE e # 0
  <2>1. /\ m \in DOMAIN new("Buy") /\ m \in DOMAIN new("Sell")
        /\ m \in DOMAIN old("Buy") /\ m \in DOMAIN old("Sell")
        /\ e = Ofi!bid_e(new("Buy")[m], old("Buy")[m])
                 - Ofi!ask_e(new("Sell")[m], old("Sell")[m])
    BY <1>2, <1>5, LevelEntry
  <2>2. /\ old("Buy")[m].price \in Int /\ old("Buy")[m].quantity \in Int
        /\ old("Sell")[m].price \in Int /\ old("Sell")[m].quantity \in Int
    BY <1>2, <2>1, TrackedTyped DEF old, Sides
  <2>3. CASE event.side = "Buy"
    <3>1. Grows(b, book, "Buy") /\ Grows(b, book, "Sell") /\ Grows(book, b, "Sell")
      BY <1>3, <2>3 DEF Sides
    <3>2. Ofi!bid_e(new("Buy")[m], old("Buy")[m]) \in Nat
      BY <1>2, <2>1, <3>1, GrowingLevel DEF old, new, Sides
    <3>3. new("Sell")[m] = old("Sell")[m]
      BY <1>2, <2>1, <3>1, SameTops DEF old, new, Sides
    <3>4. Ofi!ask_e(new("Sell")[m], old("Sell")[m]) = 0
      BY <2>2, <3>3, StillLevel
    <3>5. e >= 0
      BY <2>1, <3>2, <3>4
    <3> QED
      BY <2>3, <3>5 DEF e
  <2>4. CASE event.side = "Sell"
    <3>1. Grows(b, book, "Sell") /\ Grows(b, book, "Buy") /\ Grows(book, b, "Buy")
      BY <1>3, <2>4 DEF Sides
    <3>2. Ofi!ask_e(new("Sell")[m], old("Sell")[m]) \in Nat
      BY <1>2, <2>1, <3>1, GrowingLevel DEF old, new, Sides
    <3>3. new("Buy")[m] = old("Buy")[m]
      BY <1>2, <2>1, <3>1, SameTops DEF old, new, Sides
    <3>4. Ofi!bid_e(new("Buy")[m], old("Buy")[m]) = 0
      BY <2>2, <3>3, StillLevel
    <3>5. e <= 0
      BY <2>1, <3>2, <3>4
    <3> QED
      BY <2>4, <3>5 DEF e
  <2> QED
    BY <1>3, <2>3, <2>4 DEF Sides
<1> QED
  BY <1>4, <1>5

\* A MARKET record changes nothing.
LEMMA MarketRow ==
  ASSUME OneBehind, Emit, event.type = "Market"
  PROVE  prev.bids = prev'.bids /\ prev.asks = prev'.asks
<1>1. PICK b : Remembers(b)
  BY DEF OneBehind
<1>2. /\ book = Applied(b, event)
      /\ prev.bids = extract_levels(b, "Buy") /\ prev.asks = extract_levels(b, "Sell")
      /\ prev'.bids = extract_levels(book, "Buy") /\ prev'.asks = extract_levels(book, "Sell")
  BY <1>1, EmittedSample DEF Sides
<1>3. Applied(b, event) = b
  BY DEF Applied
<1> QED
  BY <1>2, <1>3

\* A row's signal is the change that its own event made, at any depth and for
\* any stream: zeros if no tracked level moved, and the sign of its side at
\* every level for an ADD.
THEOREM SignalOfTheEvent == Spec => SignalIsOfItsEvent
<1> DEFINE Row ==
      Emit =>
        LET e == sample'.per_level
            still == prev.bids = prev'.bids /\ prev.asks = prev'.asks
        IN /\ still => e = [m \in 1 .. levels |-> 0] /\ l1' = l1
           /\ event.type = "Add" /\ event.side = "Buy" => \A m \in 1 .. levels : e[m] >= 0
           /\ event.type = "Add" /\ event.side = "Sell" => \A m \in 1 .. levels : e[m] <= 0
           /\ event.type = "Market" => still
<1>1. OneBehind => Row
  BY StillRow, AddRow, MarketRow
<1>2. OneBehind /\ [Next]_vars => [Row]_vars
  BY <1>1
<1>3. Spec => [][Row]_vars
  <2> HIDE DEF Row
  <2> QED
    BY <1>2, RowsAreOneBehind, PTL DEF Spec
<1>4. [][Row]_vars <=> SignalIsOfItsEvent
  BY DEF SignalIsOfItsEvent
<1> QED
  BY <1>3, <1>4, PTL
==============================================================================
