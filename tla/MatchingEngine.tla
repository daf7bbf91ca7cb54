--------------------------- MODULE MatchingEngine ---------------------------
(***************************************************************************)
(* Price-time-priority matching (include/obme/MatchingEngine.hpp,          *)
(* src/MatchingEngine.cpp).  submit and the repricing modify run the loop  *)
(* of match one iteration per step, so that the book and the counters can  *)
(* be looked at between two fills; no other call can start meanwhile.      *)
(***************************************************************************)
EXTENDS BookOps

CONSTANT MaxVolume   \* bound on executed_volume_: no call that could pass it

ASSUME MaxVolumeAssumption == MaxVolume \in Nat

VARIABLES
  book,             \* book_
  executed_volume,  \* executed_volume_
  pc,               \* "match" while a submit is in the loop of match
  order,            \* the aggressor, while it is being matched
  remaining,        \* its unfilled shares
  trades            \* the trades the current or last call returns

vars == <<book, executed_volume, pc, order, remaining, trades>>

NoOrder == [id |-> 0, side |-> "Buy", type |-> "Limit", price |-> 0, quantity |-> 0]

Init ==
  /\ book = EmptyBook
  /\ executed_volume = 0
  /\ pc = "idle"
  /\ order = NoOrder
  /\ remaining = 0
  /\ trades = <<>>

(***************************************************************************)
(* submit                                                                  *)
(***************************************************************************)

\* Entering match with an order.
StartMatch(o) ==
  /\ executed_volume + o.quantity <= MaxVolume
  /\ pc' = "match"
  /\ order' = o
  /\ remaining' = o.quantity
  /\ trades' = <<>>
  /\ UNCHANGED executed_volume

\* submit's assertions are its precondition: a positive size, and an id that
\* does not rest.
Submit(o) ==
  /\ pc = "idle"
  /\ ~contains(book, o.id)
  /\ StartMatch(o)
  /\ UNCHANGED book

\* The opposite side has a best price, and the aggressor reaches it.
CrossesAt(best) ==
  /\ IsBest(book, opposite(order.side), best)
  /\ Crosses(order.type, order.side, order.price, best)

\* Faulty variant: the trade prints at the aggressor's price.
TradeAtLimit(o, resting, fill) ==
  [aggressor_id |-> o.id, resting_id |-> resting.id, price |-> o.price,
   quantity |-> fill, aggressor_side |-> o.side]

\* The trade prints at the resting order's price.
Trade(o, resting, fill) ==
  [aggressor_id |-> o.id, resting_id |-> resting.id, price |-> resting.price,
   quantity |-> fill, aggressor_side |-> o.side]

\* best_order(side): the front of the best level.
best_order(side, best) == Head(book.levels[side][best].queue)

\* Faulty variant: a partially filled resting order is cancelled and queued
\* again with what is left of it.
AfterFillRequeued(b, resting, fill) ==
  IF fill = resting.quantity THEN cancel_order(b, resting.id)
  ELSE insert_order(cancel_order(b, resting.id),
                    [resting EXCEPT !.quantity = @ - fill])

\* Faulty variant: the partially filled resting order keeps its size.
AfterFillUnreduced(b, resting, fill) ==
  IF fill = resting.quantity THEN cancel_order(b, resting.id) ELSE b

\* The book after `resting` lost `fill` shares: gone, or shrunk in place.
AfterFill(b, resting, fill) ==
  IF fill = resting.quantity
  THEN cancel_order(b, resting.id)
  ELSE modify_order(b, resting.id, resting.price, resting.quantity - fill)

\* One iteration of the loop.
Fill ==
  /\ pc = "match"
  /\ remaining > 0
  /\ \E best \in DOMAIN book.levels[opposite(order.side)] :
       /\ CrossesAt(best)
       /\ LET resting == best_order(opposite(order.side), best)
              fill == Min({remaining, resting.quantity})
          IN /\ trades' = Append(trades, Trade(order, resting, fill))
             /\ executed_volume' = executed_volume + fill
             /\ remaining' = remaining - fill
             /\ book' = AfterFill(book, resting, fill)
  /\ UNCHANGED <<pc, order>>

\* Faulty variant: the loop does not stop when the opposite side is empty.
MatchIsOverIgnoresEmpty ==
  LET against == book.levels[opposite(order.side)]
  IN \/ remaining = 0
     \/ \E best \in DOMAIN against :
          /\ IsBest(book, opposite(order.side), best)
          /\ ~Crosses(order.type, order.side, order.price, best)

\* The loop's exits: nothing left to fill, an empty opposite side, or a best
\* price the limit does not reach.
MatchIsOver ==
  LET against == book.levels[opposite(order.side)]
  IN \/ remaining = 0
     \/ DOMAIN against = {}
     \/ \E best \in DOMAIN against :
          /\ IsBest(book, opposite(order.side), best)
          /\ ~Crosses(order.type, order.side, order.price, best)

\* A limit order rests what it could not fill, a market order drops it.
Rests(o, unfilled) == unfilled > 0 /\ o.type = "Limit"

RestingPart(o, unfilled) ==
  [id |-> o.id, side |-> o.side, price |-> o.price, quantity |-> unfilled]

\* Leaving match and submit.
Finish ==
  /\ pc = "match"
  /\ MatchIsOver
  /\ book' = IF Rests(order, remaining)
             THEN insert_order(book, RestingPart(order, remaining))
             ELSE book
  /\ pc' = "idle"
  /\ order' = NoOrder
  /\ remaining' = 0
  /\ UNCHANGED <<executed_volume, trades>>

(***************************************************************************)
(* cancel and modify                                                       *)
(***************************************************************************)

Cancel(id) ==
  /\ pc = "idle"
  /\ book' = cancel_order(book, id)
  /\ trades' = <<>>
  /\ UNCHANGED <<executed_volume, pc, order, remaining>>

\* A missing id or a non-positive size: nothing happens.
ModifyNothing(id, new_quantity) ==
  /\ ~contains(book, id) \/ new_quantity <= 0
  /\ UNCHANGED <<book, executed_volume, pc, order, remaining>>

\* The fast path: a same-price decrease is left to the book.
ModifyInPlace(id, new_price, new_quantity) ==
  /\ contains(book, id) /\ new_quantity > 0
  /\ new_price = find(book, id).price
  /\ new_quantity <= find(book, id).quantity
  /\ book' = modify_order(book, id, new_price, new_quantity)
  /\ UNCHANGED <<executed_volume, pc, order, remaining>>

\* Faulty variant: a reprice is left to the book, which never matches.
ModifyAsNewUnmatched(id, new_price, new_quantity) ==
  /\ contains(book, id) /\ new_quantity > 0
  /\ \/ new_price # find(book, id).price
     \/ new_quantity > find(book, id).quantity
  /\ book' = modify_order(book, id, new_price, new_quantity)
  /\ UNCHANGED <<executed_volume, pc, order, remaining>>
  /\ trades' = <<>>

\* The slow path: a reprice or an increase is a cancel and a new limit order.
ModifyAsNew(id, new_price, new_quantity) ==
  /\ contains(book, id) /\ new_quantity > 0
  /\ \/ new_price # find(book, id).price
     \/ new_quantity > find(book, id).quantity
  /\ StartMatch([id |-> id, side |-> find(book, id).side, type |-> "Limit",
                 price |-> new_price, quantity |-> new_quantity])
  /\ book' = cancel_order(book, id)

Modify(id, new_price, new_quantity) ==
  /\ pc = "idle"
  /\ \/ ModifyNothing(id, new_quantity) /\ trades' = <<>>
     \/ ModifyInPlace(id, new_price, new_quantity) /\ trades' = <<>>
     \/ ModifyAsNew(id, new_price, new_quantity)

Next ==
  \/ \E id \in OrderIds, side \in Sides, quantity \in Quantities :
       \/ \E price \in Prices :
            Submit([id |-> id, side |-> side, type |-> "Limit",
                    price |-> price, quantity |-> quantity])
       \/ Submit([id |-> id, side |-> side, type |-> "Market",
                  price |-> 0, quantity |-> quantity])
  \/ Fill
  \/ Finish
  \/ \E id \in OrderIds : Cancel(id)
  \/ \E id \in OrderIds, new_price \in Prices, new_quantity \in ModifySizes :
       Modify(id, new_price, new_quantity)

Spec == Init /\ [][Next]_vars

(***************************************************************************)
(* Properties                                                              *)
(***************************************************************************)

\* An incoming order; the price of a market order is never read.
Aggressor ==
  {o \in [id : OrderIds, side : Sides, type : OrderTypes, price : Int,
          quantity : Nat \ {0}] : o.type = "Limit" => o.price \in Prices}

TradeRecord ==
  [aggressor_id : OrderIds, resting_id : OrderIds, price : Prices,
   quantity : Nat \ {0}, aggressor_side : Sides]

\* The book is well typed in the middle of a match as well, an aggressor is
\* present exactly while matching and never in the book, what it has left and
\* what has traded stay within what was submitted.
TypeOK ==
  /\ WellTyped(book)
  /\ executed_volume \in Nat
  /\ executed_volume + remaining <= MaxVolume
  /\ pc \in {"idle", "match"}
  /\ pc = "idle" => order = NoOrder /\ remaining = 0
  /\ pc = "match" => /\ order \in Aggressor
                     /\ remaining \in 0 .. order.quantity
                     /\ ~contains(book, order.id)
  /\ trades \in Seq(TradeRecord)

\* The index and the queues agree in the middle of a match as well: the loop
\* removes the front order of the best level by its id, and trusts the index
\* to lead back to that level.
IndexAgrees == Agrees(book)

\* No resting buyer reaches a resting seller: whatever is submitted, filled,
\* cancelled or repriced, the best bid stays below the best ask, between two
\* fills as well. A reprice done by the book alone would break it.
NeverCrossed == Uncrossed(book)

\* check_invariants() holds whenever it could be asked: the cached totals are
\* exact and the index counts the queued orders in the middle of a match too.
ChecksOut == check_invariants(book)

\* All of it, at every point of every call: no call leaves the book unsound,
\* nor does the loop of match between two fills.
BookStaysSound == TypeOK /\ IndexAgrees /\ NeverCrossed /\ ChecksOut

\* Every share is accounted for: resting shares, plus shares still being
\* matched, plus two for each share traded (its buyer's and its seller's).
Ledger ==
  total_shares(book, "Buy") + total_shares(book, "Sell") + remaining
    + 2 * executed_volume

\* The shares an id has in a book.
SizeIn(b, id) == IF contains(b, id) THEN find(b, id).quantity ELSE 0

\* The ids whose shares a step changes.
Resized == {id \in OrderIds : SizeIn(book', id) # SizeIn(book, id)}

\* What a match that ends takes out of the ledger.
Dropped == IF order.type = "Market" THEN remaining ELSE 0

SharesConserved ==
  CASE pc = "match" /\ pc' = "match" -> Ledger' = Ledger
    [] pc = "match" /\ pc' = "idle"  -> Ledger' = Ledger - Dropped
    [] pc = "idle" /\ pc' = "match"  ->
         Ledger' = Ledger + order'.quantity - SizeIn(book, order'.id)
    [] OTHER ->
         /\ Cardinality(Resized) <= 1
         /\ \A id \in Resized : Ledger' = Ledger - SizeIn(book, id) + SizeIn(book', id)
         /\ Resized = {} => Ledger' = Ledger

\* The conservation identities of the tests, step by step: a submit brings
\* its size and fills only convert shares; only a market order's unfilled
\* part is dropped at the end of a match; a cancel takes out exactly the
\* order's own shares, and a modify swaps its old size for the new one.
Conservation == [][SharesConserved]_vars

\* The trades a step reports against a resting order, and the shares they
\* sell of it.
TradesAgainst(id) ==
  {k \in DOMAIN trades' : k > Len(trades) /\ trades'[k].resting_id = id}

SoldOf(id) == SumFunction([k \in TradesAgainst(id) |-> trades'[k].quantity])

OnlyTraded(id) ==
  /\ \A k \in TradesAgainst(id) : trades'[k].price = find(book, id).price
  /\ IF contains(book', id)
     THEN find(book', id) = [find(book, id) EXCEPT !.quantity = @ - SoldOf(id)]
     ELSE find(book, id).quantity = SoldOf(id)

\* While an order is matched, the other orders change only through the trades
\* reported: each keeps its place, and loses exactly the shares of the trades
\* against it, at its own price.
OnlyTradesTouchOthers ==
  [][pc = "match" => \A id \in DOMAIN book.locations : OnlyTraded(id)]_vars
=============================================================================
