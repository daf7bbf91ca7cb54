----------------------------- MODULE ShadowBook -----------------------------
(***************************************************************************)
(* The generators' own book (ShadowBook in python/generate_synthetic.py):  *)
(* a second implementation of price-time priority, which only shares the   *)
(* rules with the engine.  A book is a record                              *)
(*     levels   bids and asks: for each side, a function from prices to    *)
(*              queues of [id, quantity]                                   *)
(*     loc      a function from resting ids to side and price              *)
(***************************************************************************)
EXTENDS Orders, Sequences, FiniteSetsExt, Functions

EmptyShadow ==
  [levels |-> [side \in Sides |-> [price \in {} |-> <<>>]],
   loc |-> [id \in {} |-> [side |-> "Buy", price |-> 0]]]

ShadowPut(f, k, v) == [x \in DOMAIN f \cup {k} |-> IF x = k THEN v ELSE f[x]]

ShadowDel(f, keys) == [x \in DOMAIN f \ keys |-> f[x]]

ShadowPrices(b, side) == DOMAIN b.levels[side]

\* max(self.bids) and min(self.asks), of a side that is not empty.
ShadowBest(b, side) ==
  IF side = "Buy" THEN Max(ShadowPrices(b, side)) ELSE Min(ShadowPrices(b, side))

\* The dictionary of one side, in which no queue is empty.
WithQueue(b, side, price, queue) ==
  [b.levels EXCEPT ![side] = IF queue = <<>> THEN ShadowDel(@, {price})
                             ELSE ShadowPut(@, price, queue)]

\* _rest: setdefault and append, and the location is written over.
rest(b, side, price, id, qty) ==
  LET queue == IF price \in ShadowPrices(b, side) THEN b.levels[side][price] ELSE <<>>
  IN [levels |-> WithQueue(b, side, price, Append(queue, [id |-> id, quantity |-> qty])),
      loc |-> ShadowPut(b.loc, id, [side |-> side, price |-> price])]

\* Faulty variant: the newest order of a level is filled first.
RECURSIVE ConsumedFromBack(_, _)
ConsumedFromBack(queue, remaining) ==
  IF remaining = 0 \/ queue = <<>>
  THEN [queue |-> queue, remaining |-> remaining, fills |-> <<>>]
  ELSE LET last == queue[Len(queue)]
           fill == Min({remaining, last.quantity})
           front == SubSeq(queue, 1, Len(queue) - 1)
           then == ConsumedFromBack(
                     IF fill < last.quantity
                     THEN Append(front, [last EXCEPT !.quantity = @ - fill]) ELSE front,
                     remaining - fill)
       IN [then EXCEPT !.fills = <<[id |-> last.id, quantity |-> fill]>> \o @]

\* The loop of _consume over the queue of one price: heads are filled, and
\* popped when they have nothing left.
RECURSIVE Consumed(_, _)
Consumed(queue, remaining) ==
  IF remaining = 0 \/ queue = <<>>
  THEN [queue |-> queue, remaining |-> remaining, fills |-> <<>>]
  ELSE LET head == Head(queue)
           fill == Min({remaining, head.quantity})
           then == Consumed(
                     IF fill < head.quantity
                     THEN <<[head EXCEPT !.quantity = @ - fill]>> \o Tail(queue)
                     ELSE Tail(queue),
                     remaining - fill)
       IN [then EXCEPT !.fills = <<[id |-> head.id, quantity |-> fill]>> \o @]

\* _consume: the book and what is left to fill; who was filled up leaves loc.
consume(b, opp_side, price, remaining) ==
  LET done == Consumed(b.levels[opp_side][price], remaining)
      left == {done.queue[k].id : k \in DOMAIN done.queue}
      gone == {id \in DOMAIN b.loc :
                 b.loc[id] = [side |-> opp_side, price |-> price] /\ id \notin left}
  IN [book |-> [levels |-> WithQueue(b, opp_side, price, done.queue),
                loc |-> ShadowDel(b.loc, gone)],
      remaining |-> done.remaining]

\* The outer loop of add_limit and market: price by price from the best, as
\* long as there is one that the order reaches.
RECURSIVE Swept(_, _, _, _, _)
Swept(b, type, side, limit, remaining) ==
  IF \/ remaining = 0
     \/ ShadowPrices(b, opposite(side)) = {}
     \/ ~Crosses(type, side, limit, ShadowBest(b, opposite(side)))
  THEN [book |-> b, remaining |-> remaining]
  ELSE LET after == consume(b, opposite(side), ShadowBest(b, opposite(side)), remaining)
       IN Swept(after.book, type, side, limit, after.remaining)

add_limit(b, id, side, price, qty) ==
  LET swept == Swept(b, "Limit", side, price, qty)
  IN IF swept.remaining > 0 THEN rest(swept.book, side, price, id, swept.remaining)
     ELSE swept.book

market(b, side, qty) == Swept(b, "Market", side, 0, qty).book

\* The place of an order in its queue, and its entry.
EntryIndex(b, id) ==
  LET queue == b.levels[b.loc[id].side][b.loc[id].price]
  IN CHOOSE k \in DOMAIN queue : queue[k].id = id

Entry(b, id) == b.levels[b.loc[id].side][b.loc[id].price][EntryIndex(b, id)]

cancel(b, id) ==
  IF id \notin DOMAIN b.loc THEN b
  ELSE LET loc == b.loc[id]
           queue == b.levels[loc.side][loc.price]
           k == EntryIndex(b, id)
       IN [levels |-> WithQueue(b, loc.side, loc.price,
                        SubSeq(queue, 1, k - 1) \o SubSeq(queue, k + 1, Len(queue))),
           loc |-> ShadowDel(b.loc, {id})]

\* reduce: an order with nothing left is cancelled.
reduce(b, id, delta) ==
  IF id \notin DOMAIN b.loc THEN b
  ELSE IF Entry(b, id).quantity - delta <= 0 THEN cancel(b, id)
  ELSE [b EXCEPT !.levels[b.loc[id].side][b.loc[id].price][EntryIndex(b, id)].quantity
                   = @ - delta]

\* One side of l1(): the best price with the sum of its queue, if any.
ShadowTouch(b, side) ==
  IF ShadowPrices(b, side) = {} THEN <<>>
  ELSE LET queue == b.levels[side][ShadowBest(b, side)]
       IN <<[price |-> ShadowBest(b, side),
             quantity |-> SumFunction([k \in DOMAIN queue |-> queue[k].quantity])]>>

l1(b) == [bid |-> ShadowTouch(b, "Buy"), ask |-> ShadowTouch(b, "Sell")]

\* mid(fallback), all three times two so that they stay integers.
TwiceMid(b, twice_fallback) ==
  LET one_sided == {side \in Sides : ShadowPrices(b, side) # {}}
  IN CASE one_sided = Sides -> ShadowBest(b, "Buy") + ShadowBest(b, "Sell")
       [] one_sided = {} -> twice_fallback
       [] OTHER -> 2 * ShadowBest(b, CHOOSE side \in one_sided : TRUE)
=============================================================================
