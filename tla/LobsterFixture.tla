--------------------------- MODULE LobsterFixture ---------------------------
(***************************************************************************)
(* The LOBSTER fixture end to end: generate in                             *)
(* python/make_lobster_fixture.py writes messages and order book rows from *)
(* a shadow book; LobsterAdapter converts and replays the messages;        *)
(* convert_orderbook turns the rows into truth; validate.py compares.      *)
(*                                                                         *)
(* Prices are in TICKs and the random choices are free.                    *)
(***************************************************************************)
EXTENDS Snapshots

CONSTANTS
  MaxIds,     \* bound on the ids given out
  Seeds,      \* levels per side that the book starts with
  max_size,   \* the largest size drawn
  mid, Back,  \* the seed price, and how far behind the touch an order may go
  EmptyPrice  \* ASK_EMPTY_PRICE, and less this BID_EMPTY_PRICE

ASSUME FixtureAssumption ==
  /\ OrderIds = 1 .. MaxIds
  /\ \A price \in Prices : price < EmptyPrice
  /\ mid \in Int /\ Seeds \in Nat /\ Back \in Nat /\ max_size \in Nat \ {0}

VARIABLES
  sizes, event, book, message,   \* adapter and replay
  shadow,     \* the fixture's book
  next_id,    \* next_id
  seeded,     \* messages that seed the book
  taking,     \* the marketable order that is being filled: side, remaining
  ob_row      \* the row of the order book file for the message

path == <<sizes, event, book, message>>

vars == <<path, shadow, next_id, seeded, taking, ob_row>>

Adapter == INSTANCE LobsterAdapter

Shadow == INSTANCE ShadowBook

NotTaking == [side |-> "Buy", remaining |-> 0]

Init ==
  /\ Adapter!Init
  /\ shadow = Shadow!EmptyShadow
  /\ next_id = 1
  /\ seeded = 0
  /\ taking = NotTaking
  /\ ob_row = [ask_p |-> 0, ask_s |-> 0, bid_p |-> 0, bid_s |-> 0]

\* _ob_row: an absent level has a price of its own and no size.
AsObRow(top) ==
  [ask_p |-> IF top.ask = <<>> THEN EmptyPrice ELSE top.ask[1].price,
   ask_s |-> IF top.ask = <<>> THEN 0 ELSE top.ask[1].quantity,
   bid_p |-> IF top.bid = <<>> THEN -EmptyPrice ELSE top.bid[1].price,
   bid_s |-> IF top.bid = <<>> THEN 0 ELSE top.bid[1].quantity]

\* FixtureWriter.emit, called when the shadow book has changed; the adapter
\* gets the message.
emit(type, id, size, price, side) ==
  /\ Adapter!Convert([type |-> type, id |-> id, size |-> size, price |-> price,
                      side |-> side])
  /\ ob_row' = AsObRow(Shadow!l1(shadow'))

\* Faulty variant: the id is not counted up.
NewIdReused == next_id <= MaxIds /\ UNCHANGED next_id

NewId == next_id <= MaxIds /\ next_id' = next_id + 1

New(side, size, price) ==
  /\ NewId
  /\ shadow' = Shadow!add_limit(shadow, next_id, side, price, size)
  /\ emit(1, next_id, size, price, side)

\* The first messages: a bid and an ask, one tick further out each time.
Seed ==
  /\ seeded < 2 * Seeds
  /\ seeded' = seeded + 1
  /\ LET k == seeded \div 2 + 1
     IN IF seeded % 2 = 0 THEN New("Buy", k, mid - k) ELSE New("Sell", k, mid + k)
  /\ UNCHANGED taking

Seeded == seeded = 2 * Seeds /\ taking = NotTaking

\* One tick behind the opposite best, or more.
BehindTouch(side, back) ==
  LET opposing == Shadow!ShadowPrices(shadow, opposite(side))
      touch == IF opposing = {} THEN mid ELSE Shadow!ShadowBest(shadow, opposite(side))
  IN IF side = "Buy" THEN touch - 1 - back ELSE touch + 1 + back

\* A new order that does not cross; Prices bounds how far it may be.
NewLimit(side, size, back) ==
  /\ Seeded
  /\ BehindTouch(side, back) \in Prices
  /\ New(side, size, BehindTouch(side, back))
  /\ UNCHANGED <<seeded, taking>>

\* A partial deletion, which leaves something; otherwise nothing is written.
PartialDelete(id, delta) ==
  /\ Seeded
  /\ id \in DOMAIN shadow.loc
  /\ delta < Shadow!Entry(shadow, id).quantity
  /\ shadow' = Shadow!reduce(shadow, id, delta)
  /\ emit(2, id, delta, shadow.loc[id].price, shadow.loc[id].side)
  /\ UNCHANGED <<next_id, seeded, taking>>

TotalDelete(id) ==
  /\ Seeded
  /\ id \in DOMAIN shadow.loc
  /\ shadow' = Shadow!cancel(shadow, id)
  /\ emit(3, id, Shadow!Entry(shadow, id).quantity, shadow.loc[id].price, shadow.loc[id].side)
  /\ UNCHANGED <<next_id, seeded, taking>>

\* A marketable order arrives,
Take(side, size) ==
  /\ Seeded /\ event = Adapter!NoEvent
  /\ taking' = [side |-> side, remaining |-> size]
  /\ UNCHANGED <<path, shadow, next_id, seeded, ob_row>>

\* Faulty variant: the order book row of a fill is that of before it.
FillOneStale ==
  /\ taking.remaining > 0
  /\ LET against == opposite(taking.side)
     IN /\ Shadow!ShadowPrices(shadow, against) # {}
        /\ LET price == Shadow!ShadowBest(shadow, against)
               front == Head(shadow.levels[against][price])
               filled == Min({taking.remaining, front.quantity})
           IN /\ shadow' = Shadow!reduce(shadow, front.id, filled)
              /\ taking' = IF filled = taking.remaining THEN NotTaking
                           ELSE [taking EXCEPT !.remaining = @ - filled]
              /\ Adapter!Convert([type |-> 4, id |-> front.id, size |-> filled,
                                  price |-> price, side |-> against])
              /\ ob_row' = AsObRow(Shadow!l1(shadow))
  /\ UNCHANGED <<next_id, seeded>>

\* and is filled by one resting order after another, a message for each.
FillOne ==
  /\ taking.remaining > 0
  /\ LET against == opposite(taking.side)
     IN /\ Shadow!ShadowPrices(shadow, against) # {}
        /\ LET price == Shadow!ShadowBest(shadow, against)
               front == Head(shadow.levels[against][price])
               filled == Min({taking.remaining, front.quantity})
           IN /\ shadow' = Shadow!reduce(shadow, front.id, filled)
              /\ taking' = IF filled = taking.remaining THEN NotTaking
                           ELSE [taking EXCEPT !.remaining = @ - filled]
              /\ emit(4, front.id, filled, price, against)
  /\ UNCHANGED <<next_id, seeded>>

\* Nothing is left to take: the rest of the order is dropped.
StopTaking ==
  /\ taking.remaining > 0
  /\ Shadow!ShadowPrices(shadow, opposite(taking.side)) = {}
  /\ event = Adapter!NoEvent
  /\ taking' = NotTaking
  /\ UNCHANGED <<path, shadow, next_id, seeded, ob_row>>

HiddenExecution(size) ==
  /\ Seeded
  /\ UNCHANGED <<shadow, next_id, seeded, taking>>
  /\ emit(5, 0, size, mid, "Buy")

\* Adapter and replay.
Apply == Adapter!Apply /\ UNCHANGED <<shadow, next_id, seeded, taking, ob_row>>

Next ==
  \/ Seed
  \/ \E side \in Sides, size \in 1 .. max_size, back \in 0 .. Back : NewLimit(side, size, back)
  \/ \E id \in OrderIds : TotalDelete(id) \/ \E delta \in 1 .. max_size : PartialDelete(id, delta)
  \/ \E side \in Sides, size \in 1 .. max_size : Take(side, size)
  \/ FillOne
  \/ StopTaking
  \/ \E size \in 1 .. max_size : HiddenExecution(size)
  \/ Apply

Spec == Init /\ [][Next]_vars

(***************************************************************************)
(* Properties                                                              *)
(***************************************************************************)

\* The adapter's view is as LobsterAdapter says, and the shadow book's index
\* is that of its queues.
TypeOK ==
  /\ Adapter!TypeOK
  /\ \A id \in DOMAIN shadow.loc : Shadow!Entry(shadow, id).quantity > 0
  /\ next_id \in 1 .. MaxIds + 1
  /\ taking.remaining \in 0 .. max_size

\* The fixture speaks LOBSTER: every message that it writes is one that an
\* exchange could send at that point, to the adapter and to the replay, so
\* that what holds of LobsterAdapter holds of the fixture. (This is its Spec,
\* with the message that is converted named by the variable that gets it.)
FixtureIsLobster ==
  /\ Adapter!Init
  /\ [][\/ /\ message' \in Adapter!Message
           /\ Adapter!Conforms(message')
           /\ Adapter!Convert(message')
        \/ Adapter!Apply]_path

\* _cell: the truth has no level where the file has size 0 or a price out of
\* range.
Cell(price, size) ==
  IF size = 0 \/ price >= EmptyPrice \/ -price >= EmptyPrice THEN <<>>
  ELSE <<[price |-> price, quantity |-> size]>>

\* What validate.py finds: after each message, the fills of one marketable
\* order each being one, the book row of the replay is the order book row.
ValidateOK ==
  event = Adapter!NoEvent /\ message # Adapter!NoMessage =>
    extract_l1(book) = [bid |-> Cell(ob_row.bid_p, ob_row.bid_s),
                        ask |-> Cell(ob_row.ask_p, ob_row.ask_s)]

\* The fixture never crosses its own book, though the two programs that keep
\* one never look at the other side: the replayed book is one that an
\* exchange could show, and its executions are those of the front order of
\* the best level in the replay's book as well.
NeverCrossed ==
  /\ Uncrossed(book)
  /\ event # Adapter!NoEvent /\ message.type = 4 =>
       /\ IsBest(book, message.side, message.price)
       /\ Head(book.levels[message.side][message.price].queue).id = message.id

(***************************************************************************)
(* Both origins of LOBSTER files: an exchange, which may send whatever     *)
(* LobsterAdapter says that it may, and the generator above.  Which one it *)
(* is does not change on the way.                                          *)
(***************************************************************************)

CONSTANTS ExchangeIds, ExchangePrices, ExchangeSizes   \* those that an exchange uses

ASSUME ExchangeAssumption ==
  ExchangeIds \subseteq OrderIds /\ ExchangePrices \subseteq Prices /\ ExchangeSizes \subseteq Quantities

VARIABLE source

FileInit == Init /\ source \in {"exchange", "fixture"}

ExchangeMessages ==
  {m \in Adapter!Message :
     m.id \in ExchangeIds \cup {0} /\ m.price \in ExchangePrices /\ m.size \in ExchangeSizes}

ExchangeSends(m) ==
  /\ source = "exchange"
  /\ Adapter!Conforms(m)
  /\ Adapter!Convert(m)
  /\ UNCHANGED <<shadow, next_id, seeded, taking, ob_row>>

FileNext ==
  /\ UNCHANGED source
  /\ \/ source = "fixture" /\ Next
     \/ \E m \in ExchangeMessages : ExchangeSends(m)
     \/ source = "exchange" /\ Apply

FileSpec == FileInit /\ [][FileNext]_<<vars, source>>

(***************************************************************************)
(* Properties of messages of either origin, and of the fixture's own       *)
(***************************************************************************)

\* The adapter's map of what every order has left is what the replayed book
\* holds, whichever messages were oversized or about unseen orders.
SizesAreTheBook == TypeOK /\ Adapter!SizesAreTheBook

\* An execution or a partial deletion costs no order its place in a queue.
ReductionsKeepPriority == Adapter!ReductionsKeepPriority

\* validate.py finds no difference between the replay of a fixture and the
\* order book rows of its generator; and a replayed fixture is never crossed,
\* its executions being those of the front order of the best level.
FixtureValidates == source = "fixture" => ValidateOK /\ NeverCrossed
=============================================================================
