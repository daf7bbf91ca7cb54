------------------------- MODULE SyntheticPipeline -------------------------
(***************************************************************************)
(* The synthetic pipeline: generate in python/generate_synthetic.py writes *)
(* an event and, from its shadow book, the row of truth for it; the engine *)
(* replays the event; python/validate.py compares its row with the truth.  *)
(*                                                                         *)
(* The files between the programs hold the events in order (times strictly *)
(* increase, so that the sort of the replay changes nothing): generator    *)
(* and engine may as well take turns.  The random choices are free.        *)
(***************************************************************************)
EXTENDS Snapshots

CONSTANTS
  MaxVolume,     \* the engine's bound
  initial_mid, max_offset, max_qty,   \* as in generate
  MaxIds         \* bound on the ids given out

ASSUME PipelineAssumption ==
  /\ initial_mid \in Nat /\ max_offset \in Nat \ {0} /\ max_qty \in Nat \ {0}
  /\ OrderIds = 1 .. MaxIds

VARIABLES
  book, executed_volume, pc, order, remaining, trades,   \* the engine
  shadow,     \* the generator's book
  next_id,    \* next_id
  twice_ref,  \* ref, times two
  base,       \* base of the event written last
  event,      \* the event written last; None when it has been replayed
  truth       \* the row of truth written last

engine == <<book, executed_volume, pc, order, remaining, trades>>

generator == <<shadow, next_id, twice_ref, base, truth>>

vars == <<engine, generator, event>>

Engine == INSTANCE MatchingEngine

Shadow == INSTANCE ShadowBook

NoEvent == [type |-> "None", id |-> 0, side |-> "Buy", price |-> 0, quantity |-> 0,
            aggressive |-> FALSE]

Init ==
  /\ Engine!Init
  /\ shadow = Shadow!EmptyShadow
  /\ next_id = 1
  /\ twice_ref = 2 * initial_mid
  /\ base = initial_mid
  /\ event = NoEvent
  /\ truth = [bid |-> <<>>, ask |-> <<>>]

\* round(), of half a number: a half goes to the even neighbour.
RoundHalf(twice) ==
  LET below == twice \div 2
  IN IF twice % 2 = 0 \/ below % 2 = 0 THEN below ELSE below + 1

\* What every iteration begins and ends with: the mid and the row of truth.
Generate(ev) ==
  /\ event = NoEvent
  /\ event' = ev
  /\ twice_ref' = Shadow!TwiceMid(shadow, twice_ref)
  /\ base' = RoundHalf(twice_ref')
  /\ truth' = Shadow!l1(shadow')
  /\ UNCHANGED engine

\* rng.choice(book.resting_ids()).
GenerateCancel(id) ==
  /\ id \in DOMAIN shadow.loc
  /\ shadow' = Shadow!cancel(shadow, id)
  /\ Generate([type |-> "Cancel", id |-> id, side |-> shadow.loc[id].side,
               price |-> shadow.loc[id].price, quantity |-> 0, aggressive |-> FALSE])
  /\ UNCHANGED next_id

\* Faulty variant: the id is not counted up.
NewIdReused == next_id <= MaxIds /\ UNCHANGED next_id

\* next_id, and the next one.
NewId == next_id <= MaxIds /\ next_id' = next_id + 1

GenerateMarket(side, qty) ==
  /\ NewId
  /\ shadow' = Shadow!market(shadow, side, qty)
  /\ Generate([type |-> "Market", id |-> next_id, side |-> side, price |-> 0,
               quantity |-> qty, aggressive |-> FALSE])

\* Faulty variant: a passive order may be placed at the mid itself.
OffsetsFromZero(aggressive) == IF aggressive THEN 1 .. 2 ELSE 0 .. max_offset

\* How far from the mid an order is placed: behind it, or beyond it.
Offsets(aggressive) == IF aggressive THEN 1 .. 2 ELSE 1 .. max_offset

\* A buy is placed below the mid and an aggressive one above it.
LimitPrice(side, aggressive, offset) ==
  LET around == RoundHalf(Shadow!TwiceMid(shadow, twice_ref))
      below == (side = "Buy") # aggressive
  IN Max({1, IF below THEN around - offset ELSE around + offset})

\* Prices bounds how far the walk of the mid may go.
GenerateAdd(side, qty, aggressive, offset) ==
  LET price == LimitPrice(side, aggressive, offset)
  IN /\ NewId
     /\ price \in Prices
     /\ shadow' = Shadow!add_limit(shadow, next_id, side, price, qty)
     /\ Generate([type |-> "Add", id |-> next_id, side |-> side, price |-> price,
                  quantity |-> qty, aggressive |-> aggressive])

\* The engine gets an order,
ReplayOrder ==
  /\ event.type \in {"Add", "Market"}
  /\ Engine!Submit([id |-> event.id, side |-> event.side, price |-> event.price,
                    quantity |-> event.quantity,
                    type |-> IF event.type = "Market" THEN "Market" ELSE "Limit"])
  /\ UNCHANGED <<generator, event>>

\* matches it,
Fill == Engine!Fill /\ UNCHANGED <<generator, event>>

\* and is done with it.
Finish == Engine!Finish /\ event' = NoEvent /\ UNCHANGED generator

ReplayCancel ==
  /\ event.type = "Cancel"
  /\ Engine!Cancel(event.id)
  /\ event' = NoEvent
  /\ UNCHANGED generator

Next ==
  \/ \E id \in OrderIds : GenerateCancel(id)
  \/ \E side \in Sides, qty \in 1 .. max_qty :
       \/ GenerateMarket(side, qty)
       \/ \E aggressive \in BOOLEAN : \E offset \in Offsets(aggressive) :
            GenerateAdd(side, qty, aggressive, offset)
  \/ ReplayOrder
  \/ Fill
  \/ Finish
  \/ ReplayCancel

Spec == Init /\ [][Next]_vars

(***************************************************************************)
(* Properties                                                              *)
(***************************************************************************)

\* The queue of a level of the engine's book, as the shadow book keeps it.
AsShadow(level) ==
  [k \in DOMAIN level.queue |-> [id |-> level.queue[k].id, quantity |-> level.queue[k].quantity]]

\* The two books are one: once the engine has replayed what was generated,
\* it has the same orders in the same queues with the same shares, level by
\* level and not only at the top, and its index is the generator's loc. So the
\* row of book.csv is the row of truth, which is what validate.py looks at,
\* though one reads a cached total and the other sums a queue.
SameBook ==
  event = NoEvent =>
    /\ shadow.loc = book.locations
    /\ \A side \in Sides :
         shadow.levels[side] =
           [price \in DOMAIN book.levels[side] |-> AsShadow(book.levels[side][price])]
    /\ truth = extract_l1(book)

\* The stream is coherent, as the generator's docstring says: the engine is
\* only asked to cancel what rests there, on the side and at the price that
\* the row says, and never given an id that rests.
StreamIsCoherent ==
  pc = "idle" =>
    /\ event.type = "Cancel" =>
         /\ contains(book, event.id)
         /\ book.locations[event.id] = [side |-> event.side, price |-> event.price]
    /\ event.type \in {"Add", "Market"} => ~contains(book, event.id)

\* Only aggressive orders cross: an order placed behind the mid never trades,
\* whatever the rounding of the mid, unless the lowest price is in the way.
PassiveOrdersRest ==
  event.type = "Add" /\ ~event.aggressive /\ pc = "match" /\ trades # <<>> => base <= 1
=============================================================================
