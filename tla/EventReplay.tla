---------------------------- MODULE EventReplay ----------------------------
(***************************************************************************)
(* The matching replay (include/obme/EventReplay.hpp, replay in            *)
(* src/EventReplay.cpp): each event of the sorted stream is dispatched to  *)
(* the engine, then a row is written to every output and the imbalance is  *)
(* updated from the book.                                                  *)
(*                                                                         *)
(* The stream is any sequence of MaxEvents events, chosen event by event:  *)
(* the loop reads an event only when its turn comes.  An ADD or MARKET     *)
(* carries an id that does not rest, which replay does not check and the   *)
(* input schema asks for (data/README.md); parse lets only positive sizes  *)
(* through.  The sorting of the stream by time is not part of this module. *)
(***************************************************************************)
EXTENDS Snapshots

CONSTANTS
  MaxVolume,   \* the engine's bound on executed_volume_
  MaxEvents    \* the length of the stream, events.size()

ASSUME MaxVolumeAssumption == MaxVolume \in Nat
ASSUME MaxEventsAssumption == MaxEvents \in Nat

VARIABLES
  book, executed_volume, pc, order, remaining, trades,   \* the engine
  prev, sample,                                          \* the imbalance
  seq,     \* events whose rows have been written
  event,   \* the event being processed
  row      \* the rows written last: seq, the trades, the best levels

engine == <<book, executed_volume, pc, order, remaining, trades>>

signal == <<prev, sample>>

vars == <<engine, signal, seq, event, row>>

Engine == INSTANCE MatchingEngine

Ofi == INSTANCE OrderFlowImbalance

NoEvent == [type |-> "None", id |-> 0, side |-> "Buy", price |-> 0, quantity |-> 0]

NoRow == [seq |-> -1, trades |-> <<>>, l1 |-> [bid |-> <<>>, ask |-> <<>>]]

Init ==
  /\ Engine!Init
  /\ Ofi!Init
  /\ seq = 0
  /\ event = NoEvent
  /\ row = NoRow

\* The order of an ADD or a MARKET event.
AsOrder(ev) ==
  [id |-> ev.id, side |-> ev.side, quantity |-> ev.quantity,
   type |-> IF ev.type = "Market" THEN "Market" ELSE "Limit",
   price |-> IF ev.type = "Market" THEN 0 ELSE ev.price]

\* The switch on the type of the next event.
Dispatch(ev) ==
  /\ event = NoEvent
  /\ seq < MaxEvents
  /\ event' = ev
  /\ \/ ev.type = "Add" /\ Engine!Submit(AsOrder(ev))
     \/ ev.type = "Market" /\ Engine!Submit(AsOrder(ev))
     \/ ev.type = "Cancel" /\ Engine!Cancel(ev.id)
     \/ ev.type = "Modify" /\ Engine!Modify(ev.id, ev.price, ev.quantity)
  /\ UNCHANGED <<signal, seq, row>>

\* The engine is still in the loop of match, or leaves it.
Match ==
  /\ event # NoEvent
  /\ Engine!Fill \/ Engine!Finish
  /\ UNCHANGED <<signal, seq, event, row>>

\* The trades rows and emit_snapshots, once the engine has returned.
Emit ==
  /\ event # NoEvent
  /\ pc = "idle"
  /\ row' = [seq |-> seq, trades |-> trades, l1 |-> extract_l1(book)]
  /\ Ofi!update(extract_levels(book, "Buy"), extract_levels(book, "Sell"))
  /\ seq' = seq + 1
  /\ event' = NoEvent
  /\ UNCHANGED engine

\* Fields an event's handler never reads are fixed.
Events ==
  [type : {"Add", "Modify"}, id : OrderIds, side : Sides, price : Prices,
   quantity : Quantities]
  \cup [type : {"Market"}, id : OrderIds, side : Sides, price : {0},
        quantity : Quantities]
  \cup [type : {"Cancel"}, id : OrderIds, side : {"Buy"}, price : {0},
        quantity : {0}]

Next ==
  \/ \E ev \in Events : Dispatch(ev)
  \/ Match
  \/ Emit

Spec == Init /\ [][Next]_vars

(***************************************************************************)
(* Properties                                                              *)
(***************************************************************************)

\* The engine's own invariants hold at every point of a replay, the outputs
\* trail the stream by exactly the event in progress, and the engine only
\* works while there is one.
TypeOK ==
  /\ Engine!TypeOK
  /\ Ofi!TypeOK
  /\ seq \in 0 .. MaxEvents
  /\ event \in Events \cup {NoEvent}
  /\ row.seq = seq - 1
  /\ event = NoEvent => pc = "idle"

\* The level a side shows at the top after an aggressor on `side` traded.
OwnTouch(side) == IF side = "Buy" THEN row.l1.bid ELSE row.l1.ask

OppositeTouch(side) == IF side = "Buy" THEN row.l1.ask ELSE row.l1.bid

\* The trades of an event and the book row next to them fit: what is left on
\* the side traded against is no better than the last price printed, and the
\* aggressor's own side shows nothing that the trades should have reached.
TouchAfterTrades ==
  row.trades # <<>> =>
    LET last == row.trades[Len(row.trades)]
        own == OwnTouch(last.aggressor_side)
        against == OppositeTouch(last.aggressor_side)
    IN /\ against # <<>> =>
            ~Better(opposite(last.aggressor_side), against[1].price, last.price)
       /\ own # <<>> /\ against # <<>> =>
            Better(last.aggressor_side, against[1].price, own[1].price)

\* The three outputs tell one story: the row of book.csv, read through the
\* best-price accessors, is the first level of the ladders that the row of
\* ofi.csv was computed from, the trades rows fit it, and between two events
\* both are what the book shows now.
RowsAgree ==
  /\ TypeOK
  /\ seq > 0 =>
       /\ row.l1.bid = SubSeq(prev.bids, 1, Min({1, Len(prev.bids)}))
       /\ row.l1.ask = SubSeq(prev.asks, 1, Min({1, Len(prev.asks)}))
       /\ event = NoEvent => row.l1 = extract_l1(book)
  /\ TouchAfterTrades

\* The sign of the signal is the direction of the event that caused it, at
\* every level: an incoming buy never counts as selling pressure, nor an
\* incoming sell as buying pressure, whether it rests, trades or both; a
\* cancelled bid never counts as buying, nor a cancelled ask as selling. And
\* the L1 value of such an event is 0 only if the best levels stand still.
SignedFlow ==
  [][Emit =>
       LET e == sample'.per_level
           adds == event.type \in {"Add", "Market"}
           Up == \A m \in 1 .. levels : e[m] >= 0
           Down == \A m \in 1 .. levels : e[m] <= 0
       IN /\ adds /\ event.side = "Buy" => Up
          /\ adds /\ event.side = "Sell" => Down
          /\ event.type = "Cancel" =>
               /\ prev.bids # prev'.bids => Down
               /\ prev.asks # prev'.asks => Up
          /\ event.type # "Modify" /\ sample'.valid =>
               (sample'.l1 = 0 <=> row'.l1 = row.l1)
    ]_vars
=============================================================================
