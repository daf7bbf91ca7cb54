--------------------------- MODULE BookOnlyReplay ---------------------------
(***************************************************************************)
(* The replay of an already matched stream (replay_book_only in            *)
(* src/EventReplay.cpp): every event goes straight to a book, nothing is   *)
(* matched, and a row is written after every event, no-ops included.       *)
(*                                                                         *)
(* Here the stream is free: an ADD may carry an id that rests, a CANCEL or *)
(* MODIFY one that does not, a MARKET may appear.  parse refuses sizes     *)
(* that are not positive except for a CANCEL, whose size nothing reads;    *)
(* replay_book_only tests an ADD's size again, as a caller may build the   *)
(* events itself, so size 0 is among the inputs.                           *)
(***************************************************************************)
EXTENDS Snapshots

CONSTANT MaxEvents   \* the length of the stream, events.size()

ASSUME MaxEventsAssumption == MaxEvents \in Nat

VARIABLES
  book,           \* the caller's book
  prev, sample,   \* the imbalance
  seq,            \* events whose rows have been written
  event,          \* the event being processed
  l1              \* the best levels in the row of book.csv written last

vars == <<book, prev, sample, seq, event, l1>>

Ofi == INSTANCE OrderFlowImbalance

NoEvent == [type |-> "None", id |-> 0, side |-> "Buy", price |-> 0, quantity |-> 0]

NoTouch == [bid |-> <<>>, ask |-> <<>>]

Init ==
  /\ book = EmptyBook
  /\ Ofi!Init
  /\ seq = 0
  /\ event = NoEvent
  /\ l1 = NoTouch

AsOrder(ev) ==
  [id |-> ev.id, side |-> ev.side, price |-> ev.price, quantity |-> ev.quantity]

\* Faulty variant: an ADD is applied even if its id rests.
AppliedUnchecked(b, ev) ==
  CASE ev.type = "Add" /\ ev.quantity > 0 -> insert_order(b, AsOrder(ev))
    [] ev.type = "Cancel" -> cancel_order(b, ev.id)
    [] ev.type = "Modify" -> modify_order(b, ev.id, ev.price, ev.quantity)
    [] OTHER -> b

\* The switch on the event's type.
Applied(b, ev) ==
  CASE ev.type = "Add" /\ ev.quantity > 0 /\ ~contains(b, ev.id) ->
         insert_order(b, AsOrder(ev))
    [] ev.type = "Cancel" -> cancel_order(b, ev.id)
    [] ev.type = "Modify" -> modify_order(b, ev.id, ev.price, ev.quantity)
    [] OTHER -> b

Apply(ev) ==
  /\ event = NoEvent
  /\ seq < MaxEvents
  /\ event' = ev
  /\ book' = Applied(book, ev)
  /\ UNCHANGED <<prev, sample, seq, l1>>

\* Faulty variant: the signal of an event that changed no best level is not
\* computed, and its row repeats the one before.
EmitOnChange ==
  /\ event # NoEvent
  /\ l1' = extract_l1(book)
  /\ IF l1 = l1' THEN UNCHANGED <<prev, sample>>
     ELSE Ofi!update(extract_levels(book, "Buy"), extract_levels(book, "Sell"))
  /\ seq' = seq + 1
  /\ event' = NoEvent
  /\ UNCHANGED book

\* emit_snapshots.
Emit ==
  /\ event # NoEvent
  /\ l1' = extract_l1(book)
  /\ Ofi!update(extract_levels(book, "Buy"), extract_levels(book, "Sell"))
  /\ seq' = seq + 1
  /\ event' = NoEvent
  /\ UNCHANGED book

\* Fields an event's handler never reads are fixed.
Events ==
  [type : {"Add", "Modify"}, id : OrderIds, side : Sides, price : Prices,
   quantity : ModifySizes]
  \cup [type : {"Cancel", "Market"}, id : OrderIds, side : {"Buy"},
        price : {0}, quantity : {0}]

Next ==
  \/ \E ev \in Events : Apply(ev)
  \/ Emit

Spec == Init /\ [][Next]_vars

(***************************************************************************)
(* Properties                                                              *)
(***************************************************************************)

\* No stream makes the replay misuse the book: seen from the book, whatever
\* the file holds, there are only calls that respect add_limit_order's
\* assertions and calls that change nothing. So every property of OrderBook
\* holds of the reconstructed book.
Book == INSTANCE OrderBook

RespectsBook == Book!Spec

\* A row's signal is the change that its own event made, never an earlier
\* one: an event that leaves the tracked levels of the book as they are gets
\* a row of zeros, even right after one that moved them, and one that only
\* adds to a side has the sign of that side at every level.
SignalIsOfItsEvent ==
  [][Emit =>
       LET e == sample'.per_level
           still == prev.bids = prev'.bids /\ prev.asks = prev'.asks
       IN /\ still => e = [m \in 1 .. levels |-> 0] /\ l1' = l1
          /\ event.type = "Add" /\ event.side = "Buy" => \A m \in 1 .. levels : e[m] >= 0
          /\ event.type = "Add" /\ event.side = "Sell" => \A m \in 1 .. levels : e[m] <= 0
          /\ event.type = "Market" => still
    ]_vars
=============================================================================
