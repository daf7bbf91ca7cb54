--------------------------- MODULE LobsterAdapter ---------------------------
(***************************************************************************)
(* The LOBSTER path: python/lobster_adapter.py turns each message into one *)
(* event, with a map of its own of what every order has left, and the      *)
(* book-only replay applies the event to the book.                         *)
(*                                                                         *)
(* The messages are those of an exchange: a new order has an id that does  *)
(* not rest, a reduction or deletion is given with the side and the price  *)
(* of its order.  They may be about orders that were entered before the    *)
(* file begins, which neither the adapter nor the replay has seen, and     *)
(* sizes are free.  Adapter and replay take turns, though in fact one      *)
(* finishes its file before the other starts.                              *)
(***************************************************************************)
EXTENDS Snapshots

VARIABLES
  sizes,     \* the adapter's map
  event,     \* the event written last; None when it has been replayed
  book,      \* the replay's book
  message    \* the message converted last

vars == <<sizes, event, book, message>>

\* What the replay keeps besides the book plays no role here.
Replay == INSTANCE BookOnlyReplay WITH
            MaxEvents <- 0, prev <- <<>>, sample <- <<>>, seq <- 0, l1 <- <<>>

NoEvent == [type |-> "None", id |-> 0, side |-> "Buy", price |-> 0, quantity |-> 0]

NoMessage == [type |-> 0, id |-> 0, size |-> 0, price |-> 0, side |-> "Buy"]

Init ==
  /\ sizes = [id \in {} |-> 0]
  /\ event = NoEvent
  /\ book = EmptyBook
  /\ message = NoMessage

Known(m) == m.id \in DOMAIN sizes

Event(type, m, quantity) ==
  [type |-> type, id |-> m.id, side |-> m.side, price |-> m.price, quantity |-> quantity]

\* noop(): a CANCEL of id 0, which never rests.
Noop == [type |-> "Cancel", id |-> 0, side |-> "Buy", price |-> 0, quantity |-> 0]

Write(m, ev, new_sizes) ==
  /\ event = NoEvent
  /\ message' = m
  /\ event' = ev
  /\ sizes' = new_sizes
  /\ UNCHANGED book

ConvertNew(m) ==
  /\ m.type = 1
  /\ Write(m, Event("Add", m, m.size), Put(sizes, m.id, m.size))

\* Faulty variant: the row has the size of the message, not what is left.
ConvertReductionByDelta(m) ==
  /\ m.type \in {2, 4} /\ Known(m)
  /\ sizes[m.id] - m.size > 0
  /\ Write(m, Event("Modify", m, m.size), Put(sizes, m.id, sizes[m.id] - m.size))

\* Faulty variant: the row leaves out the price.
ConvertReductionUnpriced(m) ==
  /\ m.type \in {2, 4} /\ Known(m)
  /\ sizes[m.id] - m.size > 0
  /\ Write(m, [Event("Modify", m, sizes[m.id] - m.size) EXCEPT !.price = 0],
           Put(sizes, m.id, sizes[m.id] - m.size))

\* A partial deletion or an execution that leaves something.
ConvertReduction(m) ==
  /\ m.type \in {2, 4} /\ Known(m)
  /\ sizes[m.id] - m.size > 0
  /\ Write(m, Event("Modify", m, sizes[m.id] - m.size),
           Put(sizes, m.id, sizes[m.id] - m.size))

\* One that leaves nothing, or a deletion.
ConvertRemoval(m) ==
  /\ Known(m)
  /\ \/ m.type \in {2, 4} /\ sizes[m.id] - m.size <= 0
     \/ m.type = 3
  /\ Write(m, Event("Cancel", m, 0), Without(sizes, m.id))

\* Messages about unseen orders, and those that change no visible order.
ConvertOther(m) ==
  /\ \/ m.type \in {2, 3, 4} /\ ~Known(m)
     \/ m.type \notin 1 .. 4
  /\ Write(m, Noop, sizes)

Convert(m) ==
  \/ ConvertNew(m)
  \/ ConvertReduction(m)
  \/ ConvertRemoval(m)
  \/ ConvertOther(m)

\* The replay of the row.
Apply ==
  /\ event # NoEvent
  /\ book' = Replay!Applied(book, event)
  /\ event' = NoEvent
  /\ UNCHANGED <<sizes, message>>

\* What an exchange may say next; type 5 stands for 5, 6 and 7.
Message == [type : {1, 2, 3, 4}, id : OrderIds, size : Quantities, price : Prices, side : Sides]
           \cup [type : {5}, id : {0}, size : Quantities, price : Prices, side : {"Buy"}]

Conforms(m) ==
  /\ m.type = 1 => ~contains(book, m.id)
  /\ m.type \in {2, 3, 4} /\ contains(book, m.id) =>
       book.locations[m.id] = [side |-> m.side, price |-> m.price]

Next ==
  \/ \E m \in Message : Conforms(m) /\ Convert(m)
  \/ Apply

Spec == Init /\ [][Next]_vars

(***************************************************************************)
(* Properties                                                              *)
(***************************************************************************)

\* The book is well typed and self-consistent; every event that is not a
\* no-op is about an order that the replay will find as the adapter thinks.
TypeOK ==
  /\ WellTyped(book)
  /\ check_invariants(book)
  /\ DOMAIN sizes \subseteq OrderIds
  /\ event.type = "Add" => ~contains(book, event.id)
  /\ event.id # 0 /\ event.type \in {"Cancel", "Modify"} => contains(book, event.id)

\* The adapter's map is what the replayed book holds, whichever messages were
\* oversized or about unseen orders: no order is left behind on either side.
SizesAreTheBook ==
  event = NoEvent =>
    sizes = [id \in DOMAIN book.locations |-> find(book, id).quantity]

\* The queue of every level, as ids.
IdsOf(b, side, price) ==
  IF price \in DOMAIN b.levels[side]
  THEN [k \in DOMAIN b.levels[side][price].queue |-> b.levels[side][price].queue[k].id]
  ELSE <<>>

\* An execution or a partial deletion costs no order its place: every queue
\* stays as it is, less the order that has nothing left. The exchange's
\* later executions, in its own priority, stay those of the front.
ReductionsKeepPriority ==
  [][Apply /\ message.type # 1 =>
       \A side \in Sides, price \in Prices :
         LET Stays(id) == contains(book', id)
         IN IdsOf(book', side, price) = SelectSeq(IdsOf(book, side, price), Stays)
    ]_vars
=============================================================================
