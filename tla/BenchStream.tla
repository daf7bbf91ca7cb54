---------------------------- MODULE BenchStream ----------------------------
(***************************************************************************)
(* The stream that the benchmarks time (make_stream in src/bench_main.cpp): *)
(* adds, and cancels and modifies of ids that it keeps in a vector `live`, *)
(* from which an id is removed by writing the last one over it.  The       *)
(* generator never looks at a book.  Random choices are free.              *)
(***************************************************************************)
EXTENDS Orders, Sequences

CONSTANT
  MaxIds   \* bound on the ids given out

VARIABLES
  with_market,   \* whether there are market orders
  live,      \* live
  next_id,   \* next_id
  op         \* the operation generated last; NoOp when it has been run

NoOp == [kind |-> "None", id |-> 0, side |-> "Buy", price |-> 0, quantity |-> 0]

Init(market) ==
  /\ with_market = market
  /\ live = <<>>
  /\ next_id = 1
  /\ op = NoOp

Push(kind, id, side, price, quantity) ==
  /\ op = NoOp
  /\ UNCHANGED with_market
  /\ op' = [kind |-> kind, id |-> id, side |-> side, price |-> price,
            quantity |-> quantity]

\* Faulty variant: the id is not counted up.
NewIdReused == next_id <= MaxIds /\ UNCHANGED next_id

NewId == next_id <= MaxIds /\ next_id' = next_id + 1

PushMarket(side, quantity) ==
  /\ with_market /\ live # <<>>
  /\ NewId
  /\ Push("Market", next_id, side, 0, quantity)
  /\ UNCHANGED live

PushAdd(side, price, quantity) ==
  /\ NewId
  /\ Push("Add", next_id, side, price, quantity)
  /\ live' = Append(live, next_id)

\* Faulty variant: the last id is dropped, without being written over k first.
DropLast(k) == SubSeq(live, 1, Len(live) - 1)

\* live[k] = live.back(), and pop_back.
Drop(k) == SubSeq([live EXCEPT ![k] = live[Len(live)]], 1, Len(live) - 1)

PushCancel(k) ==
  /\ k \in DOMAIN live
  /\ Push("Cancel", live[k], "Buy", 0, 0)
  /\ live' = Drop(k)
  /\ UNCHANGED next_id

PushModify(k, price, quantity) ==
  /\ k \in DOMAIN live
  /\ Push("Modify", live[k], "Buy", price, quantity)
  /\ UNCHANGED <<live, next_id>>

\* make_stream is called once more.
Restart(market) ==
  /\ op = NoOp
  /\ with_market' = market
  /\ live' = <<>>
  /\ next_id' = 1
  /\ UNCHANGED op

Generate ==
  \/ \E side \in Sides, quantity \in Quantities :
       \/ PushMarket(side, quantity)
       \/ \E price \in Prices : PushAdd(side, price, quantity)
  \/ \E k \in 1 .. MaxIds :
       \/ PushCancel(k)
       \/ \E price \in Prices, quantity \in Quantities : PushModify(k, price, quantity)

Live == {live[k] : k \in DOMAIN live}

\* The vector holds no id twice, though its elements move about, and only ids
\* that were given out; an operation is about one of those.
LiveIsASet ==
  /\ \A j, k \in DOMAIN live : live[j] = live[k] => j = k
  /\ Live \subseteq 1 .. next_id - 1
  /\ next_id \in 1 .. MaxIds + 1
  /\ op # NoOp => op.id \in 1 .. next_id - 1
=============================================================================
