------------------------------- MODULE Bench -------------------------------
(***************************************************************************)
(* The benchmarks (main in src/bench_main.cpp), one after the other. In    *)
(* the first the matching engine runs a stream with market orders; in the  *)
(* second the map book and the array book run one without, and nothing     *)
(* matches, so that the books may be crossed.                              *)
(*                                                                         *)
(* A stream is made before anything is run. It depends on no result, so an *)
(* operation may as well be run as soon as it is made; and the runs of the *)
(* two books share nothing but the stream, so that each operation may as   *)
(* well be run on both.                                                    *)
(***************************************************************************)
EXTENDS TwoBooks

CONSTANTS MaxIds, MaxVolume

ASSUME IdsAssumption == MaxIds \in Nat /\ OrderIds = 1 .. MaxIds

ASSUME MaxVolumeAssumption == MaxVolume \in Nat

\* The engine's book, in the first benchmark, is the variable that the map book
\* of TwoBooks has.
VARIABLES
  with_market, live, next_id, op,                    \* the stream
  executed_volume, pc, order, remaining, trades      \* the rest of the engine

matching == <<executed_volume, pc, order, remaining, trades>>

engine == <<book, matching>>

bench_vars == <<with_market, live, next_id, op, engine, flat>>

Stream == INSTANCE BenchStream

Engine == INSTANCE MatchingEngine

BenchInit == Stream!Init(TRUE) /\ Engine!Init /\ FlatInit

Generate == Stream!Generate /\ UNCHANGED <<engine, flat>>

Done == op' = Stream!NoOp /\ UNCHANGED <<with_market, live, next_id>>

(***************************************************************************)
(* The first benchmark                                                     *)
(***************************************************************************)

Submit ==
  /\ with_market
  /\ op.kind \in {"Add", "Market"}
  /\ Engine!Submit([id |-> op.id, side |-> op.side, price |-> op.price,
                    quantity |-> op.quantity,
                    type |-> IF op.kind = "Market" THEN "Market" ELSE "Limit"])
  /\ UNCHANGED <<with_market, live, next_id, op, flat>>

EngineCancel ==
  with_market /\ op.kind = "Cancel" /\ Engine!Cancel(op.id) /\ Done /\ UNCHANGED flat

\* A modify that matches is done when its match is.
EngineModify ==
  /\ with_market
  /\ op.kind = "Modify"
  /\ Engine!Modify(op.id, op.price, op.quantity)
  /\ IF pc' = "match" THEN UNCHANGED <<with_market, live, next_id, op>> ELSE Done
  /\ UNCHANGED flat

Fill == Engine!Fill /\ UNCHANGED <<with_market, live, next_id, op, flat>>

Finish == Engine!Finish /\ Done /\ UNCHANGED flat

(***************************************************************************)
(* The second, with a stream and books of its own                          *)
(***************************************************************************)

SecondBenchmark ==
  /\ with_market /\ pc = "idle"
  /\ Stream!Restart(FALSE)
  /\ book' = EmptyBook
  /\ executed_volume' = 0 /\ trades' = <<>>
  /\ UNCHANGED <<pc, order, remaining, flat>>

OnBooks == ~with_market /\ Done /\ UNCHANGED matching

AddOp ==
  /\ op.kind = "Add"
  /\ OnBooks
  /\ AddToBoth([id |-> op.id, side |-> op.side, price |-> op.price,
                quantity |-> op.quantity])

CancelOp == op.kind = "Cancel" /\ OnBooks /\ CancelInBoth(op.id)

ModifyOp ==
  op.kind = "Modify" /\ OnBooks /\ ModifyInBoth(op.id, op.price, op.quantity)

BenchNext ==
  \/ Generate
  \/ Submit \/ EngineCancel \/ EngineModify \/ Fill \/ Finish
  \/ SecondBenchmark
  \/ AddOp \/ CancelOp \/ ModifyOp

BenchSpec == BenchInit /\ [][BenchNext]_bench_vars

(***************************************************************************)
(* Properties                                                              *)
(***************************************************************************)

\* The stream keeps the precondition of submit and add_limit_order, which a
\* Release build does not check: an id that is added does not rest, though
\* ids come back from reprices, and the generator never learns what has
\* traded.
SubmitsFreshIds == op.kind \in {"Add", "Market"} /\ pc = "idle" => ~contains(book, op.id)

\* No order is out of the stream's reach: what rests can still be drawn from
\* the vector, each order once, but for the order whose cancel is next. And no
\* operation of the second benchmark is a cheap miss: with no matching, the
\* vector is exactly the set of ids that rest in the map book, and in the array
\* book, so that every cancel and modify that is timed finds its order.
RestingIsLive ==
  /\ Stream!LiveIsASet
  /\ DOMAIN book.locations \subseteq
       Stream!Live \cup (IF op.kind = "Cancel" THEN {op.id} ELSE {})
  /\ ~with_market /\ op = Stream!NoOp =>
       Stream!Live = DOMAIN book.locations /\ Stream!Live = DOMAIN flat.locations
=============================================================================
