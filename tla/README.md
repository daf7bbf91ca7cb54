# A TLA+ verification of the order book engine

This directory models this repository in TLA+: the matching engine, its two books,
the replays and the order-flow signal, the programs around them, the Python
generators and the LOBSTER path that meet them in CSV files, and the decisions of
the backtest. TLC checks the models on small instances; the TLA+ proof system
proves the central theorems for every value of the constants.

Paths below are relative to the repository's root. `PROJECT.json` maps every
definition to the lines it was translated from, lists the runs with their
mutants, and lists the hazards of the code with the properties that guard them.

## 1. The system

| Component | Source | State | Operations | Used by |
|---|---|---|---|---|
| Order, Trade | `include/obme/Order.hpp`, `Trade.hpp` | none | values | all |
| PriceLevel | `PriceLevel.hpp`, `.cpp` | linked list `head_`, `tail_`, owning map `nodes_`, cached `total_quantity_` | add, cancel, reduce, front, find, snapshot, move | both books |
| OrderBook | `OrderBook.hpp`, `.cpp` | two sorted maps of levels, `locations_` | add, cancel, modify, best price and depth queries, `check_invariants` | engine, replays |
| MatchingEngine | `MatchingEngine.hpp`, `.cpp` | a book, `executed_volume_` | submit, cancel, modify | matching replay, benchmark |
| FlatArrayBook | `FlatArrayBook.hpp`, `.cpp` | two arrays of levels, best indexes, share counts, `locations_` | as OrderBook | tests, benchmark |
| OrderFlowImbalance | `OrderFlowImbalance.hpp`, `.cpp` | the previous snapshot | update (two overloads), reset | replays |
| EventReplay | `EventReplay.hpp`, `.cpp` | a stream, an imbalance, the caller's engine or book | parse, replay, replay_book_only | command line |
| Command line | `src/main.cpp` | arguments, three output files | read the arguments, open, parse, replay, report | user |
| Benchmark | `src/bench_main.cpp` | the vector `live` of ids | make a stream, run it on the engine and on both books | user |
| Synthetic generator | `python/generate_synthetic.py` | a `ShadowBook` | write events and the truth | validation |
| LOBSTER fixture | `python/make_lobster_fixture.py` | a `ShadowBook` | write messages and order book rows | adapter |
| LOBSTER adapter | `python/lobster_adapter.py` | remaining sizes by id | messages to events, order book rows to truth | book-only replay, validation |
| Validation | `python/validate.py` | none | compare two files row by row | user |
| Backtest | `python/backtest.py` | none | bins, regressions, positions, PnL, dead-band | user |
| Plots | `python/plots.py` | none | draw | user |

Every program runs on one thread; there are no callbacks and no retries. Components
interact by calls and, between programs, by CSV files joined row by row. What is
hard here is not concurrency but

* **redundant state**: the list and the map of a level, the cached totals, the
  id index, the best index and the share counts of the array book, the previous
  snapshot of the signal, the adapter's sizes, the benchmark's live ids. Each is
  updated by its own statement;
* **two implementations that must agree**: map book and array book, the engine and
  the shadow book in Python, the fixture's rows and the reconstructed book;
* **order**: price-time priority over levels that disappear while a loop walks
  them; rows that are joined by position; a stable sort; a forward return that must
  not be a past one;
* **long sequences of legal calls**: a wrong pointer or a stale entry shows many
  calls after the mistake;
* **partial failure**: files that are truncated before the input is known to be
  sound, runs that are killed, reruns with other options into the same directory;
* **edges**: the last order of a level, the last level of a side, exact and partial
  fills, the ends of the price band, the width of the numbers in the input;
* **assertions as guards**: the default build is Release, so preconditions that
  are only asserted are not checked (`CMakeLists.txt`).

What makes each component correct:

* PriceLevel: the list and the map hold the same orders, once each, in arrival
  order; the total is the sum of the sizes.
* OrderBook: an id is indexed exactly when one queue holds it, where the index
  says; no empty levels; a decrease keeps its place, all else goes to the back.
* MatchingEngine: never crossed, price-time priority, no share appears or
  vanishes, other orders change only by reported trades, every call returns.
* FlatArrayBook: the same book as OrderBook, with exact best indexes and counts.
* OrderFlowImbalance: the documented formula on the last two snapshots.
* Replays: the events are the rows, in time order and file order; a row for each
  event, agreeing with the book and with each other, with a signal that belongs to
  that event; the files alone explain the book; book-only, no stream misuses it.
* Command line: exit code 0 means complete files of this run, whatever earlier runs
  left; rows of different runs never stand together.
* Benchmark: no operation that is timed is a miss, and no call violates a precondition.
* Generators, adapter, validation: the truth is the engine's book, row by row.
* Backtest: the signal precedes the return, returns are mid changes as far as the
  file shows them, the band and its scale are chosen on the training window alone.

## 2. The modules

Values and operators first, then the state machines that use them. `=>` is a
refinement that TLC checks, `<=>` a lockstep comparison:

    Orders                     ids, sides, prices; Better, Crosses
      LevelOps                 a level as a FIFO queue
        PriceLevel             the linked list and its map     => FifoLevel
        BookOps                the map book as a value; check_invariants; Agrees
          OrderBook            state machine of the map book   => PriorityBook
          FlatArrayBook        state machine of the array book (PriceBand)
            TwoBooks           both books                      OrderBook <=> FlatArrayBook
              Bench            BenchStream run on MatchingEngine and on TwoBooks
          MatchingEngine       submit, match, cancel, modify
            MatchingRefinement                                 => PriceTimePriority
          BenchStream          the stream of the benchmarks
          Snapshots            what the replays read of a book
            EventReplay        MatchingEngine + OrderFlowImbalance
              ReplayFile       EventParse + sort + EventReplay, whole files
                               => EventReplay
            BookOnlyReplay     a book + OrderFlowImbalance     => OrderBook
              LobsterAdapter   the adapter + BookOnlyReplay
                LobsterFixture the fixture, validation, files of either origin
                                                               => LobsterAdapter's messages
            SyntheticPipeline  ShadowBook <=> MatchingEngine, validation
      OrderFlowImbalance       the signal
        FlowHistory            the signal summed over time
      ShadowBook               the Python book
    EventRows, EventParse      the input file, row by row
    CliArguments, EngineCli    the command line and its files
    Backtest                   bins, positions, dead-band
    PriorityQueues, PriorityBook, PriceTimePriority, FifoLevel
                               the abstract specifications
    BookLemmas                 facts about the operators of LevelOps and BookOps
      PriceLevelProofs, OrderBookProofs, MatchingEngineProofs, EventReplayProofs,
      BookOnlyReplayProofs, FlowHistoryProofs, EngineCliProofs
                               the theorems, by component
    MC*                        instances for TLC

### How state and actions correspond to the code

* **PriceLevel.** `list[l]` is one object with its five members. A node lives as
  long as its map entry and an id has one node per level, so a `Node*` is the id
  of its order and `nullptr` is `NULL`; a pointer to an id outside the map
  dangles. `LinkAtBack` and `Unlink` make the assignments of `add_order` and
  `unlink`; `move_from` is the move constructor and assignment between two
  objects. A call that the code refuses changes nothing.
* **LevelOps, BookOps.** The books are written over queues instead of lists, which
  the refinement PriceLevel => FifoLevel justifies. A side is a function from the
  prices that have a level; `Emplace` keeps an existing entry, as `emplace` does.
  Each operator returns the book that the C++ call leaves behind, so that
  `modify_order` is the composition of a removal and an insertion that it is in
  the code, and `MatchingEngine` can call it in the middle of a step.
* **MatchingEngine.** `pc = "match"` while `submit`, or the slow path of
  `modify`, is in the loop; `Fill` is one iteration, `Finish` the exit of the loop
  and the rest of `submit`. The trade, the volume, the remaining shares and the
  book change in one step, as no other code can look in between. `trades` is the
  vector the call returns.
* **FlatArrayBook, TwoBooks.** Arrays are functions on `0 .. max_price - min_price`.
  The linear scans are the highest and the lowest index with orders in the range
  that they walk. `TwoBooks` makes each call on both books.
* **OrderFlowImbalance.** The four vectors are two ladders of [price, quantity].
* **EventRows, EventParse, ReplayFile.** A line is a sequence of fields, a field a
  member of a small set, of which `Numerals` says which ones `stoll` reads to the
  end and as what number, and `HeaderFields` which ones begin with "timestamp", as a
  header does; `HalfRange` is the instance's 2^63. `Read` is one iteration of
  `parse`'s loop. `ReplayFile` extends EventReplay: `Sort` puts each event in the
  place behind all that go in front of it, `DispatchNext`, `MatchOn` and `EmitRows` are
  EventReplay's steps on the next event of the sorted stream, and all rows of
  `trades.csv` and `book.csv` are kept with their times, and the summary.
  `Abort` is `submit`'s assertion on a resting id.
* **EventReplay.** `Dispatch` is the switch, `Match` the engine's loop, `Emit` the
  output of an event's rows. `row` keeps the rows written last. The stream is
  chosen event by event, which gives every stream of that length. It respects
  the input schema of `data/README.md` (an id is unique among resting orders):
  the code does not check that.
* **BookOnlyReplay.** The same without matching and with no assumption on ids.
* **CliArguments, EngineCli.** One iteration of the argument loop per step, then one
  action for each thing that can fail or that a kill can fall between: opening the
  input, creating the directory, opening `book.csv` and `ofi.csv` (which truncates
  them), parsing, opening `trades.csv`, the headers, each event's rows, the exit.
  The environment fails any open, kills the run anywhere and keeps of each file some
  part from the front; further runs follow in the same directory. Of a row only its
  run counts, and of a file its header and number of rows.
* **ShadowBook, SyntheticPipeline.** Every method of the Python class. `generate`
  draws at random; here every draw is possible. The engine replays each event as it
  is written, and the two books' rows are what `validate.py` compares.
* **LobsterAdapter, LobsterFixture.** One action for each message type, the
  adapter's own map of sizes, the event it writes, and the replay that applies it.
  Messages come from an exchange that conforms to the format, orders from before
  the file included, or from the fixture generator with its order book rows.
* **BenchStream, Bench.** `make_stream` with its vector `live`, from which an id is
  removed by writing the last one over it; then what the two benchmarks do with each
  operation. The first runs an instance of MatchingEngine, whose book is the variable
  `book`; the second runs the calls of TwoBooks, on a new book and the array book.
* **Backtest.** `load_bins` row by row; then `positions`, turnover, PnL and
  `_select_deadband` on predictions that are free. Mids are doubled to be integers.
  `np.std` is the operator `Std`, whose value the instance gives: the model says of
  which predictions it is taken, and that a deviation of 0 becomes 1.

Left out as data: the text of CSV rows and messages, the order's timestamp inside
the books (nothing there compares it; `ReplayFile` has the times), 64-bit widths
inside the books (prices and sizes are unbounded integers; no operation of the
modelled code can wrap before 2^63 shares have traded; the width of the numbers of
the input is in `EventRows`), return values that only repeat whether anything
changed.

## 3. What is checked

| Run | What it shows | Bounds |
|---|---|---|
| `price_level` | `WellLinked`: list and map agree after any calls and moves. `ImplementsFifo`: walking the list gives the abstract queue. | 2 objects, 3 ids: lists with a head, a middle and a tail |
| `two_books` | `StaysConsistent`, `ChecksOut`, `DepthLadder` of the map book; `SameBooks`: the array book holds the same and gives the same answers; `ImplementsPriorityBook` | 3 ids, 3 prices in a band of 5, with a gap and free ends |
| `matching_engine` | `BookStaysSound`, `Conservation`, `OnlyTradesTouchOthers`, between any two fills; `ImplementsPriceTimePriority` | 4 ids, 3 prices, sizes 1 and 3, volume at most 4: one order against three, over three levels, the last hit in part |
| `flow_history` | `FollowsFormula`, `Telescopes`: the signal is the documented sum, and adds up to the change of the queues while prices stand | 2 levels, 2 prices, sizes 1 and 2; any snapshot after any other. Ladders are as long as the levels tracked, or shorter; longer ones only in the theorem |
| `event_replay` | `RowsAgree`, `SignedFlow`: the three rows of an event tell of one book, and its signal has the sign of its side | 5 events, 4 ids, 3 prices, 2 tracked levels |
| `book_only_replay` | `RespectsBook`: seen from the book there are only legal calls. `SignalIsOfItsEvent` | 4 events, 3 ids that come back, 3 prices |
| `replay_file` | `EventsAreTheRows`: the file is refused at its first unsound row or becomes its rows. `TimeThenFileOrder`, `SummaryOfRows`; `FilesExplainTheBook`: input and trades alone tell what each resting order has left. `ReplayEnds` (liveness) | files of 4 lines, from a set that has each kind of sound and unsound row at two times; numbers from -4 to 3; two headers, one that only begins like the usual one |
| `engine_cli` | `ReadsTheGrammar`, `SuccessIsComplete`, `NoMixedRows`, `FailureWritesNothing` | 3 runs into one directory, 2 rows, 4 arguments for the first |
| `synthetic_pipeline` | `SameBook`: generator and engine have the same book at every row. `StreamIsCoherent`, `PassiveOrdersRest` | 4 ids, prices 1 to 5, sizes 1 and 2, offsets to 2 |
| `lobster` | `SizesAreTheBook`, `ReductionsKeepPriority`, `FixtureValidates`, `FixtureIsLobster` | 5 ids of the fixture, 3 of an exchange |
| `bench` | `SubmitsFreshIds`; `RestingIsLive`: every resting order can still be drawn, and without matching no operation misses in either book | 4 ids, 2 prices in a band of 4, volume at most 4 |
| `backtest` | `SignalPrecedesReturn`; `ReturnsFollowTheBook`: a return is off by no more than the digits that the file lacks, and never of the wrong sign; `WiderTradesLess`, `TunedOnTraining` | 6 rows in bins of 2, mids 99999.5, 100000.5 and 100001.5: exact, rounded down and rounded up; 4 predictions, 3 multiples of their deviation |

`check_invariants` is the code's own self-check, so `ChecksOut` says that it would
return true at every point. It counts orders, so a duplicate could hide a missing
one; `IndexAgrees`, a part of `StaysConsistent`, is the exact statement and the one
that is proved. `Conservation` states the identities of `tests/test_invariants.cpp`
per step: a submit brings its size, a fill converts, only a market order's remainder
is dropped, a cancel takes its own size, a modify swaps the old size for the new.
`SameBooks` is `expect_same_state` of `tests/test_flat_array_book.cpp`, and more. A
module's type invariant is a conjunct of one of its run's invariants.

Refinements connect the detailed to the abstract:

* PriceLevel implements FifoLevel: `snapshot()` is the abstract queue.
* OrderBook implements PriorityBook: each side is one queue, best and oldest first.
* MatchingRefinement implements PriceTimePriority, in which a call happens at
  once and its trades are a closed formula without a loop. A call in progress is
  mapped to the outcome that the formula predicts from the current state, so the
  refinement says that every iteration preserves that prediction.
* BookOnlyReplay implements OrderBook (`RespectsBook`), whatever the stream holds.
* LobsterFixture writes only messages that LobsterAdapter allows of an exchange
  (`FixtureIsLobster`), so what is shown of any conforming file holds of its files.

The array book, which has the same operations as the map book, is compared with it
in lockstep, state and answers, in `two_books`.

**Bounds.** They are small because each hazard is local: it takes at most three
orders in a queue to have a head, a middle and a tail, three levels to skip one, four
orders for one that sweeps two levels and stops in the third, two equal times and a
third row to lose stability, a finished run and a killed one for a third to inherit
from. `MaxVolume`, `MaxEvents`, `MaxLines`, `MaxRuns`, `MaxRows`, `MaxArgs` and the
others named in the modules bound what would grow for ever. Identifiers are only
compared for equality, so the runs of safety properties use their symmetry where
nothing else tells them apart.

**Deadlock** is checked where some call is always possible (`price_level`,
`two_books`, `matching_engine`, `flow_history`) and is off where the system really
stops: a file, a stream or the budget of ids or runs ends.

**Mutants.** Every property has one: a faulty variant of one definition, named
`Faulty variant` in the modules, under which its run finds the property violated.

**Fairness.** Only `ReplayFile` states any, weak fairness of `FileNext`, for
`ReplayEnds`: every file is read, sorted and replayed to the end, or refused, or
stopped by the assertion. That program is one function after the other on one thread
which waits for nothing, so it takes a next step as long as there is one.

## 4. What is proved

| Theorem | Statement |
|---|---|
| `LevelsStayLinked` (`PriceLevelProofs`) | `Spec => []WellLinked` for PriceLevel |
| `ListImplementsFifo` (`PriceLevelProofs`) | `Spec => ImplementsFifo`: the linked list implements FifoLevel |
| `BookStaysConsistent` (`OrderBookProofs`) | `Spec => []StaysConsistent` for OrderBook |
| `InvariantsCheckOut` (`OrderBookProofs`) | `Spec => []ChecksOut`: `check_invariants()` returns true |
| `DepthIsTheBook` (`OrderBookProofs`) | `Spec => []DepthLadder` |
| `BookImplementsPriorityBook` (`OrderBookProofs`) | `Spec => ImplementsPriorityBook`: the map book implements PriorityBook |
| `EngineStaysUncrossed` (`MatchingEngineProofs`) | `Spec => []BookStaysSound` for MatchingEngine |
| `LoopTerminates` (`MatchingEngineProofs`) | every `Fill` leaves fewer shares, never fewer than 0 |
| `SharesAreConserved` (`MatchingEngineProofs`) | `Spec => Conservation` |
| `OthersChangeByTradesOnly` (`MatchingEngineProofs`) | `Spec => OnlyTradesTouchOthers` |
| `EngineImplementsPriceTimePriority` (`MatchingEngineProofs`) | `RefinementSpec => ImplementsPriceTimePriority`: the engine implements PriceTimePriority |
| `ArrayBookIsTheMapBook` (`OrderBookProofs`) | `PairSpec => []SameBooks` |
| `StreamSubmitsFreshIds` (`OrderBookProofs`) | `BenchSpec => []SubmitsFreshIds` |
| `StreamReachesWhatRests` (`OrderBookProofs`) | `BenchSpec => []RestingIsLive` |
| `OutputsAgree` (`EventReplayProofs`) | `Spec => []RowsAgree` |
| `SignIsTheDirection` (`EventReplayProofs`) | `Spec => SignedFlow` |
| `FileReplayIsReplay` (`EventReplayProofs`) | `FileSpec => Spec`: the replay of a file is a replay of its events |
| `ReplayReadsTheRows` (`EventReplayProofs`) | `FileSpec => []EventsAreTheRows` |
| `ReplayKeepsFileOrder` (`EventReplayProofs`) | `FileSpec => []TimeThenFileOrder` |
| `SummaryIsOfTheRows` (`EventReplayProofs`) | `FileSpec => []SummaryOfRows` |
| `ReplayIsToldByItsFiles` (`EventReplayProofs`) | `FileSpec => []FilesExplainTheBook` |
| `ReplayRespectsBook` (`BookOnlyReplayProofs`) | `Spec => RespectsBook`: the book-only replay implements OrderBook |
| `ReconstructedBookStaysConsistent` (`BookOnlyReplayProofs`) | `Spec => []Book!StaysConsistent` for BookOnlyReplay |
| `SignalOfTheEvent` (`BookOnlyReplayProofs`) | `Spec => SignalIsOfItsEvent` |
| `FlowAddsUp` (`FlowHistoryProofs`) | `HistorySpec => []Telescopes` for FlowHistory |
| `SamplesFollowFormula` (`FlowHistoryProofs`) | `HistorySpec => FollowsFormula` for FlowHistory |
| `SuccessAlwaysComplete` (`EngineCliProofs`) | `Spec => []SuccessIsComplete` for EngineCli |
| `RowsNeverMix` (`EngineCliProofs`) | `Spec => []NoMixedRows` |
| `FailuresLeaveNoRows` (`EngineCliProofs`) | `Spec => []FailureWritesNothing` |
| `ArgumentsAreUnderstood` (`EngineCliProofs`) | `Spec => []ReadsTheGrammar` |
| `TypeCorrectness` (`EngineCliProofs`) | `Spec => []TypeOK` for EngineCli |

for any sets of level objects, ids and prices and any positive sizes, any band of
the array book that has the prices, any bound on volume or events, any number of
runs, rows and arguments, any words and unknown options.

**Sums.** A cached total is right if it is the sum of a queue, and the sums of the
model are the recursive folds of the community modules. `BookLemmas` begins with
what is needed of them: the recursion has exactly one solution on a finite set
(`SumsExist`, `SumsAgree`), so a sum may be taken apart at any element (`SumTakes`),
not only at the one that `CHOOSE` takes, and changes with one element by the
difference (`SumAdded`, `SumRemoved`, `SumChanged`). The inductions are over the
subsets of a finite set, by the well-foundedness of the natural numbers (`AllNaturals`,
`AllSubsets`), with the hypothesis as a set and not as an operator.

**The level.** `WellLinked` is not inductive: it does not say in which order the walk
meets the nodes. The invariant (`AllHold`) is that each object holds some level of
`LevelOps`: the nodes of the map are the orders of a queue without twins, each pointer
is the id of the neighbour in that queue, and the cached total is exact. Each call is
then one lemma: `LinkAtBack` holds the appended queue, `Unlink` and `Erase` the queue
without that position, wherever it is. The walk of `snapshot()` is a recursive
function; `WalkVisits` computes it (its n-th step is the id at position n + 1, and
nullptr behind the last), so `snapshot()` reads that queue. The refinement follows: a
call on the list is the same call on what is read of it.

**The book.** `BookLemmas` says what appending, removing and resizing do to a
queue without twins: who is in it afterwards, at which place, that no twins arise, and
that the total stays exact. It lifts that to a book: `Agrees` with the types
is inductive under insertion of a fresh id, cancellation, in-place reduction and,
composed of these, modify. `Agrees` is needed in both directions: a cancel follows the
index into a level, and the level that it empties must not be named by any other entry.
`check_invariants` counts, which says less than `Agrees` and is not inductive. That it
never fails is derived: exact totals (`Counts`, inductive beside `Agrees`) and a
bijection between the index and the queued orders. So is `DepthLadder`: the number of
better prices is a bijection between the prices of a side and 0 .. n - 1, which makes the
ladder the sorted map (`LadderSorts`), and the sum over the ids that the index has at a
price is the sum over that queue renamed (`LevelShares`, by `SumRenamed`).

**Price-time priority of the book.** The refinement of PriorityBook does not compute
`snapshot()`, a fold over a ladder of queues, after each call. It says what a snapshot is:
a sequence that holds every indexed order of its side once, sorted by the relation
`Precedes` (a better price, or the same price and an earlier place in the level's
queue). `SnapshotLists` shows that the fold is such a sequence, `ListsOnce` that a book
has only one. It remains to show, call by call, that the abstract queue after the
abstract call lists the book after the call (`QueuedLists`, `RemovedLists`,
`ResizedLists`): what joins the back of its level comes behind everything at its own
price or a better one, a removal closes a gap in one level and in the sequence, and a
reduction moves nothing. The two are then equal. The invariant needed is that of
`BookStaysConsistent` with the exact counts, for the finiteness of a side.

**The engine.** `NeverCrossed` is not inductive on its own. A fill only takes orders
out, so it keeps the book uncrossed; the aggressor's remainder rests only when the
loop has ended on a best price its limit does not reach, or with the other side
empty, so every price there is behind that best one. That needs the aggressor not to
be in the book (`TypeOK`) and the index to be right (`IndexAgrees`), and the three
are proved together. `LoopTerminates` is an action property from the same invariant:
front orders have positive size, so each fill is at least 1. `Conservation` and
`OnlyTradesTouchOthers` are action properties from it too: what a call does to the
shares of one id and to `total_shares` is a lemma on each operation of the book.

**Price-time priority of the engine.** A call in progress maps to the outcome that the
closed form (`Outcome`) predicts of the book, the trades and the shares left at that
point, so a call starts with an abstract step and everything after it must leave the
prediction as it is (`FillSettles`, `FinishSettles`): the loop invariant of `match`, which
the code has nowhere. One iteration either takes the first order out of the opposite
queue or shrinks it there (`FilledQueues`), because the front order of the best level is
the first of the snapshot (`FrontFirst`) and the index leads back to it. `FilledParts` is
the algebra of the closed form: what the formula takes from a queue is this fill, and then
what it takes from the queue left behind for that much less, position by position; the
sum of the fills, the queue that is left and the trades printed all follow. The loop
ends where the formula has nothing more to take (`OverReachesNothing`), and a remainder
rests by the same lemma as in the book. No invariant is needed beyond that of
`EngineStaysUncrossed`.

**The two books.** The invariant (`PairInv`) says what each cell of the arrays holds
for the map book: its level at that price or, where it has none, an empty level; that
the share counts are the totals of its sides; and that a best index is that of its
best price. The scans are the hard part: after a level empties, the scan from the old
best must end on the next level or at the end of the band, which is true because
nothing was better than the old best. The map book's own consistency and exact totals
are part of the invariant, because a level that empties must leave a total of 0 behind
in its cell.

**The benchmark.** What can be named by the stream and what rests are inductive
together only with the operation in between (`BenchInv`): the vector holds no id twice
(`DropForgets`: writing the last one over the k-th and dropping the last takes out the
k-th and nothing else), what rests is in the vector or is the id of the cancel that has
been made and not yet run, and the order being matched is out of the book, to come
back only if the vector has it, which a market order never does. So an id that is
new does not rest, whatever the engine has filled meanwhile. Without matching, the
inclusion is an equality but for the add that has not been run, and every operation
is a call that keeps `PairInv`, by which the two books index the same ids. The engine is an instance here; its operations on a
book are those of the map book (`EngineOperations`), whose lemmas then apply.

**The book-only replay.** That it implements OrderBook needs no invariant: each event
is a call that the book's precondition allows, or leaves the book as it is, because the
test stands in front of the call (`src/EventReplay.cpp:273`). The signal needs one
(`OneBehind`): there is a sound book, the one before the event in progress, from which
the last row and the remembered ladders were read, and the present book is that one with
the event applied. The rest is about ladders, which move as a whole when a level appears
or goes. On a side where no level loses shares (`Grows`) the k-th level is, for every k,
a better price or the same with no fewer shares (`TopsRise`), since at most k - 1 prices
stood before it (`LadderRises`); on a side that neither loses nor gains, every level is
the same. So an ADD has the sign of its side at each level, however deep it rests.

**The matching replay.** Its engine is the instance that `MatchingEngineProofs` is about
(`SameEngine`), so that every step keeps the engine's invariant (`EngineStep`). Beside it
stands the same idea as above, for an event that takes many steps: `OneBehind` says that
there is a sound book from which the last row and the remembered ladders were read, and
`InProgress` how far the engine has taken it. For an ADD or a MARKET its side has grown
and the opposite side has thinned (`Presses`): each fill takes shares from the opposite
side only (`FillEffect`), what rests joins the own side (`FinishEffect`), and both are
transitive. For a CANCEL one side has thinned and the other is the same. A book pressed
from one side gives contributions of one sign on both sides of every level
(`PressedLevel`), zero only where the level is the same, hence `SignedFlow`. The trades
need `TradesFit`: nothing is left against the last trade that is better than its price,
as it was the best when it printed and fills only remove; that the own side shows nothing
the trades should have reached is the engine's `NeverCrossed` when the row is written.

**Whole files.** A file's replay takes EventReplay's steps and stutters while it parses
and sorts (`FileStepReplays`), so that everything above holds of it. Four invariants are
added. *The parse* (`ParsePart`): the flag for the header is up once a line was not blank,
so the loop's notion of a row is that of the whole file (`LineAppends`), and `RowFault`,
which looks at the fields one by one after `split_csv` has lost one, finds nothing exactly
on the rows that are well formed (`WellFormedRows`). *The sort*: the place of an event
counts those in front of it; places are a bijection (`PlacesFill`) that keeps times in
order (`SortedInTime`) and counts the events of one time as the file does
(`SortedKeepsOrder`). *The summary* (`TradesPart`, `OutputPart`): the rows of trades,
those of the event in progress included, have the engine's volume at every iteration of
its loop. *The sizes* (`SizesPart`): `FilesExplainTheBook` speaks of the book between two
events, and is not inductive. The invariant holds in the middle of a match too: each
resting order, and the aggressor if what is left of it may rest, has the size that the
last event to size it gave it, less the rows since (`Explains`). An event that sizes an
order starts a new account (`ExplainsNew`), because rows carry the number of their event;
any other leaves it (`ExplainsOn`); a fill takes the same shares from two sizes and two
accounts (`ExplainsFill`). A MODIFY that trades is covered because the order leaves the
book when its new account starts and comes back with what the match has left of it.

**The signal over time.** These two theorems are about the imbalance by itself, for any
snapshots and resets. `Telescopes` is not inductive: it is silent while the best prices
move. `FlowInv` adds that the anchor has the best prices of the last snapshot or is that
snapshot, so that an update either continues the sum, by the change of the two best
queues (`StandingTouch`), or starts it at 0. That one condition carries over the updates
because equal best prices are transitive and a reset has none (`Forgotten`). For
`FollowsFormula` the three branches of each contribution are its two indicators
(`IndicatorForm`), and the loop's test for a level in all four ladders is the least of
their lengths (`LeastOfFour`).

**The files of the command line.** None of the three properties is inductive: each
speaks of the end of a run, or of rows, and is only true because of where `main` had
been. The invariant (`Progress`) says for every place where main can stand which files
are of this run and what they hold: before an open all are of earlier runs, after it
they are empty, from the headers on `book.csv` and `ofi.csv` have one row for each event
and `trades.csv` one for each trade, unless the run does not match. What matters about a
kill is that it takes `book.csv` and `ofi.csv` of one run or of none, and that no row
stands in `book.csv` before `trades.csv` is opened (`FilesOfARun`).

**The arguments.** `ReadsTheGrammar` compares a verdict with a grammar that looks at the
whole command line; the loop sees one argument at a time. In the grammar the values are
what follows a run of value options of odd length, and everything rests on the
recurrence that this implies (`NextIsValue`): an argument is a value exactly if the one
before it is a value option and no value itself. The loop invariant
(`KnowsThePassed`) says that the loop stands at an item, that no fault and no call for
help is behind it, and that each variable is what the items behind it make of it: the
file is a word among them, `book_only` says that the option is among them, and
`out_dir` and `ofi_levels` have the value of the last of theirs. At a fault
(`RefusedAtFault`), a call for help or the end that becomes the verdict.

Assumptions: `PricesAssumption` (prices are integers), `QuantitiesAssumption`
(sizes are positive), `NullAssumption` (`nullptr` is no order), `BandAssumption` (the
band is a range that has the prices), `MaxVolumeAssumption`, `MaxEventsAssumption`,
`TrackedAssumption` and `LevelsAssumption` (at least one tracked level, as `main`
demands and the constructor of the imbalance ensures),
`BoundsAssumption` (the bounds are natural numbers), `IdsAssumption` (the ids of the
benchmark count from 1 to the bound), `MaxLinesAssumption` (no more
lines than events), `HalfRangeAssumption` (`long long` has a sign), `LinesAssumption`
(a line is a sequence of texts), `RowsCoveredAssumption` (the ids, prices and sizes of the
rows are among those of the engine's instance), `ArgumentsAssumption` (words,
unknown options and the known ones do not overlap, `std::stoi` gives integers). TLC evaluates them in the runs.

**Only model-checked:** the pipelines in Python and the backtest. The pipelines use
`ShadowBook`, whose loops are RECURSIVE operators, which the prover does not reach;
liveness (`ReplayEnds`) is out of its reach too.

## 5. Not modelled

* `python/plots.py`: drawing. Text, layout and wording of output in general.
* The clocks, repetitions and the report of the benchmark.
* The regressions of the backtest (`_fit`, `_oos_r2`): floating-point linear algebra.
  Their predictions are free in the model. A training window without a bin is left out
  too, as `_fit` cannot be computed for it.
* `validate.py`'s reading of CSV and its report of differences; its comparison is in
  `SameBook` and `FixtureValidates`.
* A Release build that is given an id that already rests: `submit`'s assertion
  (`src/MatchingEngine.cpp:49`) is absent and a level's list has two nodes for one id,
  one of them freed. `ReplayFile` stops there. Everything in the repository that
  produces streams avoids it (`StreamIsCoherent`, `SubmitsFreshIds`).
* Prices outside the array book's band, refused by an assertion only.
* Writes that fail: `main` never looks at its streams again (`src/main.cpp:124`), so a
  full disk loses rows under exit code 0. No property can hold of that.

## 6. Where documentation and code differ

Met while modelling; the models follow the code.

* `data/README.md:18` gives ids as uint64; they are read with `stoll`, so ids from
  2^63 on are refused and negative ones accepted.
* `EventReplay.hpp:17` says that only the id of a CANCEL matters; its side, price and
  size are parsed all the same, and a row is refused for them.
* `split_csv` loses an empty last field, so a row that ends in a comma counts one field
  less (`src/EventReplay.cpp:28`).
* `data/README.md:16` demands times in order; the replay sorts, and takes any order.
* `Trade.hpp:15` gives a trade the aggressor's time. After a MODIFY that is the time of
  the order's ADD, so the times in `trades.csv` need not be in order.
* `OrderBook.hpp:41` says that `modify_order` returns true if the order existed; for a
  non-positive size it returns false.
* `--ofi-levels 3x` is taken as 3, and `--out-dir` takes any next argument, an option
  included (`src/main.cpp:43` to 60).
* The mid is written with six significant digits (`src/EventReplay.cpp:134`), which
  loses halves from 100000 ticks on and whole digits from 1000000 on. "returns are
  mid-price changes in ticks" (`docs/results.md:11`) is therefore exact for the prices of
  that document, around 10000 ticks, and not in LOBSTER units. `ReturnsFollowTheBook` says
  what holds of every price, and is checked around 100000.
* `bench_main.cpp:36` speaks of still-live ids; in the stream with market orders an id
  may have been filled, and its cancel or modify does nothing.
* `backtest.py:94` says that band 0 reduces to `sign(pred)`; a prediction of exactly 0
  holds the position.
