----------------------------- MODULE ReplayFile -----------------------------
(***************************************************************************)
(* The matching replay of a whole file (parse_file and replay in           *)
(* src/EventReplay.cpp): EventParse makes events of its lines, they are    *)
(* sorted by time, EventReplay runs on the sorted stream, and here are all *)
(* rows of trades.csv and book.csv with their timestamps, and the summary. *)
(*                                                                         *)
(* Any file is taken, whatever the order of its times and the use of its   *)
(* ids; where submit's assertion on a resting id fails the replay stops    *)
(* ("aborted", a build with assertions).  A build without them goes on     *)
(* with a list that has two nodes for one id, which no module describes.   *)
(***************************************************************************)
EXTENDS EventReplay, EventRows

CONSTANT MaxLines   \* bound on the length of a file

ASSUME MaxLinesAssumption == MaxLines \in 0 .. MaxEvents

\* The next event as EventReplay takes it: what its handler does not read is
\* dropped, as Events has it.
Untimed(ev) ==
  [type |-> ev.type, id |-> ev.id,
   side |-> IF ev.type = "Cancel" THEN "Buy" ELSE ev.side,
   price |-> IF ev.type \in {"Add", "Modify"} THEN ev.price ELSE 0,
   quantity |-> IF ev.type = "Cancel" THEN 0 ELSE ev.quantity]

\* The bounded sets of the engine hold what the rows of a file can ask of it.
ASSUME RowsCoveredAssumption ==
  \A line \in Lines :
    LET f == split_csv(line)
    IN line # <<>> /\ RowFault(f) = "none" => Untimed(AsEvent(f)) \in Events

VARIABLES
  lines, line_no, checked_header, file, status, fault,   \* EventParse; `file` is its events
  events,     \* the events after the sort
  phase,      \* "reading", "replaying", "done" or "aborted"
  entered,    \* Order::timestamp of the ids that have been added
  trade_rows, \* the rows of trades.csv
  book_rows,  \* the rows of book.csv
  stats       \* the summary

parse == <<lines, line_no, checked_header, file, status, fault>>

outputs == <<trade_rows, book_rows, stats>>

file_vars == <<parse, vars, events, phase, entered, outputs>>

Parse == INSTANCE EventParse WITH events <- file

FileInit ==
  /\ Parse!Init
  /\ Init
  /\ events = <<>>
  /\ phase = "reading"
  /\ entered = [id \in {} |-> 0]
  /\ trade_rows = <<>>
  /\ book_rows = <<>>
  /\ stats = [events_processed |-> 0, trades_generated |-> 0, executed_volume |-> 0]

\* parse_file, which throws away what it has read if a row is malformed.
Read ==
  /\ Parse!Next
  /\ UNCHANGED <<vars, events, phase, entered, outputs>>

\* Faulty variant: std::sort instead, which here turns ties around.
PrecedeUnstable(evs, j, k) ==
  \/ evs[j].timestamp < evs[k].timestamp
  \/ evs[j].timestamp = evs[k].timestamp /\ j > k

\* Event j goes in front of event k.
Precede(evs, j, k) ==
  \/ evs[j].timestamp < evs[k].timestamp
  \/ evs[j].timestamp = evs[k].timestamp /\ j < k

\* std::stable_sort by timestamp: an event moves to the place behind all that
\* go in front of it.
SortedPlace(evs, k) == Cardinality({j \in DOMAIN evs : Precede(evs, j, k)}) + 1

StableSorted(evs) ==
  [n \in DOMAIN evs |-> evs[CHOOSE k \in DOMAIN evs : SortedPlace(evs, k) = n]]

Sort ==
  /\ phase = "reading"
  /\ status = "returned"
  /\ events' = StableSorted(file)
  /\ phase' = "replaying"
  /\ UNCHANGED <<parse, vars, entered, outputs>>

Submits(ev) == ev.type \in {"Add", "Market"}

\* submit's assertion.
Abort ==
  /\ phase = "replaying"
  /\ event = NoEvent /\ seq < Len(events)
  /\ Submits(events[seq + 1]) /\ contains(book, events[seq + 1].id)
  /\ phase' = "aborted"
  /\ UNCHANGED <<parse, vars, events, entered, outputs>>

\* An order keeps the timestamp it was submitted with; modify submits a copy
\* of the resting order and has no timestamp to give it.
DispatchNext ==
  /\ phase = "replaying"
  /\ seq < Len(events)
  /\ LET ev == events[seq + 1]
     IN /\ Dispatch(Untimed(ev))
        /\ entered' = IF Submits(ev) THEN Put(entered, ev.id, ev.timestamp) ELSE entered
  /\ UNCHANGED <<parse, events, phase, outputs>>

MatchOn == Match /\ UNCHANGED <<parse, events, phase, entered, outputs>>

\* Faulty variant: the trades that modify returns are dropped.
TradeRowsOfSubmits ==
  IF event.type = "Modify" THEN <<>>
  ELSE [k \in DOMAIN trades |->
          [seq |-> seq, timestamp |-> entered[trades[k].aggressor_id], trade |-> trades[k]]]

\* The rows of the trades of an event; a trade carries its aggressor's time.
TradeRows ==
  [k \in DOMAIN trades |->
     [seq |-> seq, timestamp |-> entered[trades[k].aggressor_id], trade |-> trades[k]]]

\* Faulty variant: events that trade are counted, not trades.
TalliedOnce(generated) == generated + Min({1, Len(trades)})

Tallied(generated) == generated + Len(trades)

EmitRows ==
  /\ Emit
  /\ trade_rows' = trade_rows \o TradeRows
  /\ book_rows' = Append(book_rows, [seq |-> seq, timestamp |-> events[seq + 1].timestamp,
                                     l1 |-> extract_l1(book)])
  /\ stats' = [stats EXCEPT !.trades_generated = Tallied(@)]
  /\ UNCHANGED <<parse, events, phase, entered>>

\* The loop is over.
Finish ==
  /\ phase = "replaying"
  /\ seq = Len(events) /\ event = NoEvent
  /\ phase' = "done"
  /\ stats' = [stats EXCEPT !.events_processed = Len(events),
                            !.executed_volume = executed_volume]
  /\ UNCHANGED <<parse, vars, events, entered, trade_rows, book_rows>>

FileNext ==
  \/ Read
  \/ Sort
  \/ Abort
  \/ DispatchNext
  \/ MatchOn
  \/ EmitRows
  \/ Finish

\* One function after the other on one thread, and a file ends: nothing is
\* waited for.
FileSpec == FileInit /\ [][FileNext]_file_vars /\ WF_file_vars(FileNext)

(***************************************************************************)
(* Properties                                                              *)
(***************************************************************************)

\* How many of the first n events have the time of the n-th.
NthOfTime(evs, n) == Cardinality({j \in 1 .. n : evs[j].timestamp = evs[n].timestamp})

\* book.csv is in time order, and events of one time keep the order of the
\* file: an order and the cancel that follows it at the same nanosecond are
\* never exchanged. A file that is in time order already, as data/README.md
\* asks for, is replayed as it stands.
TimeThenFileOrder ==
  /\ \A j, k \in DOMAIN book_rows : j < k => book_rows[j].timestamp <= book_rows[k].timestamp
  /\ events # <<>> =>
       \A k \in DOMAIN file : \E n \in DOMAIN events :
         /\ events[n] = file[k]
         /\ NthOfTime(events, n) = NthOfTime(file, k)

\* The summary is that of the rows: as many events as rows of book.csv, as
\* many trades as rows of trades.csv, and the volume of all of them.
SummaryOfRows ==
  /\ Len(book_rows) = seq
  /\ stats.trades_generated = Len(trade_rows)
  /\ phase = "done" =>
       /\ stats.events_processed = Len(book_rows)
       /\ stats.executed_volume =
            SumFunction([k \in DOMAIN trade_rows |-> trade_rows[k].trade.quantity])

\* What an id has left according to the files alone: the size that its last
\* ADD or MODIFY gave it, less the rows of trades.csv from there on.
FromFiles(id) ==
  LET sized == {k \in 1 .. seq : events[k].id = id /\ events[k].type \in {"Add", "Modify"}}
      last == Max(sized)
      sold == {k \in DOMAIN trade_rows :
                 /\ trade_rows[k].seq >= last - 1
                 /\ id \in {trade_rows[k].trade.aggressor_id, trade_rows[k].trade.resting_id}}
  IN events[last].quantity - SumFunction([k \in sold |-> trade_rows[k].trade.quantity])

\* Nothing happens to an order that the files do not tell: between two events
\* each resting order has what the input and trades.csv leave it, through
\* partial fills on either side, resizes in place and reprices that trade.
FilesExplainTheBook ==
  event = NoEvent =>
    \A id \in DOMAIN book.locations : find(book, id).quantity = FromFiles(id)

\* Whatever mix of blank lines, headers and rows the file is, what reaches the
\* sort are its rows, one event each, and a refusal names the first bad one.
EventsAreTheRows == phase = "reading" => Parse!TypeOK /\ Parse!EventsAreTheRows

\* Every replay ends: with the summary, unless a row was malformed or an id
\* was used twice. No order keeps the loop of match running for ever, however
\* the book looks when it arrives.
ReplayEnds == <>(phase \in {"done", "aborted"} \/ status = "thrown")
=============================================================================
