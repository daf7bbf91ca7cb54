----------------------------- MODULE EngineCli -----------------------------
(***************************************************************************)
(* The program around the replays (main in src/main.cpp): run after run    *)
(* into one output directory, however --out-dir names it, each with        *)
(* arguments and an input file of its own, what every step leaves on disk, *)
(* and how a run ends.  The rows are those of ReplayFile and               *)
(* BookOnlyReplay, of which only the number matters here.                  *)
(*                                                                         *)
(* The environment may fail any call: an open, or the creation of the      *)
(* directory.  Output is buffered, so that a killed run leaves of each     *)
(* file some part from the front.  That a write fails is left out: main    *)
(* does not look at its streams again, and nothing could be promised.      *)
(***************************************************************************)
EXTENDS Integers, FiniteSets, Sequences

CONSTANTS
  MaxRuns,        \* bound on the number of runs
  MaxRows,        \* bound on the rows of an input file
  MaxArgs,        \* bound on the arguments of the first run
  LaterCalls,     \* the argument lists of those behind it
  Words, Unknown, StoiValue   \* as in CliArguments

ASSUME BoundsAssumption == MaxRuns \in Nat /\ MaxRows \in Nat /\ MaxArgs \in Nat

VARIABLES
  dir,        \* out_dir exists
  files,      \* the output files
  runs,       \* runs started
  argv, i, events_path, out_dir, ofi_levels, book_only, status,   \* CliArguments
  input,      \* the input: how many events, and whether every row is sound
  pc,         \* where main stands, "exited" when no run is in progress
  seq,        \* events replayed
  traded,     \* trades_generated
  code        \* how the last run ended: an exit code, or "killed"

arguments == <<argv, i, events_path, out_dir, ofi_levels, book_only, status>>

options == <<runs, arguments, input>>

vars == <<dir, files, options, pc, seq, traded, code>>

Args == INSTANCE CliArguments

\* No word is an option or empty, and an unknown option is none of the known.
ASSUME ArgumentsAssumption ==
  /\ Words \cap (Unknown \cup Args!Known) = {}
  /\ Unknown \cap Args!Known = {}
  /\ StoiValue \in [DOMAIN StoiValue -> Int]
  /\ LaterCalls \subseteq Seq(Args!Arguments)

FileNames == {"trades", "book", "ofi"}

Absent == [run |-> 0, header |-> FALSE, rows |-> 0]

Empty == [run |-> runs, header |-> FALSE, rows |-> 0]

Inputs == [rows : 0 .. MaxRows, sound : BOOLEAN]

Init ==
  /\ dir = FALSE
  /\ files = [name \in FileNames |-> Absent]
  /\ runs = 0
  /\ Args!Init
  /\ input = [rows |-> 0, sound |-> TRUE]
  /\ pc = "exited"
  /\ seq = 0
  /\ traded = 0
  /\ code = "none"

\* A run starts.
Start(list) ==
  /\ pc = "exited"
  /\ runs < MaxRuns
  /\ runs' = runs + 1
  /\ Args!Call(list)
  /\ pc' = "arguments"
  /\ seq' = 0
  /\ traded' = 0
  /\ code' = "none"
  /\ UNCHANGED <<dir, files, input>>

Exit(with) == pc' = "exited" /\ code' = with

Goto(next) == pc' = next /\ UNCHANGED code

\* The loop over the arguments.
ReadArgument ==
  /\ pc = "arguments"
  /\ Args!ReadNext
  /\ UNCHANGED <<dir, files, runs, input, pc, seq, traded, code>>

\* It has ended, and of what it read only book_only counts from here on: the
\* rest is forgotten.
LeaveLoop ==
  /\ pc = "arguments"
  /\ status # "reading"
  /\ IF status = "run" THEN Goto("open") ELSE Exit(status)
  /\ argv' = <<>> /\ i' = 1 /\ events_path' = Args!NoText /\ out_dir' = "." /\ ofi_levels' = 5
  /\ UNCHANGED <<dir, files, runs, book_only, status, input, seq, traded>>

\* std::ifstream in(events_path), a file that may have changed since the last run.
OpenInput(file) ==
  /\ pc = "open"
  /\ input' = file
  /\ Goto("create") \/ Exit("exit 1")
  /\ UNCHANGED <<dir, files, runs, arguments, seq, traded>>

\* create_directories, which is content with a directory that exists.
CreateDirectory ==
  /\ pc = "create"
  /\ \/ dir' = TRUE /\ Goto("outputs")
     \/ UNCHANGED dir /\ Exit("exit 1")
  /\ UNCHANGED <<files, options, seq, traded>>

\* Faulty variant: an output file that is there is appended to.
OpenedToAppend(names) ==
  [name \in FileNames |-> IF name \in names THEN [files[name] EXCEPT !.run = runs]
                          ELSE files[name]]

\* An output file that opens is truncated at once.
Opened(names) ==
  [name \in FileNames |-> IF name \in names THEN Empty ELSE files[name]]

\* Faulty variant: only book.csv is opened here, ofi.csv keeps its rows.
OpenBookOnly ==
  /\ pc = "outputs"
  /\ \/ files' = Opened({"book"}) /\ Goto("parse")
     \/ UNCHANGED files /\ Exit("exit 1")
  /\ UNCHANGED <<dir, options, seq, traded>>

\* book.csv and ofi.csv are both opened before either is checked.
OpenBookAndOfi ==
  /\ pc = "outputs"
  /\ \E opened \in SUBSET {"book", "ofi"} :
       /\ files' = Opened(opened)
       /\ IF opened = {"book", "ofi"} THEN Goto("parse") ELSE Exit("exit 1")
  /\ UNCHANGED <<dir, options, seq, traded>>

\* parse reads the whole file, or throws, before anything is replayed.
Parse ==
  /\ pc = "parse"
  /\ IF input.sound THEN Goto(IF book_only THEN "headers" ELSE "trades") ELSE Exit("exit 1")
  /\ UNCHANGED <<dir, files, options, seq, traded>>

\* trades.csv is opened for a matching replay only.
OpenTrades ==
  /\ pc = "trades"
  /\ \/ files' = Opened({"trades"}) /\ Goto("headers")
     \/ UNCHANGED files /\ Exit("exit 1")
  /\ UNCHANGED <<dir, options, seq, traded>>

\* The streams that the replay was given.
Outputs == IF book_only THEN {"book", "ofi"} ELSE FileNames

WriteHeaders ==
  /\ pc = "headers"
  /\ files' = [name \in FileNames |-> IF name \in Outputs
                                     THEN [files[name] EXCEPT !.header = TRUE]
                                     ELSE files[name]]
  /\ Goto("replay")
  /\ UNCHANGED <<dir, options, seq, traded>>

\* The outputs with some more rows each.
Longer(more) ==
  [name \in FileNames |-> IF name \in Outputs
                          THEN [files[name] EXCEPT !.rows = @ + more[name]]
                          ELSE files[name]]

\* Faulty variant: no row for an event without a trade.
ReplayEventIfTraded(trades) ==
  /\ pc = "replay"
  /\ seq < input.rows
  /\ seq' = seq + 1
  /\ trades > 0 => ~book_only
  /\ traded' = traded + trades
  /\ files' = Longer([name \in FileNames |-> trades])
  /\ UNCHANGED <<dir, options, pc, code>>

\* One event of the replay, with the rows of its trades, if it has any, and
\* one row each of book.csv and ofi.csv.
ReplayEvent(trades) ==
  /\ pc = "replay"
  /\ seq < input.rows
  /\ seq' = seq + 1
  /\ trades > 0 => ~book_only
  /\ traded' = traded + trades
  /\ files' = Longer([name \in FileNames |-> IF name = "trades" THEN trades ELSE 1])
  /\ UNCHANGED <<dir, options, pc, code>>

\* The summary is printed and main returns 0; the streams are closed.
Finish ==
  /\ pc = "replay"
  /\ seq = input.rows
  /\ Exit("exit 0")
  /\ UNCHANGED <<dir, files, options, seq, traded>>

\* The run is killed: each file that it opened holds some part of what was
\* written, from the front.
Kill ==
  /\ pc # "exited"
  /\ Exit("killed")
  /\ \E flushed \in [FileNames -> 0 .. 2 * MaxRows + 1] :
       /\ \A name \in FileNames :
            flushed[name] <= files[name].rows + (IF files[name].header THEN 1 ELSE 0)
       /\ files' = [name \in FileNames |->
                      IF files[name].run # runs THEN files[name]
                      ELSE [run |-> runs, header |-> flushed[name] > 0,
                            rows |-> IF flushed[name] = 0 THEN 0 ELSE flushed[name] - 1]]
  /\ UNCHANGED <<dir, options, seq, traded>>

Calls ==
  IF runs = 0 THEN UNION {[1 .. n -> Args!Arguments] : n \in 0 .. MaxArgs}
  ELSE LaterCalls

Next ==
  \/ \E list \in Calls : Start(list)
  \/ ReadArgument
  \/ LeaveLoop
  \/ \E file \in Inputs : OpenInput(file)
  \/ CreateDirectory
  \/ OpenBookAndOfi
  \/ Parse
  \/ OpenTrades
  \/ WriteHeaders
  \/ \E trades \in 0 .. 2 : ReplayEvent(trades)
  \/ Finish
  \/ Kill

Spec == Init /\ [][Next]_vars

(***************************************************************************)
(* Properties                                                              *)
(***************************************************************************)

\* main stands where it can stand, and no file is of a run to come.
TypeOK ==
  /\ pc \in {"exited", "arguments", "open", "create", "outputs", "parse", "trades",
             "headers", "replay"}
  /\ runs \in Nat
  /\ files \in [FileNames -> [run : Nat, header : BOOLEAN, rows : Nat]]
  /\ \A name \in FileNames : files[name].run <= runs
  /\ input \in Inputs
  /\ seq \in Nat
  /\ traded \in Nat

\* Unless help was asked for, exit code 0 means that every file of the run is
\* there and complete: the header and a row for each event in book.csv and
\* ofi.csv, and in trades.csv as many as the summary says, whatever earlier
\* runs that failed or were killed left in the directory.
SuccessIsComplete ==
  pc = "exited" /\ code = "exit 0" /\ status = "run" =>
    /\ input.sound
    /\ \A name \in Outputs :
         files[name] = [run |-> runs, header |-> TRUE,
                        rows |-> IF name = "trades" THEN traded ELSE input.rows]

\* The three files are joined by their rows later: rows of book.csv and of
\* ofi.csv from different runs never stand next to each other, at any moment,
\* nor after a failure or a kill, and rows of trades.csv may only be left over
\* next to the book rows of a run that was asked not to match.
NoMixedRows ==
  files["book"].rows > 0 =>
    /\ files["ofi"].rows > 0 => files["book"].run = files["ofi"].run
    /\ files["book"].run = runs /\ ~book_only => files["trades"].run = runs

\* A run that reports a failure wrote no row: none of the files can be taken
\* for its result. One that only looked at its arguments, for help or because
\* something is wrong with them, left the files of earlier runs as they were.
FailureWritesNothing ==
  pc = "exited" =>
    \A name \in FileNames : files[name].run = runs /\ runs > 0 =>
      /\ status = "run"
      /\ code = "exit 1" => files[name].rows = 0

\* The arguments are understood as their grammar says (see CliArguments).
ReadsTheGrammar == pc = "arguments" => Args!TypeOK /\ Args!ReadsTheGrammar
=============================================================================
