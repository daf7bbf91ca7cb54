--------------------------- MODULE EngineCliProofs ---------------------------
(***************************************************************************)
(* What the files of one output directory can be taken for, for any number *)
(* of runs, of arguments and of rows, with failures and kills anywhere.    *)
(*                                                                         *)
(* The inductive invariant says for each place where main can stand which  *)
(* files are of this run and what they hold: none before they are opened,  *)
(* empty ones until the headers are written, then a row for each event.    *)
(* The rest is of earlier runs, and among those, rows of book.csv and of   *)
(* ofi.csv are always of the same one.                                     *)
(*                                                                         *)
(* A second invariant is about the loop over the arguments: what it knows  *)
(* of the items behind it.                                                 *)
(***************************************************************************)
EXTENDS EngineCli, WellFoundedInduction, NaturalsInduction, TLAPS

\* The files of `names` are of earlier runs.
Older(names) == \A name \in names : files[name].run < runs

\* Those of `names` are of this run, as they are after so many rows.
Hold(names, header, rows) ==
  \A name \in names : files[name] = [run |-> runs, header |-> header, rows |-> rows]

\* trades.csv is of an earlier run if there is no matching.
TradesOlder == book_only => Older({"trades"})

\* What stands in the files at each place of main.
Progress ==
  /\ pc \in {"arguments", "open", "create", "outputs"} => Older(FileNames)
  /\ pc \in {"parse", "trades"} => Hold({"book", "ofi"}, FALSE, 0) /\ Older({"trades"})
  /\ pc = "trades" => ~book_only
  /\ pc = "headers" => Hold(Outputs, FALSE, 0) /\ TradesOlder
  /\ pc = "replay" =>
       /\ Hold({"book", "ofi"}, TRUE, seq)
       /\ ~book_only => Hold({"trades"}, TRUE, traded)
       /\ TradesOlder
  /\ pc \notin {"arguments", "exited"} => status = "run"
  /\ pc \notin {"replay", "exited"} => seq = 0 /\ traded = 0
  /\ pc \in {"trades", "headers", "replay"} => input.sound

IInv == TypeOK /\ Progress /\ SuccessIsComplete /\ NoMixedRows /\ FailureWritesNothing

LEMMA InitIInv == Init => IInv
<1> SUFFICES ASSUME Init PROVE IInv
  OBVIOUS
<1>1. TypeOK
  BY BoundsAssumption DEF Init, TypeOK, Absent, Inputs
<1>2. Progress
  BY DEF Init, Progress
<1>3. SuccessIsComplete /\ NoMixedRows /\ FailureWritesNothing
  BY DEF Init, SuccessIsComplete, NoMixedRows, FailureWritesNothing, Absent, FileNames
<1> QED
  BY <1>1, <1>2, <1>3 DEF IInv

\* A step that writes no file keeps what earlier runs and this one wrote apart.
LEMMA QuietStep ==
  ASSUME IInv, UNCHANGED <<files, runs>>, UNCHANGED book_only \/ Older(FileNames)
  PROVE  NoMixedRows'
<1>1. files["book"].run \in Nat /\ runs \in Nat
  BY DEF IInv, TypeOK, FileNames
<1>2. CASE UNCHANGED book_only
  BY <1>2 DEF IInv, NoMixedRows
<1>3. CASE Older(FileNames)
  <2>1. files["book"].run # runs
    BY <1>1, <1>3 DEF Older, FileNames
  <2> QED
    BY <2>1 DEF IInv, NoMixedRows
<1> QED
  BY <1>2, <1>3

\* A file of an earlier run is none of this one's.
LEMMA OlderIsNotThis ==
  ASSUME TypeOK, NEW names \in SUBSET FileNames, Older(names)
  PROVE  \A name \in names : files[name].run # runs
<1> SUFFICES ASSUME NEW name \in names PROVE files[name].run # runs
  OBVIOUS
<1>1. files[name].run \in Nat /\ runs \in Nat /\ files[name].run < runs
  BY DEF TypeOK, Older
<1> QED
  BY <1>1

LEMMA StartStep ==
  ASSUME IInv, NEW list, Start(list)
  PROVE  IInv'
<1>1. /\ pc' = "arguments" /\ runs' = runs + 1 /\ seq' = 0 /\ traded' = 0
      /\ UNCHANGED <<files, input>>
  BY DEF Start
<1>2. TypeOK'
  BY <1>1 DEF IInv, TypeOK
<1>3. Older(FileNames)'
  BY <1>1 DEF IInv, TypeOK, Older, FileNames
<1>4. Progress'
  BY <1>1, <1>3 DEF Progress
<1>5. SuccessIsComplete' /\ FailureWritesNothing'
  BY <1>1 DEF SuccessIsComplete, FailureWritesNothing
<1>6. files["book"].run \in Nat /\ files["book"].run <= runs /\ runs \in Nat
  BY DEF IInv, TypeOK, FileNames
<1>7. NoMixedRows'
  BY <1>1, <1>6 DEF IInv, NoMixedRows
<1> QED
  BY <1>2, <1>4, <1>5, <1>7 DEF IInv

LEMMA ReadArgumentStep ==
  ASSUME IInv, ReadArgument
  PROVE  IInv'
<1>1. pc = "arguments" /\ UNCHANGED <<files, runs, input, pc, seq, traded>>
  BY DEF ReadArgument
<1>2. Older(FileNames)
  BY <1>1 DEF IInv, Progress
<1>3. TypeOK'
  BY <1>1 DEF IInv, TypeOK
<1>4. Progress'
  BY <1>1, <1>2 DEF IInv, Progress, Older
<1>5. SuccessIsComplete' /\ FailureWritesNothing'
  BY <1>1 DEF SuccessIsComplete, FailureWritesNothing
<1> QED
  BY <1>1, <1>2, <1>3, <1>4, <1>5, QuietStep DEF IInv

\* A step before the outputs are opened that goes on, or ends the run.
LEMMA EarlyStep ==
  ASSUME IInv, pc \in {"arguments", "open", "create"},
         UNCHANGED <<files, runs, status, book_only, seq, traded>>,
         \E file \in Inputs : input' = file,
         \/ (pc' = "open" \/ pc' = "create" \/ pc' = "outputs") /\ status = "run"
         \/ pc' = "exited" /\ ~(code' = "exit 0" /\ status = "run")
  PROVE  IInv'
<1>1. Older(FileNames) /\ Older(FileNames)'
  BY DEF IInv, Progress, Older
<1>2. TypeOK'
  BY DEF IInv, TypeOK
<1>3. Progress'
  BY <1>1 DEF IInv, Progress
<1>4. \A name \in FileNames : files[name].run # runs
  BY <1>1, OlderIsNotThis DEF IInv
<1>5. SuccessIsComplete' /\ FailureWritesNothing'
  BY <1>4 DEF SuccessIsComplete, FailureWritesNothing
<1> QED
  BY <1>2, <1>3, <1>5, QuietStep DEF IInv

LEMMA LeaveLoopStep ==
  ASSUME IInv, LeaveLoop
  PROVE  IInv'
<1>1. /\ pc = "arguments"
      /\ UNCHANGED <<files, runs, status, book_only, seq, traded, input>>
  BY DEF LeaveLoop
<1>2. \E file \in Inputs : input' = file
  BY <1>1 DEF IInv, TypeOK
<1>3. CASE status = "run"
  <2>1. pc' = "open"
    BY <1>3 DEF LeaveLoop, Goto
  <2> QED
    BY <1>1, <1>2, <1>3, <2>1, EarlyStep
<1>4. CASE status # "run"
  <2>1. pc' = "exited"
    BY <1>4 DEF LeaveLoop, Exit
  <2> QED
    BY <1>1, <1>2, <1>4, <2>1, EarlyStep
<1> QED
  BY <1>3, <1>4

LEMMA OpenInputStep ==
  ASSUME IInv, NEW file \in Inputs, OpenInput(file)
  PROVE  IInv'
<1>1. /\ pc = "open" /\ input' = file
      /\ UNCHANGED <<files, runs, status, book_only, seq, traded>>
  BY DEF OpenInput, arguments
<1>2. pc' = "create" \/ (pc' = "exited" /\ code' = "exit 1")
  BY DEF OpenInput, Goto, Exit
<1>3. status = "run"
  BY <1>1 DEF IInv, Progress
<1> QED
  BY <1>1, <1>2, <1>3, EarlyStep

LEMMA CreateDirectoryStep ==
  ASSUME IInv, CreateDirectory
  PROVE  IInv'
<1>1. /\ pc = "create"
      /\ UNCHANGED <<files, runs, status, book_only, seq, traded, input>>
  BY DEF CreateDirectory, options, arguments
<1>2. pc' = "outputs" \/ (pc' = "exited" /\ code' = "exit 1")
  BY DEF CreateDirectory, Goto, Exit
<1>3. status = "run" /\ \E file \in Inputs : input' = file
  BY <1>1 DEF IInv, Progress, TypeOK
<1> QED
  BY <1>1, <1>2, <1>3, EarlyStep

\* What the opening of some of the outputs leaves.
LEMMA OpeningTruncates ==
  ASSUME TypeOK, UNCHANGED runs, NEW names \in SUBSET FileNames, files' = Opened(names)
  PROVE  /\ files' \in [FileNames -> [run : Nat, header : BOOLEAN, rows : Nat]]
         /\ \A name \in FileNames : files'[name].run <= runs
         /\ \A name \in names : files'[name] = [run |-> runs, header |-> FALSE, rows |-> 0]
         /\ \A name \in FileNames \ names : files'[name] = files[name]
<1>1. Empty \in [run : Nat, header : BOOLEAN, rows : Nat]
  BY DEF TypeOK, Empty
<1>2. files' \in [FileNames -> [run : Nat, header : BOOLEAN, rows : Nat]]
  BY <1>1 DEF TypeOK, Opened
<1>3. \A name \in names : files'[name] = [run |-> runs, header |-> FALSE, rows |-> 0]
  BY DEF Opened, Empty
<1>4. \A name \in FileNames \ names : files'[name] = files[name]
  BY DEF Opened
<1>5. ASSUME NEW name \in FileNames PROVE files'[name].run <= runs
  BY <1>3, <1>4 DEF TypeOK
<1> QED
  BY <1>2, <1>3, <1>4, <1>5

LEMMA OpenBookAndOfiStep ==
  ASSUME IInv, OpenBookAndOfi
  PROVE  IInv'
<1>1. /\ pc = "outputs"
      /\ UNCHANGED <<runs, status, book_only, seq, traded, input>>
  BY DEF OpenBookAndOfi, options, arguments
<1>2. PICK opened \in SUBSET {"book", "ofi"} :
        /\ files' = Opened(opened)
        /\ IF opened = {"book", "ofi"} THEN Goto("parse") ELSE Exit("exit 1")
  BY DEF OpenBookAndOfi
<1>3. opened \in SUBSET FileNames
  BY DEF FileNames
<1>4. Older(FileNames) /\ status = "run" /\ seq = 0 /\ traded = 0
  BY <1>1 DEF IInv, Progress
<1>5. /\ files' \in [FileNames -> [run : Nat, header : BOOLEAN, rows : Nat]]
      /\ \A name \in FileNames : files'[name].run <= runs
      /\ \A name \in opened : files'[name] = [run |-> runs, header |-> FALSE, rows |-> 0]
      /\ \A name \in FileNames \ opened : files'[name] = files[name]
  BY <1>1, <1>2, <1>3, OpeningTruncates DEF IInv
<1>6. \A name \in FileNames : files[name].run # runs
  BY <1>4, OlderIsNotThis DEF IInv
<1>7. pc' = IF opened = {"book", "ofi"} THEN "parse" ELSE "exited"
  BY <1>2 DEF Goto, Exit
<1>8. TypeOK'
  BY <1>1, <1>5, <1>7 DEF IInv, TypeOK
<1>9. Progress'
  <2>1. CASE opened = {"book", "ofi"}
    BY <2>1, <1>1, <1>4, <1>5, <1>7 DEF Progress, Hold, Older, FileNames
  <2>2. CASE opened # {"book", "ofi"}
    BY <2>2, <1>7 DEF Progress
  <2> QED
    BY <2>1, <2>2
<1>10. SuccessIsComplete' /\ FailureWritesNothing'
  <2>1. pc' = "exited" => code' = "exit 1"
    BY <1>2, <1>7 DEF Exit
  <2>2. \A name \in FileNames : files'[name].run = runs => files'[name].rows = 0
    <3> SUFFICES ASSUME NEW name \in FileNames, files'[name].run = runs
                 PROVE  files'[name].rows = 0
      OBVIOUS
    <3>1. CASE name \in opened
      BY <3>1, <1>5
    <3>2. CASE name \notin opened
      BY <3>2, <1>5, <1>6
    <3> QED
      BY <3>1, <3>2
  <2> QED
    BY <1>1, <1>4, <2>1, <2>2 DEF SuccessIsComplete, FailureWritesNothing
<1>11. NoMixedRows'
  BY <1>1, <1>5, <1>6 DEF IInv, NoMixedRows, FileNames
<1> QED
  BY <1>8, <1>9, <1>10, <1>11 DEF IInv

LEMMA ParseStep ==
  ASSUME IInv, Parse
  PROVE  IInv'
<1>1. pc = "parse" /\ UNCHANGED <<files, runs, status, book_only, seq, traded, input>>
  BY DEF Parse, options, arguments
<1>2. Hold({"book", "ofi"}, FALSE, 0) /\ Older({"trades"}) /\ status = "run"
  BY <1>1 DEF IInv, Progress
<1>3. \/ pc' = "headers" /\ book_only /\ input.sound
      \/ pc' = "trades" /\ ~book_only /\ input.sound
      \/ pc' = "exited" /\ code' = "exit 1"
  BY DEF Parse, Goto, Exit
<1>4. TypeOK'
  BY <1>1, <1>3 DEF IInv, TypeOK
<1>5. Progress'
  BY <1>1, <1>2, <1>3 DEF IInv, Progress, Hold, Older, TradesOlder, Outputs
<1>6. files["trades"].run # runs
  BY <1>2, OlderIsNotThis DEF IInv, FileNames
<1>7. \A name \in FileNames : files[name].run = runs => files[name].rows = 0
  BY <1>2, <1>6 DEF Hold, FileNames
<1>8. SuccessIsComplete' /\ FailureWritesNothing'
  BY <1>1, <1>2, <1>3, <1>7 DEF SuccessIsComplete, FailureWritesNothing
<1> QED
  BY <1>1, <1>4, <1>5, <1>8, QuietStep DEF IInv

LEMMA OpenTradesStep ==
  ASSUME IInv, OpenTrades
  PROVE  IInv'
<1>1. pc = "trades" /\ UNCHANGED <<runs, status, book_only, seq, traded, input>>
  BY DEF OpenTrades, options, arguments
<1>2. /\ Hold({"book", "ofi"}, FALSE, 0) /\ Older({"trades"}) /\ status = "run"
      /\ ~book_only /\ seq = 0 /\ traded = 0 /\ input.sound
  BY <1>1 DEF IInv, Progress
<1>3. CASE files' = Opened({"trades"}) /\ Goto("headers")
  <2>1. pc' = "headers"
    BY <1>3 DEF Goto
  <2> {"trades"} \in SUBSET FileNames
    BY DEF FileNames
  <2>2. /\ files' \in [FileNames -> [run : Nat, header : BOOLEAN, rows : Nat]]
        /\ \A name \in FileNames : files'[name].run <= runs
        /\ files'["trades"] = [run |-> runs, header |-> FALSE, rows |-> 0]
        /\ files'["book"] = files["book"] /\ files'["ofi"] = files["ofi"]
    BY <1>1, <1>3, OpeningTruncates DEF IInv, FileNames
  <2>3. TypeOK'
    BY <1>1, <2>1, <2>2 DEF IInv, TypeOK
  <2>4. Progress'
    BY <1>1, <1>2, <2>1, <2>2 DEF Progress, Hold, TradesOlder, Outputs, FileNames
  <2>5. SuccessIsComplete' /\ FailureWritesNothing'
    BY <2>1 DEF SuccessIsComplete, FailureWritesNothing
  <2>6. NoMixedRows'
    BY <1>1, <1>2, <2>2 DEF NoMixedRows, Hold
  <2> QED
    BY <2>3, <2>4, <2>5, <2>6 DEF IInv
<1>4. CASE UNCHANGED files /\ Exit("exit 1")
  <2>1. pc' = "exited" /\ code' = "exit 1"
    BY <1>4 DEF Exit
  <2>2. TypeOK' /\ Progress'
    BY <1>1, <1>4, <2>1 DEF IInv, TypeOK, Progress
  <2>3. files["trades"].run # runs
    BY <1>2, OlderIsNotThis DEF IInv, FileNames
  <2>4. \A name \in FileNames : files[name].run = runs => files[name].rows = 0
    BY <1>2, <2>3 DEF Hold, FileNames
  <2>5. SuccessIsComplete' /\ FailureWritesNothing'
    BY <1>1, <1>2, <1>4, <2>1, <2>4 DEF SuccessIsComplete, FailureWritesNothing
  <2> QED
    BY <1>1, <1>4, <2>2, <2>5, QuietStep DEF IInv
<1> QED
  BY <1>3, <1>4 DEF OpenTrades

\* A file whose header or rows are written, as a record.
LEMMA HeaderWritten ==
  ASSUME NEW run, NEW header, NEW rows, NEW written, NEW file,
         file = [run |-> run, header |-> header, rows |-> rows]
  PROVE  [file EXCEPT !.header = written]
           = [run |-> run, header |-> written, rows |-> rows]
OBVIOUS

LEMMA RowsWritten ==
  ASSUME NEW run, NEW header, NEW rows, NEW more, NEW file,
         file = [run |-> run, header |-> header, rows |-> rows]
  PROVE  [file EXCEPT !.rows = @ + more]
           = [run |-> run, header |-> header, rows |-> rows + more]
OBVIOUS

LEMMA WriteHeadersStep ==
  ASSUME IInv, WriteHeaders
  PROVE  IInv'
<1>1. /\ pc = "headers" /\ pc' = "replay"
      /\ UNCHANGED <<runs, status, book_only, seq, traded, input>>
  BY DEF WriteHeaders, options, arguments, Goto
<1>2. /\ Hold(Outputs, FALSE, 0) /\ TradesOlder /\ status = "run"
      /\ seq = 0 /\ traded = 0 /\ input.sound
  BY <1>1 DEF IInv, Progress
<1>3. files' = [name \in FileNames |-> IF name \in Outputs
                                       THEN [files[name] EXCEPT !.header = TRUE]
                                       ELSE files[name]]
  BY DEF WriteHeaders
<1>4. Outputs \in SUBSET FileNames /\ {"book", "ofi"} \subseteq Outputs
  BY DEF Outputs, FileNames
<1>5. ASSUME NEW name \in Outputs
      PROVE  files'[name] = [run |-> runs, header |-> TRUE, rows |-> 0]
  <2> DEFINE written == TRUE
             header == FALSE
  <2>1. files[name] = [run |-> runs, header |-> header, rows |-> 0]
    BY <1>2 DEF Hold
  <2>2. files'[name] = [files[name] EXCEPT !.header = written]
    BY <1>3, <1>4
  <2> HIDE DEF written, header
  <2>3. files'[name] = [run |-> runs, header |-> written, rows |-> 0]
    BY <2>1, <2>2, HeaderWritten
  <2> QED
    BY <2>3 DEF written
<1>6. \A name \in FileNames \ Outputs : files'[name] = files[name]
  BY <1>3
<1>7. /\ files' \in [FileNames -> [run : Nat, header : BOOLEAN, rows : Nat]]
      /\ \A name \in FileNames : files'[name].run <= runs
  BY <1>3, <1>5, <1>6 DEF IInv, TypeOK
<1>8. TypeOK'
  BY <1>1, <1>7 DEF IInv, TypeOK
<1>9. Progress'
  <2>1. Hold({"book", "ofi"}, TRUE, seq)'
    BY <1>1, <1>2, <1>4, <1>5 DEF Hold
  <2>2. ~book_only => Hold({"trades"}, TRUE, traded)'
    BY <1>1, <1>2, <1>5 DEF Hold, Outputs, FileNames
  <2>3. TradesOlder'
    BY <1>1, <1>2, <1>6 DEF TradesOlder, Older, Outputs, FileNames
  <2> QED
    BY <1>1, <1>2, <2>1, <2>2, <2>3 DEF Progress
<1>10. SuccessIsComplete' /\ FailureWritesNothing'
  BY <1>1 DEF SuccessIsComplete, FailureWritesNothing
<1>11. files'["book"].rows = 0
  BY <1>4, <1>5
<1>12. NoMixedRows'
  BY <1>11 DEF NoMixedRows
<1> QED
  BY <1>8, <1>9, <1>10, <1>12 DEF IInv

LEMMA ReplayEventStep ==
  ASSUME IInv, NEW trades \in 0 .. 2, ReplayEvent(trades)
  PROVE  IInv'
<1> DEFINE more == [name \in FileNames |-> IF name = "trades" THEN trades ELSE 1]
<1>1. /\ pc = "replay" /\ seq' = seq + 1 /\ traded' = traded + trades
      /\ UNCHANGED <<runs, status, book_only, input, pc>>
  BY DEF ReplayEvent, options, arguments
<1>2. /\ Hold({"book", "ofi"}, TRUE, seq) /\ (~book_only => Hold({"trades"}, TRUE, traded))
      /\ TradesOlder /\ status = "run" /\ input.sound
  BY <1>1 DEF IInv, Progress
<1>3. files' = [name \in FileNames |-> IF name \in Outputs
                                       THEN [files[name] EXCEPT !.rows = @ + more[name]]
                                       ELSE files[name]]
  BY DEF ReplayEvent, Longer
<1>4. seq \in Nat /\ traded \in Nat /\ runs \in Nat
  BY DEF IInv, TypeOK
<1>5. ASSUME NEW name \in {"book", "ofi"}
      PROVE  files'[name] = [run |-> runs, header |-> TRUE, rows |-> seq + 1]
  <2> DEFINE header == TRUE
  <2>1. files[name] = [run |-> runs, header |-> header, rows |-> seq]
    BY <1>2 DEF Hold
  <2>2. name \in Outputs /\ name \in FileNames /\ more[name] = 1
    BY DEF Outputs, FileNames
  <2> HIDE DEF more, header
  <2>3. files'[name] = [files[name] EXCEPT !.rows = @ + more[name]]
    BY <1>3, <2>2
  <2>4. files'[name] = [run |-> runs, header |-> header, rows |-> seq + more[name]]
    BY <2>1, <2>3, RowsWritten
  <2> QED
    BY <2>2, <2>4 DEF header
<1>6. ASSUME ~book_only
      PROVE  files'["trades"] = [run |-> runs, header |-> TRUE, rows |-> traded + trades]
  <2> DEFINE header == TRUE
  <2>1. files["trades"] = [run |-> runs, header |-> header, rows |-> traded]
    BY <1>2, <1>6 DEF Hold
  <2>2. "trades" \in Outputs /\ "trades" \in FileNames /\ more["trades"] = trades
    BY <1>6 DEF Outputs, FileNames
  <2> HIDE DEF more, header
  <2>3. files'["trades"] = [files["trades"] EXCEPT !.rows = @ + more["trades"]]
    BY <1>3, <2>2
  <2>4. files'["trades"] = [run |-> runs, header |-> header, rows |-> traded + more["trades"]]
    BY <2>1, <2>3, RowsWritten
  <2> QED
    BY <2>2, <2>4 DEF header
<1>7. ASSUME book_only
      PROVE  files'["trades"] = files["trades"]
  BY <1>3, <1>7 DEF Outputs, FileNames
<1>8. TypeOK'
  <2>1. files' = [name \in FileNames |-> files'[name]]
    BY <1>3
  <2>2. ASSUME NEW name \in FileNames
        PROVE  /\ files'[name] \in [run : Nat, header : BOOLEAN, rows : Nat]
               /\ files'[name].run <= runs
    <3> seq + 1 \in Nat /\ traded + trades \in Nat /\ runs <= runs
      BY <1>4
    <3>1. CASE name \in {"book", "ofi"}
      <4>1. files'[name] = [run |-> runs, header |-> TRUE, rows |-> seq + 1]
        BY <3>1, <1>5
      <4> QED
        BY <4>1, <1>4
    <3>2. CASE name = "trades" /\ book_only
      BY <3>2, <1>7 DEF IInv, TypeOK, FileNames
    <3>3. CASE name = "trades" /\ ~book_only
      <4>1. files'[name] = [run |-> runs, header |-> TRUE, rows |-> traded + trades]
        BY <3>3, <1>6
      <4> QED
        BY <4>1, <1>4
    <3> QED
      BY <3>1, <3>2, <3>3 DEF FileNames
  <2>3. files' \in [FileNames -> [run : Nat, header : BOOLEAN, rows : Nat]]
    BY <2>1, <2>2
  <2> QED
    BY <1>1, <1>4, <2>2, <2>3 DEF IInv, TypeOK
<1>9. Progress'
  <2>1. Hold({"book", "ofi"}, TRUE, seq)' /\ (~book_only => Hold({"trades"}, TRUE, traded)')
    BY <1>1, <1>5, <1>6 DEF Hold
  <2>2. TradesOlder'
    BY <1>1, <1>2, <1>7 DEF TradesOlder, Older
  <2> QED
    BY <1>1, <1>2, <2>1, <2>2 DEF Progress
<1>10. SuccessIsComplete' /\ FailureWritesNothing'
  BY <1>1 DEF SuccessIsComplete, FailureWritesNothing
<1>11. NoMixedRows'
  BY <1>1, <1>5, <1>6 DEF NoMixedRows
<1> QED
  BY <1>8, <1>9, <1>10, <1>11 DEF IInv

LEMMA FinishStep ==
  ASSUME IInv, Finish
  PROVE  IInv'
<1>1. /\ pc = "replay" /\ seq = input.rows /\ pc' = "exited" /\ code' = "exit 0"
      /\ UNCHANGED <<files, runs, status, book_only, seq, traded, input>>
  BY DEF Finish, options, arguments, Exit
<1>2. /\ Hold({"book", "ofi"}, TRUE, seq) /\ (~book_only => Hold({"trades"}, TRUE, traded))
      /\ TradesOlder /\ status = "run" /\ input.sound
  BY <1>1 DEF IInv, Progress
<1>3. TypeOK' /\ Progress'
  BY <1>1 DEF IInv, TypeOK, Progress
<1>4. \A name \in Outputs :
        files[name] = [run |-> runs, header |-> TRUE,
                       rows |-> IF name = "trades" THEN traded ELSE seq]
  BY <1>2 DEF Hold, Outputs, FileNames
<1>5. SuccessIsComplete'
  <2>1. Outputs' = Outputs
    BY <1>1 DEF Outputs
  <2> QED
    BY <1>1, <1>2, <1>4, <2>1 DEF SuccessIsComplete
<1>6. FailureWritesNothing'
  BY <1>1, <1>2 DEF FailureWritesNothing
<1> QED
  BY <1>1, <1>3, <1>5, <1>6, QuietStep DEF IInv

\* book.csv and ofi.csv are of this run together, and once they have rows,
\* so is the trades.csv of a run that matches.
LEMMA FilesOfARun ==
  ASSUME IInv, pc # "exited"
  PROVE  /\ files["book"].run = runs <=> files["ofi"].run = runs
         /\ files["book"].run = runs /\ files["book"].header /\ ~book_only =>
              files["trades"].run = runs
         /\ \A name \in FileNames : files[name].run = runs => status = "run"
<1>1. CASE pc \in {"arguments", "open", "create", "outputs"}
  <2>1. Older(FileNames)
    BY <1>1 DEF IInv, Progress
  <2>2. \A name \in FileNames : files[name].run # runs
    BY <2>1, OlderIsNotThis DEF IInv
  <2> QED
    BY <2>2 DEF FileNames
<1>2. CASE pc \in {"parse", "trades"}
  <2>1. Hold({"book", "ofi"}, FALSE, 0) /\ status = "run"
    BY <1>2 DEF IInv, Progress
  <2> QED
    BY <2>1 DEF Hold
<1>3. CASE pc = "headers"
  <2>1. Hold(Outputs, FALSE, 0) /\ status = "run"
    BY <1>3 DEF IInv, Progress
  <2> QED
    BY <2>1 DEF Hold, Outputs, FileNames
<1>4. CASE pc = "replay"
  <2>1. /\ Hold({"book", "ofi"}, TRUE, seq) /\ (~book_only => Hold({"trades"}, TRUE, traded))
        /\ status = "run"
    BY <1>4 DEF IInv, Progress
  <2> QED
    BY <2>1 DEF Hold
<1> QED
  BY <1>1, <1>2, <1>3, <1>4 DEF IInv, TypeOK

LEMMA KillStep ==
  ASSUME IInv, Kill
  PROVE  IInv'
<1>1. /\ pc # "exited" /\ pc' = "exited" /\ code' = "killed"
      /\ UNCHANGED <<runs, status, book_only, seq, traded, input>>
  BY DEF Kill, options, arguments, Exit
<1>2. PICK flushed \in [FileNames -> 0 .. 2 * MaxRows + 1] :
        /\ \A name \in FileNames :
             flushed[name] <= files[name].rows + (IF files[name].header THEN 1 ELSE 0)
        /\ files' = [name \in FileNames |->
                       IF files[name].run # runs THEN files[name]
                       ELSE [run |-> runs, header |-> flushed[name] > 0,
                             rows |-> IF flushed[name] = 0 THEN 0 ELSE flushed[name] - 1]]
  BY DEF Kill
<1>3. \A name \in FileNames : flushed[name] \in Nat
  BY <1>2, BoundsAssumption
<1>4. \A name \in FileNames : files[name].run # runs => files'[name] = files[name]
  BY <1>2
<1>5. \A name \in FileNames : files'[name].run = files[name].run
  BY <1>2
<1>6. files["book"].run = runs /\ files'["book"].rows > 0 => files["book"].header
  <2> SUFFICES ASSUME files["book"].run = runs, files'["book"].rows > 0,
                      ~files["book"].header
               PROVE  FALSE
    OBVIOUS
  <2>1. "book" \in FileNames
    BY DEF FileNames
  <2>2. files'["book"].rows = IF flushed["book"] = 0 THEN 0 ELSE flushed["book"] - 1
    BY <1>2, <2>1
  <2>3. files["book"].rows = 0
    <3>1. pc \in {"parse", "trades", "headers"}
      <4>1. pc \notin {"arguments", "open", "create", "outputs"}
        BY <2>1, OlderIsNotThis DEF IInv, Progress
      <4>2. pc # "replay"
        BY DEF IInv, Progress, Hold
      <4> QED
        BY <1>1, <4>1, <4>2 DEF IInv, TypeOK
    <3>2. files["book"] = [run |-> runs, header |-> FALSE, rows |-> 0]
      BY <3>1 DEF IInv, Progress, Hold, Outputs, FileNames
    <3> QED
      BY <3>2
  <2>4. flushed["book"] <= 0
    BY <1>2, <2>1, <2>3
  <2>5. flushed["book"] = 0
    BY <1>3, <2>1, <2>4
  <2> QED
    BY <2>2, <2>5
<1>7. TypeOK'
  <2>1. ASSUME NEW name \in FileNames
        PROVE  files'[name] \in [run : Nat, header : BOOLEAN, rows : Nat]
    <3>1. CASE files[name].run # runs
      BY <3>1, <1>4 DEF IInv, TypeOK
    <3>2. CASE files[name].run = runs
      <4> DEFINE rows == IF flushed[name] = 0 THEN 0 ELSE flushed[name] - 1
                 header == flushed[name] > 0
      <4>1. rows \in Nat /\ header \in BOOLEAN /\ runs \in Nat
        BY <1>3 DEF IInv, TypeOK
      <4>2. files'[name] = [run |-> runs, header |-> header, rows |-> rows]
        BY <1>2, <3>2
      <4> HIDE DEF rows, header
      <4> QED
        BY <4>1, <4>2
    <3> QED
      BY <3>1, <3>2
  <2>2. files' = [name \in FileNames |-> files'[name]]
    BY <1>2
  <2>3. files' \in [FileNames -> [run : Nat, header : BOOLEAN, rows : Nat]]
    BY <2>1, <2>2
  <2> QED
    BY <1>1, <1>5, <2>3 DEF IInv, TypeOK
<1>8. Progress'
  BY <1>1 DEF Progress
<1>9. SuccessIsComplete' /\ FailureWritesNothing'
  BY <1>1, <1>5, FilesOfARun DEF SuccessIsComplete, FailureWritesNothing
<1>10. NoMixedRows'
  <2> "book" \in FileNames /\ "ofi" \in FileNames /\ "trades" \in FileNames
    BY DEF FileNames
  <2>1. CASE files["book"].run = runs
    BY <2>1, <1>1, <1>5, <1>6, FilesOfARun DEF NoMixedRows
  <2>2. CASE files["book"].run # runs
    BY <2>2, <1>1, <1>4, FilesOfARun DEF IInv, NoMixedRows
  <2> QED
    BY <2>1, <2>2
<1> QED
  BY <1>7, <1>8, <1>9, <1>10 DEF IInv

\* Every step of main preserves the invariant.
LEMMA NextIInv == IInv /\ [Next]_vars => IInv'
<1> SUFFICES ASSUME IInv, [Next]_vars PROVE IInv'
  OBVIOUS
<1>1. ASSUME NEW list \in Calls, Start(list)
      PROVE  IInv'
  BY <1>1, StartStep
<1>2. CASE ReadArgument
  BY <1>2, ReadArgumentStep
<1>3. CASE LeaveLoop
  BY <1>3, LeaveLoopStep
<1>4. ASSUME NEW file \in Inputs, OpenInput(file)
      PROVE  IInv'
  BY <1>4, OpenInputStep
<1>5. CASE CreateDirectory
  BY <1>5, CreateDirectoryStep
<1>6. CASE OpenBookAndOfi
  BY <1>6, OpenBookAndOfiStep
<1>7. CASE Parse
  BY <1>7, ParseStep
<1>8. CASE OpenTrades
  BY <1>8, OpenTradesStep
<1>9. CASE WriteHeaders
  BY <1>9, WriteHeadersStep
<1>10. ASSUME NEW trades \in 0 .. 2, ReplayEvent(trades)
       PROVE  IInv'
  BY <1>10, ReplayEventStep
<1>11. CASE Finish
  BY <1>11, FinishStep
<1>12. CASE Kill
  BY <1>12, KillStep
<1>13. CASE UNCHANGED vars
  <2>1. UNCHANGED <<files, runs, status, book_only, input, pc, seq, traded, code>>
    BY <1>13 DEF vars, options, arguments
  <2>2. TypeOK' /\ Progress'
    BY <2>1 DEF IInv, TypeOK, Progress, Older, Hold, TradesOlder, Outputs
  <2>3. SuccessIsComplete' /\ NoMixedRows' /\ FailureWritesNothing'
    BY <2>1 DEF IInv, SuccessIsComplete, NoMixedRows, FailureWritesNothing, Outputs
  <2> QED
    BY <2>2, <2>3 DEF IInv
<1> QED
  BY <1>1, <1>2, <1>3, <1>4, <1>5, <1>6, <1>7, <1>8, <1>9, <1>10, <1>11, <1>12, <1>13 DEF Next

LEMMA Invariance == Spec => []IInv
<1>1. Init => IInv
  BY InitIInv
<1>2. IInv /\ [Next]_vars => IInv'
  BY NextIInv
<1> QED
  BY <1>1, <1>2, PTL DEF Spec

\* No file is of a run to come, and counts stay natural numbers.
THEOREM TypeCorrectness == Spec => []TypeOK
<1>1. IInv => TypeOK
  BY DEF IInv
<1> QED
  BY <1>1, Invariance, PTL

\* However many runs share a directory, wherever they fail or are killed, an
\* exit code of 0 means complete files of that very run.
THEOREM SuccessAlwaysComplete == Spec => []SuccessIsComplete
<1>1. IInv => SuccessIsComplete
  BY DEF IInv
<1> QED
  BY <1>1, Invariance, PTL

\* Rows of book.csv and ofi.csv of different runs never stand together.
THEOREM RowsNeverMix == Spec => []NoMixedRows
<1>1. IInv => NoMixedRows
  BY DEF IInv
<1> QED
  BY <1>1, Invariance, PTL

\* A run that fails leaves no row that could be taken for its result.
THEOREM FailuresLeaveNoRows == Spec => []FailureWritesNothing
<1>1. IInv => FailureWritesNothing
  BY DEF IInv
<1> QED
  BY <1>1, Invariance, PTL
(***************************************************************************)
(* The command line                                                        *)
(***************************************************************************)

\* The items with this option that the loop has passed, and the last of them.
Passed(option) == {k \in Args!ItemsOf({option}) : k < i}

IsLast(k, option) == k \in Passed(option) /\ \A m \in Passed(option) : m <= k

\* What the loop knows before an iteration: it stands at an item, nothing
\* wrong and no call for help is behind it, and each variable is what the
\* items behind it make of it.
KnowsThePassed ==
  status = "reading" =>
    /\ ~Args!IsValue(i)
    /\ \A k \in Args!Faults \cup Args!ItemsOf(Args!Help) : i <= k
    /\ IF events_path = Args!NoText THEN \A k \in Args!ItemsOf(Words) : i <= k
       ELSE \E k \in Args!ItemsOf(Words) : k < i /\ events_path = argv[k]
    /\ book_only = (Passed("--book-only") # {})
    /\ \/ Passed("--out-dir") = {} /\ out_dir = "."
       \/ \E k : IsLast(k, "--out-dir") /\ out_dir = argv[k + 1]
    /\ \/ Passed("--ofi-levels") = {} /\ ofi_levels = 5
       \/ \E k : IsLast(k, "--ofi-levels") /\ ofi_levels = StoiValue[argv[k + 1]]

GrammarInv ==
  pc = "arguments" =>
    Args!TypeOK /\ status # "none" /\ KnowsThePassed /\ Args!ReadsTheGrammar

\* A set of naturals that is not empty has a least element.
LEMMA LeastPosition ==
  ASSUME NEW T \in SUBSET Nat, T # {}
  PROVE  \E n \in T : \A m \in T : n <= m
<1> DEFINE R == OpToRel(<, Nat)
<1>1. IsWellFoundedOn(R, Nat)
  BY NatLessThanWellFounded
<1>2. R = {pair \in Nat \X Nat : pair[1] < pair[2]}
  BY DEF OpToRel
<1> HIDE DEF R
<1>3. PICK n \in T : \A m \in T : <<m, n>> \notin R
  BY <1>1, WFMin
<1>4. \A m \in T : ~(m < n)
  BY <1>2, <1>3
<1> QED
  BY <1>3, <1>4

\* The arguments from j to k are value options, and the one before j is none.
RunOfOptions(j, k) ==
  /\ \A m \in j .. k : argv[m] \in Args!Valued
  /\ j = 1 \/ argv[j - 1] \notin Args!Valued

\* Each value option is in a run of them, which starts at one place only.
LEMMA RunExists ==
  ASSUME NEW k \in Nat \ {0}, argv[k] \in Args!Valued
  PROVE  \E j \in 1 .. k : RunOfOptions(j, k)
<1> DEFINE Starts == {j \in 1 .. k : \A m \in j .. k : argv[m] \in Args!Valued}
<1>1. k \in Starts /\ Starts \in SUBSET Nat
  OBVIOUS
<1>2. PICK j \in Starts : \A n \in Starts : j <= n
  BY <1>1, LeastPosition
<1>3. ASSUME j # 1, argv[j - 1] \in Args!Valued
      PROVE  FALSE
  <2>1. j - 1 \in 1 .. k /\ \A m \in j - 1 .. k : m = j - 1 \/ m \in j .. k
    BY <1>2, <1>3
  <2>2. j - 1 \in Starts
    BY <1>2, <1>3, <2>1
  <2> QED
    BY <1>2, <2>2
<1> QED
  BY <1>2, <1>3 DEF RunOfOptions

LEMMA RunIsUnique ==
  ASSUME NEW k \in Nat \ {0}, NEW j \in 1 .. k, NEW n \in 1 .. k,
         RunOfOptions(j, k), RunOfOptions(n, k)
  PROVE  j = n
<1>1. ~(j < n)
  <2> SUFFICES ASSUME j < n PROVE FALSE
    OBVIOUS
  <2>1. n - 1 \in j .. k /\ n # 1
    OBVIOUS
  <2> QED
    BY <2>1 DEF RunOfOptions
<1>2. ~(n < j)
  <2> SUFFICES ASSUME n < j PROVE FALSE
    OBVIOUS
  <2>1. j - 1 \in n .. k /\ j # 1
    OBVIOUS
  <2> QED
    BY <2>1 DEF RunOfOptions
<1> QED
  BY <1>1, <1>2

\* An argument is a value exactly if the one before is a value option and not
\* a value itself.
LEMMA NextIsValue ==
  ASSUME NEW k \in Nat \ {0}
  PROVE  Args!IsValue(k + 1) <=> argv[k] \in Args!Valued /\ ~Args!IsValue(k)
<1>1. Args!IsValue(k + 1) <=> \E j \in 1 .. k : RunOfOptions(j, k) /\ (k + 1 - j) % 2 = 1
  BY DEF Args!IsValue, RunOfOptions
<1>2. Args!IsValue(k) <=> \E j \in 1 .. k - 1 : RunOfOptions(j, k - 1) /\ (k - j) % 2 = 1
  BY DEF Args!IsValue, RunOfOptions
<1>3. ASSUME NEW j \in 1 .. k PROVE (k + 1 - j) % 2 = 1 <=> (k - j) % 2 # 1
  OBVIOUS
<1>4. CASE argv[k] \notin Args!Valued
  BY <1>1, <1>4 DEF RunOfOptions
<1>5. CASE argv[k] \in Args!Valued
  <2>1. PICK j \in 1 .. k : RunOfOptions(j, k)
    BY <1>5, RunExists
  <2>2. Args!IsValue(k + 1) <=> (k + 1 - j) % 2 = 1
    BY <1>1, <2>1, RunIsUnique
  <2>3. Args!IsValue(k) <=> (k - j) % 2 = 1
    <3>1. CASE j = k
      <4>1. (k - j) % 2 # 1
        BY <3>1
      <4>2. ~Args!IsValue(k)
        <5> SUFFICES ASSUME NEW n \in 1 .. k - 1, RunOfOptions(n, k - 1)
                     PROVE  FALSE
          BY <1>2
        <5>1. k - 1 \in n .. k - 1 /\ k # 1
          OBVIOUS
        <5> QED
          BY <5>1, <2>1, <3>1 DEF RunOfOptions
      <4> QED
        BY <4>1, <4>2
    <3>2. CASE j # k
      <4>1. j \in 1 .. k - 1 /\ k - 1 \in Nat \ {0}
        BY <3>2
      <4>2. RunOfOptions(j, k - 1)
        BY <2>1 DEF RunOfOptions
      <4> QED
        BY <1>2, <4>1, <4>2, RunIsUnique
    <3> QED
      BY <3>1, <3>2
  <2> QED
    BY <1>3, <1>5, <2>2, <2>3
<1> QED
  BY <1>4, <1>5

LEMMA FirstIsItem == ~Args!IsValue(1)
BY DEF Args!IsValue

(***************************************************************************)
(* One iteration                                                           *)
(***************************************************************************)

\* Before an iteration: the loop is reading, at an item.
AtItem ==
  /\ Args!TypeOK /\ KnowsThePassed
  /\ status = "reading" /\ i <= Len(argv)
  /\ UNCHANGED argv

\* An iteration takes one argument, or an option with its value.
Advances ==
  \/ argv[i] \notin Args!Valued /\ i' = i + 1
  \/ argv[i] \in Args!Valued /\ i < Len(argv) /\ i' = i + 2

\* What an argument is does not change while the loop reads.
LEMMA SameItems ==
  ASSUME UNCHANGED argv
  PROVE  /\ Args!Items' = Args!Items
         /\ \A args : Args!ItemsOf(args)' = Args!ItemsOf(args)
         /\ Args!Faults' = Args!Faults
<1>1. Args!Items' = Args!Items
  BY DEF Args!Items, Args!IsValue
<1>2. \A args : Args!ItemsOf(args)' = Args!ItemsOf(args)
  BY <1>1 DEF Args!ItemsOf
<1>3. Args!Faults' = Args!Faults
  BY <1>2 DEF Args!Faults, Args!ReadsLevels
<1> QED
  BY <1>1, <1>2, <1>3

LEMMA ItemHere ==
  ASSUME AtItem
  PROVE  /\ i \in Nat \ {0} /\ Len(argv) \in Nat /\ i \in Args!Items
         /\ argv[i] \in Args!Arguments
         /\ \A args : i \in Args!ItemsOf(args) <=> argv[i] \in args
<1>1. i \in Nat \ {0} /\ Len(argv) \in Nat /\ i \in 1 .. Len(argv)
  BY DEF AtItem, Args!TypeOK
<1>2. i \in DOMAIN argv /\ argv[i] \in Args!Arguments
  BY <1>1 DEF AtItem, Args!TypeOK
<1>3. i \in Args!Items
  BY <1>2 DEF AtItem, KnowsThePassed, Args!Items
<1> QED
  BY <1>1, <1>2, <1>3 DEF Args!ItemsOf

\* After an iteration the loop stands at an item again, past the one it read.
LEMMA PastOneItem ==
  ASSUME AtItem, Advances
  PROVE  /\ (~Args!IsValue(i))'
         /\ i' \in 1 .. Len(argv) + 1
         /\ \A k \in Args!Items : k < i' <=> k < i \/ k = i
<1>1. i \in Nat \ {0} /\ Len(argv) \in Nat /\ ~Args!IsValue(i)
  BY ItemHere DEF AtItem, KnowsThePassed
<1>2. DOMAIN argv = 1 .. Len(argv)
  BY DEF AtItem, Args!TypeOK
<1>3. \A k \in Args!Items : k \in 1 .. Len(argv) /\ ~Args!IsValue(k)
  BY <1>2 DEF Args!Items
<1>4. CASE argv[i] \notin Args!Valued /\ i' = i + 1
  <2>1. ~Args!IsValue(i + 1)
    BY <1>1, <1>4, NextIsValue
  <2>2. (~Args!IsValue(i))'
    BY <1>4, <2>1 DEF AtItem, Args!IsValue
  <2> QED
    BY <1>1, <1>3, <1>4, <2>2 DEF AtItem
<1>5. CASE argv[i] \in Args!Valued /\ i < Len(argv) /\ i' = i + 2
  <2>1. Args!IsValue(i + 1)
    BY <1>1, <1>5, NextIsValue
  <2>2. i + 1 \in Nat \ {0} /\ (i + 1) + 1 = i + 2
    BY <1>1
  <2>3. ~Args!IsValue((i + 1) + 1)
    BY <2>1, <2>2, NextIsValue
  <2>4. (~Args!IsValue(i))'
    BY <1>5, <2>2, <2>3 DEF AtItem, Args!IsValue
  <2>5. i + 1 \notin Args!Items
    BY <2>1 DEF Args!Items
  <2> QED
    BY <1>1, <1>3, <1>5, <2>4, <2>5
<1> QED
  BY <1>4, <1>5 DEF Advances

LEMMA OnePassedMore ==
  ASSUME AtItem, Advances, NEW option
  PROVE  Passed(option)' = IF argv[i] = option THEN Passed(option) \cup {i} ELSE Passed(option)
<1>1. Args!ItemsOf({option})' = Args!ItemsOf({option})
  BY SameItems DEF AtItem
<1>2. \A k \in Args!ItemsOf({option}) : k < i' <=> k < i \/ k = i
  BY PastOneItem DEF Args!ItemsOf
<1>3. i \in Args!ItemsOf({option}) <=> argv[i] = option
  BY ItemHere
<1> QED
  BY <1>1, <1>2, <1>3 DEF Passed

\* The last item with an option stays the last, unless this is one.
LEMMA LastPassed ==
  ASSUME AtItem, Advances, NEW option
  PROVE  /\ argv[i] # option => \A k : IsLast(k, option) => IsLast(k, option)'
         /\ argv[i] = option => \A k : k = i => IsLast(k, option)'
<1>1. \A k \in Passed(option) : k \in Int /\ k < i
  BY DEF Passed, Args!ItemsOf, Args!Items, AtItem, Args!TypeOK
<1>2. i \in Int
  BY ItemHere
<1> QED
  BY <1>1, <1>2, OnePassedMore DEF IsLast

\* What is still to come stays so, unless it is this item.
LEMMA StillAhead ==
  ASSUME AtItem, Advances, NEW S \in SUBSET Args!Items, \A k \in S : i <= k, i \notin S
  PROVE  \A k \in S : i' <= k
<1> SUFFICES ASSUME NEW k \in S PROVE i' <= k
  OBVIOUS
<1>1. k \in Int /\ k \in Args!Items
  BY DEF Args!Items, AtItem, Args!TypeOK
<1>2. ~(k < i) /\ k # i
  BY <1>1, ItemHere
<1>3. ~(k < i') /\ i' \in Int
  BY <1>1, <1>2, PastOneItem, ItemHere
<1> QED
  BY <1>1, <1>3

LEMMA FaultsAreItems == Args!Faults \subseteq Args!Items
BY DEF Args!Faults, Args!ItemsOf

\* No fault and no call for help is behind this item.
LEMMA NoneBehind ==
  ASSUME AtItem
  PROVE  \A k \in Args!Faults \cup Args!ItemsOf(Args!Help) : ~(k < i) /\ (k # i => i < k)
<1>1. \A k \in Args!Faults \cup Args!ItemsOf(Args!Help) : i <= k
  BY DEF AtItem, KnowsThePassed
<1>2. \A k \in Args!Faults \cup Args!ItemsOf(Args!Help) : k \in Int
  BY FaultsAreItems DEF Args!ItemsOf, Args!Items, AtItem, Args!TypeOK
<1>3. i \in Int
  BY ItemHere
<1> QED
  BY <1>1, <1>2, <1>3

\* The last argument has no value behind it.
LEMMA AtTheEnd ==
  ASSUME AtItem, ~Args!HasValue
  PROVE  i = Len(argv)
<1>1. i \in Nat /\ Len(argv) \in Nat /\ i <= Len(argv)
  BY ItemHere DEF AtItem
<1> QED
  BY <1>1 DEF Args!HasValue

\* When this item is a fault.
LEMMA FaultHere ==
  ASSUME AtItem
  PROVE  i \in Args!Faults <=>
           \/ argv[i] \in Unknown
           \/ argv[i] \in Args!Valued /\ i = Len(argv)
           \/ argv[i] = "--ofi-levels" /\ i < Len(argv) /\ ~Args!ReadsLevels(argv[i + 1])
           \/ argv[i] \in Words \cup {Args!NoText} /\ events_path # Args!NoText
<1>1. \A args : i \in Args!ItemsOf(args) <=> argv[i] \in args
  BY ItemHere
<1>2. (\E k \in Args!ItemsOf(Words) : k < i) <=> events_path # Args!NoText
  <2>1. \A k \in Args!ItemsOf(Words) : k \in Int
    BY DEF Args!ItemsOf, Args!Items, AtItem, Args!TypeOK
  <2> QED
    BY <2>1, ItemHere DEF AtItem, KnowsThePassed
<1> QED
  BY <1>1, <1>2 DEF Args!Faults

\* An iteration that goes on, at an item that is neither wrong nor a call for
\* help, leaves those ahead.
LEMMA NothingWrongYet ==
  ASSUME AtItem, Advances, i \notin Args!Faults, argv[i] \notin Args!Help
  PROVE  (\A k \in Args!Faults \cup Args!ItemsOf(Args!Help) : i <= k)'
<1>1. \A k \in Args!Faults \cup Args!ItemsOf(Args!Help) : i <= k
  BY DEF AtItem, KnowsThePassed
<1>2. i \notin Args!Faults \cup Args!ItemsOf(Args!Help)
  BY ItemHere
<1>3. Args!Faults \cup Args!ItemsOf(Args!Help) \in SUBSET Args!Items
  BY FaultsAreItems DEF Args!ItemsOf
<1>4. \A k \in Args!Faults \cup Args!ItemsOf(Args!Help) : i' <= k
  BY <1>1, <1>2, <1>3, StillAhead
<1>5. Args!Help' = Args!Help
  BY DEF Args!Help
<1> QED
  BY <1>4, <1>5, SameItems DEF AtItem

\* The events file stays what it is past an item that is no word.
LEMMA SameFile ==
  ASSUME AtItem, Advances, UNCHANGED events_path, argv[i] \notin Words
  PROVE  (IF events_path = Args!NoText THEN \A k \in Args!ItemsOf(Words) : i <= k
          ELSE \E k \in Args!ItemsOf(Words) : k < i /\ events_path = argv[k])'
<1>1. Args!ItemsOf(Words)' = Args!ItemsOf(Words)
  BY SameItems DEF AtItem
<1>2. Args!ItemsOf(Words) \in SUBSET Args!Items /\ i \notin Args!ItemsOf(Words)
  BY ItemHere DEF Args!ItemsOf
<1>3. CASE events_path = Args!NoText
  <2>1. \A k \in Args!ItemsOf(Words) : i <= k
    BY <1>3 DEF AtItem, KnowsThePassed
  <2>2. \A k \in Args!ItemsOf(Words) : i' <= k
    BY <1>2, <2>1, StillAhead
  <2> QED
    BY <1>1, <1>3, <2>2
<1>4. CASE events_path # Args!NoText
  <2>1. PICK k \in Args!ItemsOf(Words) : k < i /\ events_path = argv[k]
    BY <1>4 DEF AtItem, KnowsThePassed
  <2>2. k < i'
    BY <1>2, <2>1, PastOneItem
  <2> QED
    BY <1>1, <1>4, <2>1, <2>2 DEF AtItem
<1> QED
  BY <1>3, <1>4

\* A variable that an option sets keeps the last value past another item.
LEMMA SameDirectory ==
  ASSUME AtItem, Advances, UNCHANGED out_dir, argv[i] # "--out-dir"
  PROVE  (\/ Passed("--out-dir") = {} /\ out_dir = "."
          \/ \E k : IsLast(k, "--out-dir") /\ out_dir = argv[k + 1])'
<1>1. CASE Passed("--out-dir") = {} /\ out_dir = "."
  BY <1>1, OnePassedMore
<1>2. CASE \E k : IsLast(k, "--out-dir") /\ out_dir = argv[k + 1]
  BY <1>2, LastPassed DEF AtItem
<1> QED
  BY <1>1, <1>2 DEF AtItem, KnowsThePassed

LEMMA SameLevels ==
  ASSUME AtItem, Advances, UNCHANGED ofi_levels, argv[i] # "--ofi-levels"
  PROVE  (\/ Passed("--ofi-levels") = {} /\ ofi_levels = 5
          \/ \E k : IsLast(k, "--ofi-levels") /\ ofi_levels = StoiValue[argv[k + 1]])'
<1>1. CASE Passed("--ofi-levels") = {} /\ ofi_levels = 5
  BY <1>1, OnePassedMore
<1>2. CASE \E k : IsLast(k, "--ofi-levels") /\ ofi_levels = StoiValue[argv[k + 1]]
  BY <1>2, LastPassed DEF AtItem
<1> QED
  BY <1>1, <1>2 DEF AtItem, KnowsThePassed

LEMMA SameMode ==
  ASSUME AtItem, Advances, UNCHANGED book_only, argv[i] # "--book-only"
  PROVE  (book_only = (Passed("--book-only") # {}))'
BY OnePassedMore DEF AtItem, KnowsThePassed

(***************************************************************************)
(* The branches of the loop                                                *)
(***************************************************************************)

Legible == Args!TypeOK /\ status # "none" /\ KnowsThePassed /\ Args!ReadsTheGrammar

\* A branch that goes on at the next item leaves a legible state if it keeps
\* what the loop knows, for no verdict has been given.
LEMMA GoesOn ==
  ASSUME AtItem, Advances, UNCHANGED status,
         i \notin Args!Faults, argv[i] \notin Args!Help,
         events_path' \in Words \cup {Args!NoText},
         out_dir' \in Args!Arguments \cup {"."},
         ofi_levels' \in Nat \ {0}, book_only' \in BOOLEAN,
         (IF events_path = Args!NoText THEN \A k \in Args!ItemsOf(Words) : i <= k
          ELSE \E k \in Args!ItemsOf(Words) : k < i /\ events_path = argv[k])',
         (book_only = (Passed("--book-only") # {}))',
         (\/ Passed("--out-dir") = {} /\ out_dir = "."
          \/ \E k : IsLast(k, "--out-dir") /\ out_dir = argv[k + 1])',
         (\/ Passed("--ofi-levels") = {} /\ ofi_levels = 5
          \/ \E k : IsLast(k, "--ofi-levels") /\ ofi_levels = StoiValue[argv[k + 1]])'
  PROVE  Legible'
<1>1. status' = "reading" /\ argv' = argv
  BY DEF AtItem
<1>2. Args!TypeOK'
  <2>1. i' \in 1 .. Len(argv) + 1 /\ argv \in Seq(Args!Arguments)
    BY PastOneItem DEF AtItem, Args!TypeOK
  <2> QED
    BY <1>1, <2>1 DEF Args!TypeOK, Args!Arguments, Args!Known, Args!Help, Args!Valued
<1>3. KnowsThePassed'
  <2>1. (~Args!IsValue(i))'
    BY PastOneItem
  <2>2. (\A k \in Args!Faults \cup Args!ItemsOf(Args!Help) : i <= k)'
    BY NothingWrongYet
  <2> QED
    BY <2>1, <2>2 DEF KnowsThePassed
<1>4. Args!ReadsTheGrammar'
  BY <1>1 DEF Args!ReadsTheGrammar
<1> QED
  BY <1>1, <1>2, <1>3, <1>4 DEF Legible

\* A branch that stops keeps everything but the status.
LEMMA StopsWith ==
  ASSUME Args!TypeOK, UNCHANGED argv, NEW with \in {"exit 0", "exit 2", "run"},
         Args!Stop(with), with = "run" => events_path # Args!NoText
  PROVE  /\ Args!TypeOK' /\ (status # "none")' /\ KnowsThePassed'
         /\ UNCHANGED <<argv, i, events_path, out_dir, ofi_levels, book_only>>
         /\ status' = with
<1>1. /\ status' = with
      /\ UNCHANGED <<argv, i, events_path, out_dir, ofi_levels, book_only>>
  BY DEF Args!Stop
<1>2. Args!TypeOK'
  BY <1>1 DEF Args!TypeOK, Args!Arguments, Args!Known, Args!Help, Args!Valued
<1>3. status' # "none" /\ status' # "reading"
  BY <1>1
<1> QED
  BY <1>1, <1>2, <1>3 DEF KnowsThePassed

\* At a fault the command line is refused: nothing before was a call for help.
LEMMA RefusedAtFault ==
  ASSUME AtItem, i \in Args!Faults, Args!Stop("exit 2")
  PROVE  Legible'
<1>1. /\ Args!TypeOK' /\ (status # "none")' /\ KnowsThePassed'
      /\ status' = "exit 2"
  BY StopsWith DEF AtItem
<1>2. /\ Args!Faults' = Args!Faults
      /\ Args!ItemsOf(Args!Help)' = Args!ItemsOf(Args!Help)
  BY SameItems DEF AtItem
<1>3. \A k \in Args!ItemsOf(Args!Help) : ~(\A f \in Args!Faults : k < f)
  BY NoneBehind
<1>4. Args!ReadsTheGrammar'
  BY <1>1, <1>2, <1>3 DEF Args!ReadsTheGrammar
<1> QED
  BY <1>1, <1>4 DEF Legible

\* The kinds of arguments do not overlap.
LEMMA KindsDiffer ==
  ASSUME NEW text
  PROVE  /\ text \in Words => text \notin Args!Known /\ text \notin Unknown
         /\ text \in Unknown => text \notin Args!Known
         /\ text \in Args!Valued => text \notin Args!Help /\ text # "--book-only"
         /\ text \in Args!Help => text # "--book-only"
         /\ text = Args!NoText => text \notin Args!Help /\ text \notin Args!Valued
                                  /\ text # "--book-only"
<1>1. text \in Words => text \notin Args!Known /\ text \notin Unknown
  BY ArgumentsAssumption
<1>2. text \in Unknown => text \notin Args!Known
  BY ArgumentsAssumption
<1>3. text \in Args!Valued => text \notin Args!Help /\ text # "--book-only"
  BY DEF Args!Valued, Args!Help
<1>4. text \in Args!Help => text # "--book-only"
  BY DEF Args!Help
<1>5. text = Args!NoText => text \notin Args!Help /\ text \notin Args!Valued
                            /\ text # "--book-only"
  BY Zenon DEF Args!NoText, Args!Help, Args!Valued
<1> QED
  BY <1>1, <1>2, <1>3, <1>4, <1>5

LEMMA AskForHelpStep ==
  ASSUME Args!TypeOK, KnowsThePassed, UNCHANGED argv, Args!AskForHelp
  PROVE  Legible'
<1>1. AtItem /\ argv[i] \in Args!Help /\ Args!Stop("exit 0")
  BY DEF Args!AskForHelp, Args!Reading, AtItem
<1>2. /\ Args!TypeOK' /\ (status # "none")' /\ KnowsThePassed'
      /\ status' = "exit 0"
  BY <1>1, StopsWith DEF AtItem
<1>3. /\ Args!Faults' = Args!Faults
      /\ Args!ItemsOf(Args!Help)' = Args!ItemsOf(Args!Help)
  BY SameItems
<1>4. i \in Args!ItemsOf(Args!Help)
  BY <1>1, ItemHere
<1>5. i \notin Args!Faults
  <2>1. argv[i] \in Args!Known /\ argv[i] \notin Args!Valued
    BY <1>1, KindsDiffer DEF Args!Known
  <2>2. argv[i] \notin Unknown /\ argv[i] \notin Words /\ argv[i] # Args!NoText
        /\ argv[i] # "--ofi-levels"
    BY <1>1, <2>1, KindsDiffer DEF Args!Valued
  <2> QED
    BY <1>1, <2>1, <2>2, FaultHere
<1>6. \A f \in Args!Faults : i < f
  BY <1>1, <1>5, NoneBehind
<1>7. Args!ReadsTheGrammar'
  BY <1>2, <1>3, <1>4, <1>6 DEF Args!ReadsTheGrammar
<1> QED
  BY <1>2, <1>7 DEF Legible

LEMMA BookOnlyStep ==
  ASSUME Args!TypeOK, KnowsThePassed, UNCHANGED argv, Args!BookOnly
  PROVE  Legible'
<1>1. /\ AtItem /\ argv[i] = "--book-only" /\ book_only' = TRUE /\ i' = i + 1
      /\ UNCHANGED <<events_path, out_dir, ofi_levels, status>>
  BY DEF Args!BookOnly, Args!Reading, AtItem
<1>2. argv[i] \notin Words /\ argv[i] \notin Unknown /\ argv[i] # Args!NoText
      /\ argv[i] \notin Args!Help /\ argv[i] \notin Args!Valued
  BY <1>1, KindsDiffer DEF Args!Known
<1>3. Advances
  BY <1>1, <1>2 DEF Advances
<1>4. argv[i] # "--out-dir" /\ argv[i] # "--ofi-levels"
  BY <1>1
<1>5. i \notin Args!Faults
  BY <1>1, <1>2, <1>4, FaultHere
<1>6. (book_only = (Passed("--book-only") # {}))'
  BY <1>1, <1>3, OnePassedMore
<1>7. /\ events_path' \in Words \cup {Args!NoText}
      /\ out_dir' \in Args!Arguments \cup {"."}
      /\ ofi_levels' \in Nat \ {0} /\ book_only' \in BOOLEAN
  BY <1>1 DEF Args!TypeOK
<1> QED
  BY <1>1, <1>2, <1>3, <1>4, <1>5, <1>6, <1>7, GoesOn, SameFile, SameDirectory, SameLevels

LEMMA OutDirStep ==
  ASSUME Args!TypeOK, KnowsThePassed, UNCHANGED argv, Args!OutDir
  PROVE  Legible'
<1>1. AtItem /\ argv[i] = "--out-dir"
  BY DEF Args!OutDir, Args!Reading, AtItem
<1>2. argv[i] \in Args!Valued /\ argv[i] \in Args!Known
  BY <1>1 DEF Args!Valued, Args!Known
<1>3. argv[i] \notin Words /\ argv[i] \notin Unknown /\ argv[i] # Args!NoText
      /\ argv[i] \notin Args!Help /\ argv[i] # "--book-only" /\ argv[i] # "--ofi-levels"
  BY <1>1, <1>2, KindsDiffer
<1>4. i \in Nat \ {0} /\ Len(argv) \in Nat /\ i <= Len(argv)
  BY <1>1, ItemHere DEF AtItem
<1>5. CASE ~Args!HasValue /\ Args!Stop("exit 2")
  <2>1. i = Len(argv)
    BY <1>1, <1>5, AtTheEnd
  <2> QED
    BY <1>1, <1>2, <1>5, <2>1, FaultHere, RefusedAtFault
<1>6. CASE /\ Args!HasValue /\ out_dir' = Args!Value /\ i' = i + 2
           /\ UNCHANGED <<events_path, ofi_levels, book_only, status>>
  <2>1. i < Len(argv) /\ out_dir' = argv[i + 1]
    BY <1>6 DEF Args!HasValue, Args!Value
  <2>2. Advances
    BY <1>2, <1>6, <2>1 DEF Advances
  <2>3. i \notin Args!Faults
    BY <1>1, <1>3, <1>4, <2>1, FaultHere
  <2>4. argv[i + 1] \in Args!Arguments
    BY <1>1, <1>4, <2>1 DEF AtItem, Args!TypeOK
  <2>5. (\/ Passed("--out-dir") = {} /\ out_dir = "."
         \/ \E k : IsLast(k, "--out-dir") /\ out_dir = argv[k + 1])'
    <3>1. \A k : k = i => IsLast(k, "--out-dir")'
      BY <1>1, <2>2, LastPassed
    <3> QED
      BY <1>1, <2>1, <3>1 DEF AtItem
  <2>6. /\ events_path' \in Words \cup {Args!NoText}
        /\ out_dir' \in Args!Arguments \cup {"."}
        /\ ofi_levels' \in Nat \ {0} /\ book_only' \in BOOLEAN
    BY <1>6, <2>1, <2>4 DEF Args!TypeOK
  <2> QED
    BY <1>1, <1>3, <1>6, <2>2, <2>3, <2>5, <2>6, GoesOn, SameFile, SameLevels, SameMode
<1> QED
  BY <1>5, <1>6 DEF Args!OutDir

LEMMA OfiLevelsStep ==
  ASSUME Args!TypeOK, KnowsThePassed, UNCHANGED argv, Args!OfiLevels
  PROVE  Legible'
<1>1. AtItem /\ argv[i] = "--ofi-levels"
  BY DEF Args!OfiLevels, Args!Reading, AtItem
<1>2. argv[i] \in Args!Valued /\ argv[i] \in Args!Known
  BY <1>1 DEF Args!Valued, Args!Known
<1>3. argv[i] \notin Words /\ argv[i] \notin Unknown /\ argv[i] # Args!NoText
      /\ argv[i] \notin Args!Help /\ argv[i] # "--book-only" /\ argv[i] # "--out-dir"
  BY <1>1, <1>2, KindsDiffer
<1>4. i \in Nat \ {0} /\ Len(argv) \in Nat /\ i <= Len(argv)
  BY <1>1, ItemHere DEF AtItem
<1>5. CASE ~Args!HasValue /\ Args!Stop("exit 2")
  <2>1. i = Len(argv)
    BY <1>1, <1>5, AtTheEnd
  <2> QED
    BY <1>1, <1>2, <1>5, <2>1, FaultHere, RefusedAtFault
<1>6. CASE Args!HasValue /\ ~Args!ReadsLevels(Args!Value) /\ Args!Stop("exit 2")
  <2>1. i < Len(argv) /\ ~Args!ReadsLevels(argv[i + 1])
    BY <1>6 DEF Args!HasValue, Args!Value
  <2> QED
    BY <1>1, <1>6, <2>1, FaultHere, RefusedAtFault
<1>7. CASE /\ Args!HasValue /\ Args!ReadsLevels(Args!Value)
           /\ ofi_levels' = StoiValue[Args!Value] /\ i' = i + 2
           /\ UNCHANGED <<events_path, out_dir, book_only, status>>
  <2>1. /\ i < Len(argv) /\ ofi_levels' = StoiValue[argv[i + 1]]
        /\ Args!ReadsLevels(argv[i + 1])
    BY <1>7 DEF Args!HasValue, Args!Value
  <2>2. Advances
    BY <1>2, <1>7, <2>1 DEF Advances
  <2>3. i \notin Args!Faults
    BY <1>1, <1>3, <1>4, <2>1, FaultHere
  <2>4. ofi_levels' \in Nat \ {0}
    BY <2>1, ArgumentsAssumption DEF Args!ReadsLevels
  <2>5. (\/ Passed("--ofi-levels") = {} /\ ofi_levels = 5
         \/ \E k : IsLast(k, "--ofi-levels") /\ ofi_levels = StoiValue[argv[k + 1]])'
    <3>1. \A k : k = i => IsLast(k, "--ofi-levels")'
      BY <1>1, <2>2, LastPassed
    <3> QED
      BY <1>1, <2>1, <3>1 DEF AtItem
  <2>6. /\ events_path' \in Words \cup {Args!NoText}
        /\ out_dir' \in Args!Arguments \cup {"."} /\ book_only' \in BOOLEAN
    BY <1>7 DEF Args!TypeOK
  <2> QED
    BY <1>1, <1>3, <1>7, <2>2, <2>3, <2>4, <2>5, <2>6,
       GoesOn, SameFile, SameDirectory, SameMode
<1> QED
  BY <1>5, <1>6, <1>7 DEF Args!OfiLevels

LEMMA UnknownOptionStep ==
  ASSUME Args!TypeOK, KnowsThePassed, UNCHANGED argv, Args!UnknownOption
  PROVE  Legible'
<1>1. AtItem /\ argv[i] \in Unknown /\ Args!Stop("exit 2")
  BY DEF Args!UnknownOption, Args!Reading, AtItem
<1> QED
  BY <1>1, FaultHere, RefusedAtFault

LEMMA PathStep ==
  ASSUME Args!TypeOK, KnowsThePassed, UNCHANGED argv, Args!Path
  PROVE  Legible'
<1>1. AtItem /\ argv[i] \in Words \cup {Args!NoText}
  BY DEF Args!Path, Args!Reading, AtItem
<1>2. /\ argv[i] \notin Unknown /\ argv[i] \notin Args!Help /\ argv[i] \notin Args!Valued
      /\ argv[i] # "--book-only"
  BY <1>1, KindsDiffer DEF Args!Known
<1>3. CASE events_path # Args!NoText /\ Args!Stop("exit 2")
  BY <1>1, <1>3, FaultHere, RefusedAtFault
<1>4. CASE /\ events_path = Args!NoText /\ events_path' = argv[i] /\ i' = i + 1
           /\ UNCHANGED <<out_dir, ofi_levels, book_only, status>>
  <2>1. Advances
    BY <1>2, <1>4 DEF Advances
  <2>2. argv[i] # "--out-dir" /\ argv[i] # "--ofi-levels"
    BY <1>2 DEF Args!Valued
  <2>3. i \notin Args!Faults
    BY <1>1, <1>2, <1>4, <2>2, FaultHere
  <2>4. (IF events_path = Args!NoText THEN \A k \in Args!ItemsOf(Words) : i <= k
         ELSE \E k \in Args!ItemsOf(Words) : k < i /\ events_path = argv[k])'
    <3>1. Args!ItemsOf(Words)' = Args!ItemsOf(Words)
      BY SameItems
    <3>2. CASE argv[i] \in Words
      <4>1. argv[i] # Args!NoText
        BY <3>2, KindsDiffer DEF Args!Known
      <4>2. i \in Args!ItemsOf(Words) /\ i < i'
        BY <1>1, <1>4, <3>2, ItemHere
      <4> QED
        BY <1>4, <3>1, <4>1, <4>2
    <3>3. CASE argv[i] \notin Words
      <4>1. \A k \in Args!ItemsOf(Words) : i <= k
        BY <1>1, <1>4 DEF AtItem, KnowsThePassed
      <4>2. Args!ItemsOf(Words) \in SUBSET Args!Items /\ i \notin Args!ItemsOf(Words)
        BY <1>1, <3>3, ItemHere DEF Args!ItemsOf
      <4>3. \A k \in Args!ItemsOf(Words) : i' <= k
        BY <1>1, <2>1, <4>1, <4>2, StillAhead
      <4>4. events_path' = Args!NoText
        BY <1>1, <1>4, <3>3
      <4> QED
        BY <3>1, <4>3, <4>4
    <3> QED
      BY <3>2, <3>3
  <2>5. /\ events_path' \in Words \cup {Args!NoText}
        /\ out_dir' \in Args!Arguments \cup {"."}
        /\ ofi_levels' \in Nat \ {0} /\ book_only' \in BOOLEAN
    BY <1>1, <1>4 DEF Args!TypeOK
  <2> QED
    BY <1>1, <1>2, <1>4, <2>1, <2>2, <2>3, <2>4, <2>5,
       GoesOn, SameDirectory, SameLevels, SameMode
<1> QED
  BY <1>3, <1>4 DEF Args!Path

(***************************************************************************)
(* The end of the loop                                                     *)
(***************************************************************************)

\* The loop stands at an argument, or behind the last.
LEMMA Position ==
  ASSUME Args!TypeOK
  PROVE  /\ i \in Nat /\ Len(argv) \in Nat
         /\ i <= Len(argv) + 1 /\ DOMAIN argv = 1 .. Len(argv)
<1>1. argv \in Seq(Args!Arguments) /\ i \in 1 .. Len(argv) + 1
  BY Zenon DEF Args!TypeOK
<1> QED
  BY <1>1

\* Behind the last argument nothing is to come, all has been passed.
LEMMA NothingAhead ==
  ASSUME Args!TypeOK, i > Len(argv), NEW S \in SUBSET Args!Items
  PROVE  (\A k \in S : i <= k) => S = {}
<1>1. Len(argv) \in Nat /\ i \in Nat
  BY Position
<1>2. \A k \in S : k \in 1 .. Len(argv)
  BY Position DEF Args!Items
<1> QED
  BY <1>1, <1>2

LEMMA AllPassed ==
  ASSUME Args!TypeOK, i > Len(argv), NEW option
  PROVE  Passed(option) = Args!ItemsOf({option})
<1>1. Len(argv) \in Nat /\ i \in Nat
  BY Position
<1>2. \A k \in Args!ItemsOf({option}) : k \in 1 .. Len(argv)
  BY Position DEF Args!ItemsOf, Args!Items
<1>3. \A k \in Args!ItemsOf({option}) : k < i
  BY <1>1, <1>2
<1> QED
  BY <1>3, Zenon DEF Passed

\* The last item with an option is the one its grammar means.
LEMMA LastIsMax ==
  ASSUME Args!TypeOK, i > Len(argv), NEW option, NEW k, IsLast(k, option)
  PROVE  Args!ItemsOf({option}) # {} /\ 1 + Args!Max(Args!ItemsOf({option})) = k + 1
<1> DEFINE S == Args!ItemsOf({option})
<1>1. DOMAIN argv \subseteq Int
  BY Position
<1>2. k \in S /\ \A m \in S : m <= k
  BY AllPassed DEF IsLast
<1>3. \A m \in S : m \in Int
  BY <1>1 DEF Args!ItemsOf, Args!Items
<1> HIDE DEF S
<1>4. Args!Max(S) \in S /\ \A m \in S : Args!Max(S) >= m
  BY <1>2, <1>3 DEF Args!Max
<1>5. Args!Max(S) = k
  BY <1>2, <1>3, <1>4
<1>6. S # {} /\ 1 + Args!Max(S) = k + 1
  <2>1. k \in Int
    BY <1>2, <1>3
  <2> QED
    BY <1>2, <1>5, <2>1
<1> QED
  BY <1>6 DEF S

LEMMA DoneStep ==
  ASSUME Args!TypeOK, KnowsThePassed, UNCHANGED argv, Args!Done
  PROVE  Legible'
<1>1. /\ status = "reading" /\ i > Len(argv)
      /\ Args!Stop(IF events_path = Args!NoText THEN "exit 2" ELSE "run")
  BY DEF Args!Done
<1>2. \A k \in Args!Faults \cup Args!ItemsOf(Args!Help) : i <= k
  BY <1>1 DEF KnowsThePassed
<1>3. Args!Faults = {} /\ Args!ItemsOf(Args!Help) = {}
  <2>1. /\ Args!Faults \in SUBSET Args!Items
        /\ Args!ItemsOf(Args!Help) \in SUBSET Args!Items
    BY FaultsAreItems DEF Args!ItemsOf
  <2> QED
    BY <1>1, <1>2, <2>1, NothingAhead
<1>4. \A args : Args!ItemsOf(args)' = Args!ItemsOf(args)
  BY SameItems
<1>5. Args!Faults' = Args!Faults
  BY SameItems
<1>6. CASE events_path = Args!NoText
  <2>1. Args!Stop("exit 2")
    BY <1>1, <1>6
  <2>2. /\ Args!TypeOK' /\ (status # "none")' /\ KnowsThePassed'
        /\ status' = "exit 2"
    BY <2>1, StopsWith
  <2>3. \A k \in Args!ItemsOf(Words) : i <= k
    BY <1>1, <1>6 DEF KnowsThePassed
  <2>4. Args!ItemsOf(Words) = {}
    <3>1. Args!ItemsOf(Words) \in SUBSET Args!Items
      BY DEF Args!ItemsOf
    <3> QED
      BY <1>1, <2>3, <3>1, NothingAhead
  <2>5. Args!ItemsOf(Words)' = {} /\ Args!ItemsOf(Args!Help)' = {}
    BY <1>3, <1>4, <2>4
  <2>6. Args!ReadsTheGrammar'
    BY <2>2, <2>5 DEF Args!ReadsTheGrammar
  <2> QED
    BY <2>2, <2>6 DEF Legible
<1>7. CASE events_path # Args!NoText
  <2>1. Args!Stop("run")
    BY <1>1, <1>7
  <2>2. /\ Args!TypeOK' /\ (status # "none")' /\ KnowsThePassed'
        /\ UNCHANGED <<argv, i, events_path, out_dir, ofi_levels, book_only>>
        /\ status' = "run"
    BY <1>7, <2>1, StopsWith
  <2>3. \E k \in Args!ItemsOf(Words) : events_path = argv[k]
    BY <1>1, <1>7 DEF KnowsThePassed
  <2>4. book_only = (Args!ItemsOf({"--book-only"}) # {})
    <3>1. Passed("--book-only") = Args!ItemsOf({"--book-only"})
      BY <1>1, AllPassed
    <3> QED
      BY <1>1, <3>1 DEF KnowsThePassed
  <2>5. out_dir = IF Args!ItemsOf({"--out-dir"}) = {} THEN "."
                  ELSE argv[1 + Args!Max(Args!ItemsOf({"--out-dir"}))]
    <3>1. CASE Passed("--out-dir") = {} /\ out_dir = "."
      <4>1. Passed("--out-dir") = Args!ItemsOf({"--out-dir"})
        BY <1>1, AllPassed
      <4> QED
        BY <3>1, <4>1
    <3>2. CASE \E k : IsLast(k, "--out-dir") /\ out_dir = argv[k + 1]
      <4>1. PICK k : IsLast(k, "--out-dir") /\ out_dir = argv[k + 1]
        BY <3>2
      <4>2. /\ Args!ItemsOf({"--out-dir"}) # {}
            /\ 1 + Args!Max(Args!ItemsOf({"--out-dir"})) = k + 1
        BY <1>1, <4>1, LastIsMax
      <4> QED
        BY <4>1, <4>2
    <3> QED
      BY <1>1, <3>1, <3>2 DEF KnowsThePassed
  <2>6. ofi_levels = IF Args!ItemsOf({"--ofi-levels"}) = {} THEN 5
                     ELSE StoiValue[argv[1 + Args!Max(Args!ItemsOf({"--ofi-levels"}))]]
    <3>1. CASE Passed("--ofi-levels") = {} /\ ofi_levels = 5
      <4>1. Passed("--ofi-levels") = Args!ItemsOf({"--ofi-levels"})
        BY <1>1, AllPassed
      <4> QED
        BY <3>1, <4>1
    <3>2. CASE \E k : IsLast(k, "--ofi-levels") /\ ofi_levels = StoiValue[argv[k + 1]]
      <4>1. PICK k : IsLast(k, "--ofi-levels") /\ ofi_levels = StoiValue[argv[k + 1]]
        BY <3>2
      <4>2. /\ Args!ItemsOf({"--ofi-levels"}) # {}
            /\ 1 + Args!Max(Args!ItemsOf({"--ofi-levels"})) = k + 1
        BY <1>1, <4>1, LastIsMax
      <4> QED
        BY <4>1, <4>2
    <3> QED
      BY <1>1, <3>1, <3>2 DEF KnowsThePassed
  <2>7. Args!ReadsTheGrammar'
    BY <1>3, <1>4, <1>5, <2>2, <2>3, <2>4, <2>5, <2>6 DEF Args!ReadsTheGrammar
  <2> QED
    BY <2>2, <2>7 DEF Legible
<1> QED
  BY <1>6, <1>7

\* main is called: nothing has been read yet.
LEMMA CallStep ==
  ASSUME NEW list \in Seq(Args!Arguments), Args!Call(list)
  PROVE  Legible'
<1>1. /\ argv' = list /\ i' = 1 /\ events_path' = Args!NoText /\ out_dir' = "."
      /\ ofi_levels' = 5 /\ book_only' = FALSE /\ status' = "reading"
  BY DEF Args!Call
<1>2. Args!TypeOK'
  <2>1. Len(list) \in Nat
    OBVIOUS
  <2>2. i' \in 1 .. Len(argv') + 1
    BY <1>1, <2>1
  <2>3. Args!Arguments' = Args!Arguments
    BY DEF Args!Arguments, Args!Known, Args!Help, Args!Valued
  <2>4. 5 \in Nat \ {0}
    OBVIOUS
  <2> QED
    BY <1>1, <2>2, <2>3, <2>4, Zenon DEF Args!TypeOK
<1>3. \A k \in Args!Items' : 1 <= k /\ ~(k < 1)
  <2>1. \A k \in 1 .. Len(list) : 1 <= k /\ ~(k < 1)
    OBVIOUS
  <2>2. DOMAIN argv' = 1 .. Len(list)
    BY <1>1
  <2> QED
    BY <2>1, <2>2 DEF Args!Items
<1>4. \A args : Args!ItemsOf(args)' \subseteq Args!Items'
  BY DEF Args!ItemsOf
<1>5. \A option : Passed(option)' = {}
  BY <1>1, <1>3, <1>4 DEF Passed
<1>6. KnowsThePassed'
  <2>1. (~Args!IsValue(i))'
    BY <1>1 DEF Args!IsValue
  <2>2. Args!Faults' \subseteq Args!Items'
    BY DEF Args!Faults, Args!ItemsOf
  <2>3. (\A k \in Args!Faults \cup Args!ItemsOf(Args!Help) : i <= k)'
    BY <1>1, <1>3, <1>4, <2>2
  <2>4. (\A k \in Args!ItemsOf(Words) : i <= k)'
    BY <1>1, <1>3, <1>4
  <2> QED
    BY <1>1, <1>5, <2>1, <2>3, <2>4 DEF KnowsThePassed
<1>7. Args!ReadsTheGrammar'
  BY <1>1 DEF Args!ReadsTheGrammar
<1> QED
  BY <1>1, <1>2, <1>6, <1>7 DEF Legible

LEMMA CallsAreArguments ==
  ASSUME NEW list \in Calls
  PROVE  list \in Seq(Args!Arguments)
<1>1. \A n \in 0 .. MaxArgs : [1 .. n -> Args!Arguments] \subseteq Seq(Args!Arguments)
  BY BoundsAssumption
<1> QED
  BY <1>1, ArgumentsAssumption DEF Calls

LEMMA ReadNextStep ==
  ASSUME Args!TypeOK, KnowsThePassed, Args!ReadNext
  PROVE  Legible'
<1>1. UNCHANGED argv
  BY DEF Args!ReadNext
<1> QED
  BY <1>1, AskForHelpStep, BookOnlyStep, OutDirStep, OfiLevelsStep, UnknownOptionStep,
     PathStep, DoneStep
     DEF Args!ReadNext

LEMMA NextGrammarInv == GrammarInv /\ [Next]_vars => GrammarInv'
<1> SUFFICES ASSUME GrammarInv, [Next]_vars, pc' = "arguments" PROVE Legible'
  BY DEF GrammarInv, Legible
<1>1. ASSUME NEW list \in Calls, Start(list)
      PROVE  Legible'
  BY <1>1, CallsAreArguments, CallStep DEF Start
<1>2. CASE ReadArgument
  BY <1>2, ReadNextStep DEF ReadArgument, GrammarInv
<1>3. CASE UNCHANGED vars
  <2>1. UNCHANGED <<argv, i, events_path, out_dir, ofi_levels, book_only, status>>
    BY <1>3 DEF vars, options, arguments
  <2>2. pc = "arguments"
    BY <1>3 DEF vars
  <2>3. Args!TypeOK'
    BY <2>1, <2>2 DEF GrammarInv, Args!TypeOK, Args!Arguments, Args!Known, Args!Help,
                      Args!Valued
  <2>4. /\ Args!Items' = Args!Items /\ Args!Faults' = Args!Faults
        /\ \A args : Args!ItemsOf(args)' = Args!ItemsOf(args)
    BY <2>1, SameItems
  <2>5. \A option : Passed(option)' = Passed(option)
    BY <2>1, <2>4 DEF Passed
  <2>6. \A k, option : IsLast(k, option)' <=> IsLast(k, option)
    BY <2>5 DEF IsLast
  <2>7. (Args!IsValue(i))' <=> Args!IsValue(i)
    BY <2>1 DEF Args!IsValue
  <2>8. KnowsThePassed'
    BY <2>1, <2>2, <2>4, <2>5, <2>6, <2>7 DEF GrammarInv, KnowsThePassed
  <2>9. Args!ReadsTheGrammar'
    BY <2>1, <2>2, <2>4 DEF GrammarInv, Args!ReadsTheGrammar
  <2> QED
    BY <2>1, <2>2, <2>3, <2>8, <2>9 DEF GrammarInv, Legible
<1>4. ~LeaveLoop /\ ~CreateDirectory /\ ~OpenBookAndOfi /\ ~Parse /\ ~OpenTrades
      /\ ~WriteHeaders /\ ~Finish /\ ~Kill
  BY DEF LeaveLoop, CreateDirectory, OpenBookAndOfi, Parse, OpenTrades, WriteHeaders,
         Finish, Kill, Goto, Exit
<1>5. (\A file \in Inputs : ~OpenInput(file)) /\ (\A trades \in 0 .. 2 : ~ReplayEvent(trades))
  BY DEF OpenInput, ReplayEvent, Goto, Exit, options, arguments
<1> QED
  BY <1>1, <1>2, <1>3, <1>4, <1>5 DEF Next

\* Whatever is passed to main, the loop reads it as its grammar says, with
\* values that look like options, help anywhere and options in any order.
THEOREM ArgumentsAreUnderstood == Spec => []ReadsTheGrammar
<1>1. Init => GrammarInv
  BY DEF Init, GrammarInv
<1>2. GrammarInv /\ [Next]_vars => GrammarInv'
  BY NextGrammarInv
<1>3. GrammarInv => ReadsTheGrammar
  BY DEF GrammarInv, ReadsTheGrammar
<1> QED
  BY <1>1, <1>2, <1>3, PTL DEF Spec

=============================================================================
