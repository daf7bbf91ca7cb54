----------------------------- MODULE EventParse -----------------------------
(***************************************************************************)
(* Reading the event file (parse in src/EventReplay.cpp): line by line,    *)
(* with an optional header, blank lines skipped, until the end of the file *)
(* or the first malformed row, which is refused by its line number.        *)
(***************************************************************************)
EXTENDS EventRows, FiniteSetsExt

CONSTANT MaxLines   \* bound on the length of a file

VARIABLES
  lines,           \* the lines read so far, for the properties
  line_no,         \* line_no
  checked_header,  \* checked_header
  events,          \* the events read so far
  status,          \* "parsing", or how parse ended: "returned" or "thrown"
  fault            \* why the last row was refused

vars == <<lines, line_no, checked_header, events, status, fault>>

Init ==
  /\ lines = <<>>
  /\ line_no = 0
  /\ checked_header = FALSE
  /\ events = <<>>
  /\ status = "parsing"
  /\ fault = "none"

\* std::getline got a line.
NextLine(line) ==
  /\ status = "parsing"
  /\ line_no < MaxLines
  /\ lines' = Append(lines, line)

\* Faulty variant: blank lines are not counted.
BlankLineUncounted(line) ==
  /\ NextLine(line)
  /\ line = <<>>
  /\ UNCHANGED <<line_no, checked_header, events, status, fault>>

BlankLine(line) ==
  /\ NextLine(line)
  /\ line = <<>>
  /\ line_no' = line_no + 1
  /\ UNCHANGED <<checked_header, events, status, fault>>

\* The first line that is not blank may be a header: it begins with "timestamp",
\* whatever follows.
IsHeader(line) == ~checked_header /\ line[1] \in HeaderFields

HeaderLine(line) ==
  /\ NextLine(line)
  /\ line # <<>>
  /\ IsHeader(line)
  /\ line_no' = line_no + 1
  /\ checked_header' = TRUE
  /\ UNCHANGED <<events, status, fault>>

\* Any other line is a row: an event, or the end of the parse.
Row(line) ==
  /\ NextLine(line)
  /\ line # <<>>
  /\ ~IsHeader(line)
  /\ line_no' = line_no + 1
  /\ checked_header' = TRUE
  /\ LET f == split_csv(line)
     IN /\ fault' = RowFault(f)
        /\ \/ /\ fault' = "none"
              /\ events' = Append(events, AsEvent(f))
              /\ UNCHANGED status
           \/ /\ fault' # "none"
              /\ status' = "thrown"
              /\ UNCHANGED events

EndOfFile ==
  /\ status = "parsing"
  /\ status' = "returned"
  /\ UNCHANGED <<lines, line_no, checked_header, events, fault>>

Next ==
  \/ \E line \in Lines : BlankLine(line) \/ HeaderLine(line) \/ Row(line)
  \/ EndOfFile

Spec == Init /\ [][Next]_vars

(***************************************************************************)
(* Properties                                                              *)
(***************************************************************************)

ParsedEvent ==
  [timestamp : LongLong, type : {"Add", "Cancel", "Modify", "Market"},
   id : 0 .. 2 * HalfRange - 1, side : {"Buy", "Sell"}, price : LongLong,
   quantity : LongLong]

\* Every event handed to a replay is within its types, and has a positive
\* size unless it is a CANCEL, as both replays assume; nothing is thrown
\* without a fault.
TypeOK ==
  /\ lines \in Seq(Lines)
  /\ line_no \in 0 .. MaxLines
  /\ checked_header \in BOOLEAN
  /\ \A k \in DOMAIN events :
       /\ events[k] \in ParsedEvent
       /\ events[k].type = "Cancel" \/ events[k].quantity > 0
  /\ status \in {"parsing", "returned", "thrown"}
  /\ status = "thrown" <=> fault # "none"

\* The lines read that must be rows: not blank, and not a header in front.
RowLines ==
  LET text == {k \in DOMAIN lines : lines[k] # <<>>}
  IN {k \in text : ~(k = Min(text) /\ lines[k][1] \in HeaderFields)}

\* A row as the file's author means it: six fields that are given (only the
\* quantity of a CANCEL is not looked at, though it must be a number), and
\* anything after them ignored. An empty number in front is 0, an empty last
\* field is no field.
Number(text) == text \in {Blank} \cup {n \in DOMAIN Numerals : Numerals[n] \in LongLong}

Positive(text) == Number(text) /\ text # Blank /\ Numerals[text] > 0

WellFormed(line) ==
  /\ \/ Len(line) > 6
     \/ Len(line) = 6 /\ line[6] # Blank
  /\ Number(line[1]) /\ Number(line[3]) /\ Number(line[5])
  /\ line[4] \in {"B", "S"}
  /\ \/ line[2] = "CANCEL" /\ Number(line[6])
     \/ line[2] \in {"ADD", "MODIFY", "MARKET"} /\ Positive(line[6])

\* Whatever mix of blank lines, headers and rows the file is: the events are
\* the rows in file order, one each and none skipped, and a refusal names by
\* its number in the file the first row that is malformed and no other.
EventsAreTheRows ==
  LET sound == {k \in RowLines : WellFormed(lines[k])}
      unsound == RowLines \ sound
  IN /\ Len(events) = Cardinality(sound)
     /\ \A k \in sound :
          events[Cardinality({j \in sound : j <= k})] = AsEvent(lines[k])
     /\ unsound = IF status = "thrown" THEN {line_no} ELSE {}
     /\ line_no = Len(lines)
=============================================================================
