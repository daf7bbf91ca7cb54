----------------------------- MODULE EventRows -----------------------------
(***************************************************************************)
(* One row of the event file (split_csv, parse_int, parse_event_type and   *)
(* parse_side in src/EventReplay.cpp): whether it is an event, and which.  *)
(*                                                                         *)
(* A line is the sequence of its fields, each the text between two commas  *)
(* without the blanks around it; a blank line is <<>>.  A field's text is  *)
(* a member of a small set, and Numerals says which texts stoll reads to   *)
(* the end and as what number, so that the width of long long matters.     *)
(***************************************************************************)
EXTENDS Integers, Sequences, SequencesExt

CONSTANTS
  Lines,          \* the lines a file is made of
  HeaderFields,   \* the texts of a first field that begin with "timestamp"
  Numerals,       \* a function from the texts of numbers to their values
  HalfRange       \* half of the values of long long, and of an order id: 2^63

ASSUME HalfRangeAssumption == HalfRange \in Nat \ {0}

\* The text of a field with nothing in it.
Blank == ""

\* std::getline gives no field for a line that is all blank.
ASSUME LinesAssumption == \A line \in Lines : line \in Seq(STRING) /\ line # <<Blank>>

\* split_csv: std::getline finds nothing after a comma that ends the line.
split_csv(line) == IF Last(line) = Blank THEN Front(line) ELSE line

\* What stoll can represent.
LongLong == -HalfRange .. HalfRange - 1

\* parse_int succeeds: an empty field counts as 0.
ReadsInt(text) ==
  \/ text = Blank
  \/ text \in DOMAIN Numerals /\ Numerals[text] \in LongLong

parse_int(text) == IF text = Blank THEN 0 ELSE Numerals[text]

\* parse_event_type and parse_side, on the texts they accept.
EventTypes ==
  [ADD |-> "Add", CANCEL |-> "Cancel", MODIFY |-> "Modify", MARKET |-> "Market"]

SideNames == [B |-> "Buy", S |-> "Sell"]

\* The events whose quantity is checked.
QuantityNeeded(f) == EventTypes[f[2]] \in {"Add", "Market", "Modify"}

\* The first thing wrong with a row, in the order parse looks.
RowFault(f) ==
  CASE Len(f) < 6 -> "fields"
    [] ~ReadsInt(f[1]) -> "timestamp"
    [] f[2] \notin DOMAIN EventTypes -> "event_type"
    [] ~ReadsInt(f[3]) -> "order_id"
    [] f[4] \notin DOMAIN SideNames -> "side"
    [] ~ReadsInt(f[5]) -> "price"
    [] ~ReadsInt(f[6]) -> "quantity"
    [] QuantityNeeded(f) /\ parse_int(f[6]) <= 0 -> "not_positive"
    [] OTHER -> "none"

\* The event of a row with no fault; the id is cast to its unsigned type.
AsEvent(f) ==
  [timestamp |-> parse_int(f[1]), type |-> EventTypes[f[2]],
   id |-> parse_int(f[3]) % (2 * HalfRange), side |-> SideNames[f[4]],
   price |-> parse_int(f[5]), quantity |-> parse_int(f[6])]
=============================================================================
