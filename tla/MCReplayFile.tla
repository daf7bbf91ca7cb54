---------------------------- MODULE MCReplayFile ----------------------------
(* Files over a buyer that is repriced, resized and cancelled, two sellers   *)
(* and a market order, at two times, with each way to spell a row and each   *)
(* way to get one wrong. Numbers have three bits: -4 to 3 signed, 0 to 7     *)
(* unsigned.                                                                 *)
EXTENDS ReplayFile

MCNumerals ==
  [n \in {"-1", "0", "1", "2", "3", "4"} |->
     CASE n = "-1" -> -1 [] n = "0" -> 0 [] n = "1" -> 1 [] n = "2" -> 2
       [] n = "3" -> 3 [] n = "4" -> 4]

Sound ==
  UNION {{ <<t, "ADD", "1", "B", "1", "2">>,
           <<t, "ADD", "2", "S", "2", "1">>,
           <<t, "MODIFY", "1", "S", "2", "2">>,        \* the side is not read
           <<t, "CANCEL", "1", "B", "", "", "">> } :   \* two commas at the end
         t \in {"1", "2"}}
  \cup { <<"2", "ADD", "3", "S", "1", "1", "note">>,
         <<"1", "MODIFY", "1", "B", "1", "1">>,
         <<"2", "MODIFY", "2", "S", "1", "2">>,
         <<"2", "MARKET", "3", "B", "", "2">>,
         <<"", "CANCEL", "-1", "B", "0", "0">> }       \* the largest id

Unsound ==
  { <<"1", "CANCEL", "1", "B", "", "">>,     \* one comma at the end: five fields
    <<"1", "CANCEL", "1", "", "0", "0">>,    \* no side
    <<"1", "MARKET", "3", "B", "", "0">>,    \* no shares
    <<"1", "MODIFY", "1", "B", "1", "-1">>,
    <<"1", "ADD", "2", "B", "1", "4">>,      \* beyond long long
    <<"1x", "ADD", "2", "B", "1", "1">>,
    <<"1", "AMEND", "2", "B", "1", "1">> }

MCLines ==
  Sound \cup Unsound
  \cup { <<>>, <<"timestamp", "event_type", "order_id", "side", "price", "quantity">>,
         <<"timestamp_ns", "type">> }
=============================================================================
