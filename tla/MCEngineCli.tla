---------------------------- MODULE MCEngineCli ----------------------------
(* A first run with every argument list of up to MaxArgs: enough for a file, *)
(* an option with a value that looks like an option, and one thing wrong.    *)
(* Then runs that match or do not, ask for help, or are refused.             *)
EXTENDS EngineCli

MCWords == {"events", "0", "3", "3x"}

MCStoiValue == [n \in {"0", "3", "3x"} |-> IF n = "0" THEN 0 ELSE 3]

MCLaterCalls ==
  {<<"events">>, <<"--book-only", "events">>, <<"--help">>, <<"events", "events">>}
=============================================================================
