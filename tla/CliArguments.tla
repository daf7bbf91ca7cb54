---------------------------- MODULE CliArguments ----------------------------
(***************************************************************************)
(* How main reads its arguments (the first loop of src/main.cpp), one      *)
(* iteration per step, an option taking the next argument as its value     *)
(* whatever that looks like.                                               *)
(*                                                                         *)
(* Arguments are texts of a small set: the options, the empty text, an     *)
(* unknown option, and words, of which StoiValue gives the number that     *)
(* std::stoi reads at the front of some.                                   *)
(***************************************************************************)
EXTENDS Integers, Sequences, FiniteSets, FiniteSetsExt

CONSTANTS
  Words,      \* arguments that are neither options nor empty
  Unknown,    \* arguments that start with "-" and are no option
  StoiValue   \* a function from some texts to the number at their front

VARIABLES
  argv,         \* the arguments
  i,            \* the next one
  events_path, out_dir, ofi_levels, book_only,   \* as in main
  status        \* "reading", "run", "exit 0" (help), or "exit 2" (an error)

Help == {"-h", "--help"}

Valued == {"--out-dir", "--ofi-levels"}

NoText == ""

\* What is neither a word nor an unknown option.
Known == {NoText} \cup Help \cup Valued \cup {"--book-only"}

Arguments == Known \cup Unknown \cup Words

\* Before the program has run.
Init ==
  /\ argv = <<>>
  /\ i = 1
  /\ events_path = NoText
  /\ out_dir = "."
  /\ ofi_levels = 5
  /\ book_only = FALSE
  /\ status = "none"

\* main is called.
Call(list) ==
  /\ argv' = list
  /\ i' = 1
  /\ events_path' = NoText
  /\ out_dir' = "."
  /\ ofi_levels' = 5
  /\ book_only' = FALSE
  /\ status' = "reading"

Reading(args) ==
  /\ status = "reading"
  /\ i <= Len(argv)
  /\ argv[i] \in args

\* argv[++i], if there is one.
HasValue == i < Len(argv)

Value == argv[i + 1]

Stop(with) == status' = with /\ UNCHANGED <<i, events_path, out_dir, ofi_levels, book_only>>

\* Help ends the program at once, with what was read before ignored.
AskForHelp == Reading(Help) /\ Stop("exit 0")

BookOnly ==
  /\ Reading({"--book-only"})
  /\ book_only' = TRUE
  /\ i' = i + 1
  /\ UNCHANGED <<events_path, out_dir, ofi_levels, status>>

\* Faulty variant: the value is left for the next iteration.
OutDirUnskipped ==
  /\ Reading({"--out-dir"})
  /\ \/ ~HasValue /\ Stop("exit 2")
     \/ /\ HasValue
        /\ out_dir' = Value
        /\ i' = i + 1
        /\ UNCHANGED <<events_path, ofi_levels, book_only, status>>

OutDir ==
  /\ Reading({"--out-dir"})
  /\ \/ ~HasValue /\ Stop("exit 2")
     \/ /\ HasValue
        /\ out_dir' = Value
        /\ i' = i + 2
        /\ UNCHANGED <<events_path, ofi_levels, book_only, status>>

\* stoi throws on a text without a number in front.
ReadsLevels(text) == text \in DOMAIN StoiValue /\ StoiValue[text] >= 1

OfiLevels ==
  /\ Reading({"--ofi-levels"})
  /\ \/ ~HasValue /\ Stop("exit 2")
     \/ HasValue /\ ~ReadsLevels(Value) /\ Stop("exit 2")
     \/ /\ HasValue /\ ReadsLevels(Value)
        /\ ofi_levels' = StoiValue[Value]
        /\ i' = i + 2
        /\ UNCHANGED <<events_path, out_dir, book_only, status>>

UnknownOption == Reading(Unknown) /\ Stop("exit 2")

\* The first word is the events file; an empty text may stand for it and is
\* forgotten, and after it a word or an empty text is one too many.
Path ==
  /\ Reading(Words \cup {NoText})
  /\ \/ events_path # NoText /\ Stop("exit 2")
     \/ /\ events_path = NoText
        /\ events_path' = argv[i]
        /\ i' = i + 1
        /\ UNCHANGED <<out_dir, ofi_levels, book_only, status>>

\* After the loop the events file must be known.
Done ==
  /\ status = "reading"
  /\ i > Len(argv)
  /\ Stop(IF events_path = NoText THEN "exit 2" ELSE "run")

\* One iteration, or the end of the loop.
ReadNext ==
  /\ UNCHANGED argv
  /\ AskForHelp \/ BookOnly \/ OutDir \/ OfiLevels \/ UnknownOption \/ Path \/ Done

(***************************************************************************)
(* Properties                                                              *)
(***************************************************************************)

\* A command line that is run has a file, and at least one level.
TypeOK ==
  /\ argv \in Seq(Arguments)
  /\ i \in 1 .. Len(argv) + 1
  /\ events_path \in Words \cup {NoText}
  /\ out_dir \in Arguments \cup {"."}
  /\ ofi_levels \in Nat \ {0}
  /\ book_only \in BOOLEAN
  /\ status \in {"none", "reading", "run", "exit 0", "exit 2"}
  /\ status = "run" => events_path # NoText

\* The values of options: what follows a run of value options of odd length.
IsValue(k) ==
  \E j \in 1 .. k - 1 :
    /\ \A m \in j .. k - 1 : argv[m] \in Valued
    /\ j = 1 \/ argv[j - 1] \notin Valued
    /\ (k - j) % 2 = 1

Items == {k \in DOMAIN argv : ~IsValue(k)}

ItemsOf(args) == {k \in Items : argv[k] \in args}

\* The first thing wrong with the command line, as a position in it.
Faults ==
  LET files == ItemsOf(Words)
  IN ItemsOf(Unknown)
     \cup {k \in ItemsOf(Valued) : k = Len(argv)}
     \cup {k \in ItemsOf({"--ofi-levels"}) : k < Len(argv) /\ ~ReadsLevels(argv[k + 1])}
     \cup {k \in ItemsOf(Words \cup {NoText}) : \E f \in files : f < k}

\* What the loop makes of a command line is what its grammar says: help wins
\* if nothing before it is wrong; otherwise anything wrong, or no file at
\* all, is refused; otherwise each option counts wherever it stands and the
\* last value given wins, a value never being read as an option or a file.
ReadsTheGrammar ==
  LET help == ItemsOf(Help)
      Before(k) == \A f \in Faults : k < f
      LastValue(option) == argv[1 + Max(ItemsOf({option}))]
  IN CASE status = "exit 0" -> \E k \in help : Before(k)
       [] status = "exit 2" ->
            /\ ~\E k \in help : Before(k)
            /\ Faults # {} \/ ItemsOf(Words) = {}
       [] status = "run" ->
            /\ help = {} /\ Faults = {}
            /\ \E k \in ItemsOf(Words) : events_path = argv[k]
            /\ book_only = (ItemsOf({"--book-only"}) # {})
            /\ out_dir = IF ItemsOf({"--out-dir"}) = {} THEN "." ELSE LastValue("--out-dir")
            /\ ofi_levels = IF ItemsOf({"--ofi-levels"}) = {} THEN 5
                            ELSE StoiValue[LastValue("--ofi-levels")]
       [] OTHER -> TRUE
=============================================================================
