---------------------------- MODULE CommandLine ----------------------------
(***************************************************************************)
(* The command line of D4: parseOptions (Options.cc) gives every argument  *)
(* to the options in turn, and moves those no option takes to the front of *)
(* argv.  An argument is what its characters stand for: a number of        *)
(* dashes, whether "no-" follows, a name, whether "=" comes next and the   *)
(* text behind it, a number or NaN, or 0 for text that is no number.       *)
(***************************************************************************)
EXTENDS Integers, Sequences, SequencesExt

CONSTANTS
  Options,      \* the options in the order they were made
  Arguments,    \* what a user may write
  MostArgs,     \* bound on how many
  HalfInt,      \* 2^31 in the program
  HalfLong,     \* 2^63 in the program
  NaN

VARIABLES
  argv, argc, i, j, values, status,
  shown         \* the options printUsageAndExit lists

lvars == <<argv, argc, i, j, values, status, shown>>

-----------------------------------------------------------------------------
(* Options.hh *)

\* strtol stops at the ends of a long, and the result is cut to an int.
AsLong(n) ==
  CASE n >= HalfLong -> HalfLong - 1
    [] n < -HalfLong -> -HalfLong
    [] OTHER -> n
AsInt(n) == ((AsLong(n) + HalfInt) % (2 * HalfInt)) - HalfInt

\* The parse functions test the name before the value.
Named(o, a) ==
  /\ a.dashes = 1 /\ a.name = o.name
  /\ IF o.type = "bool" THEN ~ a.eq ELSE a.eq /\ ~ a.no

\* Mutant: a value equal to a bound that does not belong to the range passes.
TooLargeStrict(o, n) == n # NaN /\ n > o.last

\* Nothing compares with a number that is none.  An int range holds its ends.
TooLarge(o, n) == n # NaN /\ (n > o.last \/ (n = o.last /\ ~ o.closed))
TooSmall(o, n) == n # NaN /\ (n < o.first \/ (n = o.first /\ ~ o.closed))

Fits(o, n) == ~ TooLarge(o, n) /\ ~ TooSmall(o, n)

\* What each kind of option reads in an argument that names it.
BoolRead(a) == ~ a.no
StringRead(a) == a.text
IntRead(a) == IF a.text = NaN THEN 0 ELSE AsInt(a.text)
DoubleRead(a) == a.text
ValueRead(o, a) ==
  CASE o.type = "bool" -> BoolRead(a)
    [] o.type = "string" -> StringRead(a)
    [] o.type = "int" -> IntRead(a)
    [] o.type = "double" -> DoubleRead(a)

Accepted(o, a) == o.type \in {"bool", "string"} \/ Fits(o, ValueRead(o, a))

-----------------------------------------------------------------------------
(* parseOptions *)

OptionIds == DOMAIN Options

LStart ==
  /\ argv = <<>> /\ argc = 0 /\ i = 1 /\ j = 1
  /\ values = [k \in OptionIds |-> Options[k].value]
  /\ status = "written" /\ shown = <<>>

\* The shell: argv[0], the program, is left out, and so argc is one less here.
WriteArgument(a) ==
  /\ status = "written" /\ argc < MostArgs
  /\ argv' = Append(argv, a) /\ argc' = argc + 1
  /\ UNCHANGED <<i, j, values, status, shown>>
Call == /\ status = "written" /\ status' = "parsing"
        /\ UNCHANGED <<argv, argc, i, j, values, shown>>

Parsing == status = "parsing" /\ i <= argc

\* Whatever begins with "--help" is taken, and only two forms do something.
HelpLike(a) == a.dashes = 2 /\ ~ a.no /\ a.name \in {"help", "help-verb", "helpful"}
AsksHelp(a) == HelpLike(a) /\ a.name # "helpful" /\ ~ a.eq

(* printUsageAndExit: the list of options is sorted by category and type, a   *)
(* category is headed where the one before is another; help prints each with *)
(* its value.                                                                *)
TypeRank(type) == SelectInSeq(<<"bool", "double", "int", "string">>, LAMBDA t : t = type)

\* OptionLt as a number, for two categories.
OptionLt(o) == 5 * o.category + TypeRank(o.type)

U == INSTANCE Utilities WITH NumVars <- 1
ListEntry(k) == [id |-> k, category |-> Options[k].category, value |-> values[k]]
Listing ==
  LET order == U!Sort([k \in OptionIds |-> <<OptionLt(Options[k]), k>>])
  IN [n \in DOMAIN order |-> ListEntry(order[n][2])]

Help ==
  /\ Parsing /\ AsksHelp(argv[i])
  /\ status' = "help" /\ shown' = Listing
  /\ UNCHANGED <<argv, argc, i, j, values>>

DropHelpLike ==
  /\ Parsing /\ HelpLike(argv[i]) /\ ~ AsksHelp(argv[i])
  /\ i' = i + 1
  /\ UNCHANGED <<argv, argc, j, values, status, shown>>

Taker(a) == SelectInSeq(Options, LAMBDA o : Named(o, a))

ParseOption ==
  LET k == Taker(argv[i]) IN
  /\ Parsing /\ ~ HelpLike(argv[i]) /\ k # 0
  /\ IF Accepted(Options[k], argv[i])
     THEN /\ values' = [values EXCEPT ![k] = ValueRead(Options[k], argv[i])]
          /\ i' = i + 1 /\ UNCHANGED status
     ELSE status' = "error" /\ UNCHANGED <<values, i>>
  /\ UNCHANGED <<argv, argc, j, shown>>

\* D4 parses strictly.
UnknownFlag ==
  /\ Parsing /\ ~ HelpLike(argv[i]) /\ Taker(argv[i]) = 0 /\ argv[i].dashes > 0
  /\ status' = "error"
  /\ UNCHANGED <<argv, argc, i, j, values, shown>>

Keep ==
  /\ Parsing /\ Taker(argv[i]) = 0 /\ argv[i].dashes = 0
  /\ argv' = [argv EXCEPT ![j] = argv[i]]
  /\ j' = j + 1 /\ i' = i + 1
  /\ UNCHANGED <<argc, values, status, shown>>

Shorten ==
  /\ status = "parsing" /\ i > argc
  /\ argc' = argc - (i - j) /\ status' = "parsed"
  /\ UNCHANGED <<argv, i, j, values, shown>>

LNext ==
  \/ (\E a \in Arguments : WriteArgument(a)) \/ Call
  \/ Help \/ DropHelpLike \/ ParseOption \/ UnknownFlag \/ Keep \/ Shorten

-----------------------------------------------------------------------------
(* Properties *)

\* The arguments of an option among as, which is the first of its name.
Settings(k, as) == SelectSeq(as, LAMBDA a : ~ HelpLike(a) /\ Taker(a) = k)
OtherArguments(as) == SelectSeq(as, LAMBDA a : ~ HelpLike(a) /\ Taker(a) = 0)

InRange(o, n) ==
  \/ n = NaN \/ n \in o.first + 1 .. o.last - 1
  \/ o.closed /\ n \in {o.first, o.last}

\* After parsing, wherever the options stood among the other arguments: an
\* option has the value its last argument gives it or else its default, which
\* for a number written within the width of its type is that number, and no
\* number lies outside its range; argv holds the other arguments, in order.
LineRight(line) ==
  status = "parsed" =>
    /\ SubSeq(argv, 1, argc) = OtherArguments(line)
    /\ \A k \in OptionIds :
         LET o == Options[k]
             as == Settings(k, line)
         IN /\ as = <<>> => values[k] = o.value
            /\ as # <<>> /\ o.type = "bool" => values[k] = ~ Last(as).no
            /\ as # <<>> /\ o.type \in {"string", "double"} => values[k] = Last(as).text
            /\ as # <<>> /\ o.type = "int" /\ Last(as).text \in -HalfInt .. HalfInt - 1 =>
                 values[k] = Last(as).text
            /\ o.type \in {"int", "double"} => InRange(o, values[k])

\* The help lists every option once, all those of a category under one heading,
\* with the values the arguments before have given them.
HelpRight(line) ==
  status = "help" =>
    /\ {shown[n].id : n \in DOMAIN shown} = OptionIds
    /\ \A m, n \in DOMAIN shown : m < n => shown[m].category <= shown[n].category
    /\ \A n \in DOMAIN shown :
         Settings(shown[n].id, SubSeq(line, 1, i - 1)) = <<>> =>
           shown[n].value = Options[shown[n].id].value

CommandRight(line) == LineRight(line) /\ HelpRight(line)

=============================================================================
