------------------------------ MODULE Pipeline ------------------------------
(***************************************************************************)
(* The scripts that compile a formula: compile_formula.sh (plain),         *)
(* docker_compile_formula.sh (docker) and the function run of              *)
(* results/gen.sh (gen).  Each starts the splitter, the projection tool    *)
(* and D4 twice, the last two scripts under wrap, and goes on with the     *)
(* files they leave.  A program may end early, hang, crash or be           *)
(* interrupted between any two of its steps; a script reads what is there. *)
(* A formula file is a sequence of lines until the projection tool has     *)
(* read it; what the files after that hold is abstracted to its models.    *)
(***************************************************************************)
EXTENDS Wrapper, CnfTools

CONSTANTS
  Files,        \* the formulas the scripts may be given, as files of lines
  Scripts,      \* the scripts that are looked at
  None,         \* no file, no program, or nothing printed
  Empty         \* a file of no characters

ASSUME ScriptsAssumption == Scripts \subseteq {"plain", "docker", "gen"}

\* The programs, and the points they are at between two of their steps.
Programs == {"splitter", "projection", "p", "u", "f"}
Points == {"begin", "flushed", "writeP", "upper", "writeUp", "log", "parse", "close"}

ASSUME NoneAssumption == None \notin Programs \X Points

VARIABLES
  file,     \* the input formula
  script,   \* the script that runs
  at,       \* its step
  tool,     \* the program the step has started and the point it is at
  kept,     \* the true projection the projection tool came to
  disk,     \* the files the programs leave
  printed,  \* the numbers D4 printed after "s", for G_P, G_U and the formula
  allDone,  \* wrap has printed "done" of every program so far
  bounds    \* the bounds the script printed

vars == <<wrapVars, file, script, at, tool, kept, disk, printed, allDone, bounds>>

Log(shown, whole) == [shown |-> shown, whole |-> whole]

\* A file that was not closed ends between two clauses, and has more models,
\* or inside one, which its reader does not accept.
Written(ms, whole, torn) == [models |-> ms, whole |-> whole, torn |-> torn]
Whole(ms) == Written(ms, TRUE, FALSE)
\* Only the least and the most a prefix may say are looked at.
Begun(ms) == [models : {ms, Assignments}, whole : {FALSE}, torn : BOOLEAN]

NoFiles == [log |-> None, proj |-> None, p |-> None, pup |-> None,
            plog |-> None, pnnf |-> None, unnf |-> None]

Init ==
  /\ file \in Files /\ script \in Scripts
  /\ at = "split" /\ tool = None
  /\ kept = {}
  /\ disk = NoFiles
  /\ printed = [p |-> None, u |-> None, f |-> None]
  /\ allDone = TRUE /\ bounds = None
  /\ parent = "off" /\ child = "none" /\ code = 0
  /\ signal = FALSE /\ mem = FALSE /\ late = FALSE
  /\ report = ""

-----------------------------------------------------------------------------
(* What the programs compute. *)

Split(lines) == Simplified(CnfOf(Read(lines).clauses))
Splitted == Split(file)

NoTautologies(f) ==
  FoldLeft(LAMBDA g, i : IF IsTautology(g.clauses[i]) THEN RmClause(g, i) ELSE g,
           f, Sorted(f.active))
Taken(lines) == Simplified(NoTautologies(CnfOf(Read(lines).clauses)))
ToProject == Taken(disk.proj)

\* A log that ends early swallows the first line of the formula.
Together(log, lines) ==
  IF log = Empty THEN lines
  ELSE LET shown == [i \in 1 .. Cardinality(log.shown) |-> Sorted(log.shown)[i] + 1] IN
       IF log.whole THEN <<Line("show", Append(shown, 0))>> \o lines
       ELSE <<Line("show", IF shown = <<>> THEN <<>> ELSE Append(shown, Text))>> \o Tail(lines)

Logs == {Empty} \cup {Log(S, w) : S \in SUBSET Var, w \in BOOLEAN}

\* The files are such that both readers find the same formula, whatever log is
\* put before it.  A first line with a clause would be lost to a log that ends
\* early; other files on which the readers part are looked at in CnfTools.
ASSUME FilesAssumption ==
  \A lines \in Files :
    /\ Content(Split(lines)) \subseteq Clauses
    /\ \A log \in Logs :
         LET taken == Content(Taken(Together(log, lines))) IN
         /\ taken \subseteq Clauses
         /\ Models(taken) = Models(ToSet(Parse(lines).clauses))

\* .p: the projection on the variables of T, the others fixed.
GP(f, T) == {(m \cap T) \cup (Var \ T) : m \in Models(Content(f))}
\* .pup: without the clauses over variables of T.
GU(f, T) == Models({c \in Content(f) : \/ ~ VarsIn(c) \subseteq T
                                       \/ \E l \in f.units : c = {l}})

-----------------------------------------------------------------------------
(* The programs, one step for each thing they do to a file or print. *)

At(prog, point) == child = "running" /\ tool = <<prog, point>>
Goto(point) == tool' = <<tool[1], point>> /\ UNCHANGED wrapVars
Stops(status) == Ends(status) /\ UNCHANGED tool

\* Out of memory, an exception, a signal of its own.
Fails ==
  /\ child = "running"
  /\ Dies \/ (tool[2] = "begin" /\ Ends(1))
  /\ UNCHANGED <<file, script, at, tool, kept, disk, printed, allDone, bounds>>

\* A long line is flushed before it is complete.
SplitterFlushes ==
  /\ At("splitter", "begin") /\ Goto("flushed")
  /\ \E S \in SUBSET Var : disk' = [disk EXCEPT !.log = Log(S, FALSE)]
  /\ UNCHANGED <<file, script, at, kept, printed, allDone, bounds>>

SplitterPrints ==
  /\ At("splitter", "begin") \/ At("splitter", "flushed")
  /\ Stops(0)
  /\ \E p \in Partitions : disk' = [disk EXCEPT !.log = Log(Shown(Splitted, p), TRUE)]
  /\ UNCHANGED <<file, script, at, kept, printed, allDone, bounds>>

\* project() may stop before all is forgotten.
ProjectionOpensP ==
  /\ At("projection", "begin") /\ Goto("writeP")
  /\ Readable(disk.proj)
  /\ \E T \in SUBSET Var :
       /\ Read(disk.proj).prj \subseteq T
       /\ kept' = T
       /\ \E c \in Begun(GP(ToProject, T)) : disk' = [disk EXCEPT !.p = c]
  /\ UNCHANGED <<file, script, at, printed, allDone, bounds>>

ProjectionClosesP ==
  /\ At("projection", "writeP") /\ Goto("upper")
  /\ disk' = [disk EXCEPT !.p = Whole(GP(ToProject, kept))]
  /\ UNCHANGED <<file, script, at, kept, printed, allDone, bounds>>

ProjectionOpensUp ==
  /\ At("projection", "upper") /\ Goto("writeUp")
  /\ \E c \in Begun(GU(ToProject, kept)) : disk' = [disk EXCEPT !.pup = c]
  /\ UNCHANGED <<file, script, at, kept, printed, allDone, bounds>>

ProjectionClosesUp ==
  /\ At("projection", "writeUp") /\ Goto("log")
  /\ disk' = [disk EXCEPT !.pup = Whole(GU(ToProject, kept)), !.plog = Empty]
  /\ UNCHANGED <<file, script, at, kept, printed, allDone, bounds>>

\* The stream of .log is closed when main returns.
ProjectionReturns ==
  /\ At("projection", "log") /\ Stops(0)
  /\ disk' = [disk EXCEPT !.plog = kept]
  /\ UNCHANGED <<file, script, at, kept, printed, allDone, bounds>>

Compiles == [p |-> "pnnf", u |-> "unnf"]
Reads == [p |-> "p", u |-> "pup"]

\* The output is opened, and emptied, before the input is looked at.
D4Opens ==
  /\ \E g \in {"p", "u"} :
       /\ At(g, "begin") /\ Goto("parse")
       /\ disk' = [disk EXCEPT ![Compiles[g]] = Empty]
  /\ UNCHANGED <<file, script, at, kept, printed, allDone, bounds>>

Unacceptable(c) == c = None \/ (c # None /\ c.torn)

D4Rejects ==
  /\ \/ \E g \in {"p", "u"} : At(g, "parse") /\ Unacceptable(disk[Reads[g]])
     \/ At("f", "begin") /\ ~ Parse(file).ok
  /\ \/ Stops(1) \/ Stops(3)
  /\ UNCHANGED <<file, script, at, kept, disk, printed, allDone, bounds>>

\* The d-DNNF is handed to the stream, then the count is printed and flushed.
D4Prints ==
  /\ \E g \in {"p", "u"} :
       /\ At(g, "parse") /\ ~ Unacceptable(disk[Reads[g]]) /\ Goto("close")
       /\ disk' = [disk EXCEPT ![Compiles[g]] =
                     Written(disk[Reads[g]].models, FALSE, TRUE)]
       /\ printed' = [printed EXCEPT ![g] = Cardinality(disk[Reads[g]].models)]
  /\ UNCHANGED <<file, script, at, kept, allDone, bounds>>

D4Closes ==
  /\ \E g \in {"p", "u"} :
       /\ At(g, "close") /\ Stops(0)
       /\ disk' = [disk EXCEPT ![Compiles[g]] = Whole(disk[Reads[g]].models)]
  /\ UNCHANGED <<file, script, at, kept, printed, allDone, bounds>>

\* -mc: nothing is written.
D4Counts ==
  /\ At("f", "begin") /\ Parse(file).ok /\ Stops(0)
  /\ printed' = [printed EXCEPT !.f = Cardinality(Models(ToSet(Parse(file).clauses)))]
  /\ UNCHANGED <<file, script, at, kept, disk, allDone, bounds>>

Tool == \/ Fails \/ SplitterFlushes \/ SplitterPrints
        \/ ProjectionOpensP \/ ProjectionClosesP \/ ProjectionOpensUp
        \/ ProjectionClosesUp \/ ProjectionReturns
        \/ D4Opens \/ D4Rejects \/ D4Prints \/ D4Closes \/ D4Counts

-----------------------------------------------------------------------------
(* The scripts. *)

Program == [split |-> "splitter", project |-> "projection",
            compileP |-> "p", compileU |-> "u", count |-> "f"]

\* The redirection of the splitter's output empties the log.
RunStep ==
  /\ at \in DOMAIN Program /\ Idle /\ tool = None
  /\ Started(script # "plain")
  /\ tool' = <<Program[at], "begin">>
  /\ disk' = IF at = "split" THEN [disk EXCEPT !.log = Empty] ELSE disk
  /\ UNCHANGED <<file, script, at, kept, printed, allDone, bounds>>

After == [split |-> IF script = "gen" THEN "look" ELSE "cat", project |-> "compileP",
          compileP |-> "compileU", compileU |-> "clean", count |-> "over"]

\* What a step's program came to is not asked.
StepOver ==
  /\ Idle /\ tool # None
  /\ tool' = None /\ at' = After[at]
  /\ allDone' = (allDone /\ report = "done")
  /\ code' = 0 /\ signal' = FALSE /\ mem' = FALSE /\ late' = FALSE
  /\ report' = ""
  /\ UNCHANGED <<parent, child, file, script, kept, disk, printed, bounds>>

\* gen.sh stops at an empty log and at an empty cut.
LooksAtLog ==
  /\ at = "look"
  /\ \/ /\ disk.log \in {Empty, Log({}, TRUE)}
        /\ at' = "over" /\ disk' = [disk EXCEPT !.log = None]
     \/ /\ disk.log \notin {Empty, Log({}, TRUE)}
        /\ at' = "cat" /\ UNCHANGED disk
  /\ UNCHANGED <<wrapVars, file, script, tool, kept, printed, allDone, bounds>>

Cat ==
  /\ at = "cat"
  /\ disk' = [disk EXCEPT !.proj = Together(disk.log, file)]
  /\ at' = "project"
  /\ UNCHANGED <<wrapVars, file, script, tool, kept, printed, allDone, bounds>>

\* Mutant: gen.sh goes on with one of the two counts.
CleanEither ==
  /\ at = "clean"
  /\ disk' = [disk EXCEPT !.proj = None, !.p = None, !.pup = None, !.log = None]
  /\ at' = IF script = "plain" \/ (script = "gen" /\ printed.p = None /\ printed.u = None)
           THEN "over" ELSE "bounds"
  /\ UNCHANGED <<wrapVars, file, script, tool, kept, printed, allDone, bounds>>

\* gen.sh leaves when one of the counts is missing, the other scripts do not
\* look.
Clean ==
  /\ at = "clean"
  /\ disk' = [disk EXCEPT !.proj = None, !.p = None, !.pup = None, !.log = None]
  /\ at' = IF script = "plain" \/ (script = "gen" /\ (printed.p = None \/ printed.u = None))
           THEN "over" ELSE "bounds"
  /\ UNCHANGED <<wrapVars, file, script, tool, kept, printed, allDone, bounds>>

\* gen.sh then runs appmc four times, which reads the files only, and counts.
PrintBounds ==
  /\ at = "bounds"
  /\ bounds' = [low |-> printed.p, high |-> printed.u]
  /\ at' = IF script = "gen" THEN "count" ELSE "over"
  /\ UNCHANGED <<wrapVars, file, script, tool, kept, disk, printed, allDone>>

ScriptStep == RunStep \/ StepOver \/ LooksAtLog \/ Cat \/ Clean \/ PrintBounds

Rest == <<file, script, at, tool, kept, disk, printed, allDone, bounds>>
ParentStep == Parent /\ UNCHANGED Rest
ChildStep == (Exec \/ ExecFails) /\ UNCHANGED Rest
Signalled == Interrupted /\ UNCHANGED Rest
ClockStep == Clock /\ UNCHANGED Rest

Over == at = "over" /\ UNCHANGED vars

Next == ScriptStep \/ Tool \/ ParentStep \/ ChildStep \/ Signalled \/ ClockStep \/ Over

Spec == Init /\ [][Next]_vars

\* The shell, wrap, the clock and the delivery of a signal go on; a program
\* need not.
FairSpec ==
  /\ Spec
  /\ WF_vars(ScriptStep) /\ WF_vars(ParentStep)
  /\ WF_vars(Signalled) /\ WF_vars(ClockStep)

-----------------------------------------------------------------------------
(* Properties *)

Truth == Models(ToSet(Parse(file).clauses))

\* The line of bounds gen.sh writes holds for the formula D4 itself reads from
\* the file, however the programs before ended: .p is closed before .pup is
\* opened, so that a count of .pup shows that .p was complete, and a part of
\* .pup only has more models.
BoundsHold ==
  script = "gen" /\ bounds # None =>
    /\ bounds.low \in 0 .. Cardinality(Truth)
    /\ bounds.high \in Cardinality(Truth) .. Cardinality(Assignments)

\* When both counts are printed and wrap says "done" of every program, the
\* two d-DNNF and the list of projected variables are complete and belong
\* together, although "done" is also said of a program that failed.
DoneMeansComplete ==
  at = "over" /\ printed.p # None /\ printed.u # None /\ allDone
  => /\ disk.pnnf.whole /\ disk.unnf.whole
     /\ disk.plog = kept
     /\ {m \in disk.unnf.models : (m \cap kept) \cup (Var \ kept) \in disk.pnnf.models} = Truth

\* Once the shown variables have a value, what is left of the formula falls
\* apart along the parts the splitter was given: that is what the projection
\* on the shown variables is for.
CutSeparates ==
  at = "split" => \A p \in Partitions :
    Separated(Models(Content(Splitted)), Shown(Splitted, p), p)

\* What a program finds is what the one before it means to leave: files that
\* belong together, and a list of variables that cuts the formula.
FilesRight == DoneMeansComplete /\ CutSeparates

\* A script under wrap ends, even when a program does not.
ScriptEnds == script # "plain" => <>(at = "over")

=============================================================================
