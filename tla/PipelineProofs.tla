--------------------------- MODULE PipelineProofs ---------------------------
(***************************************************************************)
(* Proofs about Pipeline, for every number of variables, every cut and     *)
(* every formula both readers read alike: the bounds gen.sh writes hold    *)
(* for the formula, and what complete runs leave belongs together, however *)
(* the programs end.  The counts may be taken from files cut off anywhere: *)
(* the argument is in the order in which the files are opened and closed.  *)
(***************************************************************************)
EXTENDS Pipeline, FiniteSetTheorems, TLAPS

-----------------------------------------------------------------------------
(* What the variables hold. *)

FileValue == [models : SUBSET Assignments, whole : BOOLEAN, torn : BOOLEAN]
Combined == {Together(log, lines) : log \in Logs, lines \in Files}

DiskType ==
  disk \in [log : {None} \cup Logs, proj : {None} \cup Combined,
            p : {None} \cup FileValue, pup : {None} \cup FileValue,
            plog : {None, Empty} \cup SUBSET Var,
            pnnf : {None, Empty} \cup FileValue, unnf : {None, Empty} \cup FileValue]

PrintedType ==
  printed \in [p : {None} \cup Nat, u : {None} \cup Nat, f : {None} \cup Nat]

ToolType == tool = None \/ (at \in DOMAIN Program /\ \E pt \in Points : tool = <<Program[at], pt>>)

TypeInv ==
  /\ file \in Files /\ script \in {"plain", "docker", "gen"}
  /\ at \in {"split", "look", "cat", "project", "compileP", "compileU",
             "clean", "bounds", "count", "over"}
  /\ kept \in SUBSET Var
  /\ DiskType /\ PrintedType /\ ToolType

-----------------------------------------------------------------------------
(* The inductive invariant. *)

\* A program that has not been started is at its beginning, wrap has printed
\* nothing while it runs, and says "done" of a child it has waited for.
WrapperInv ==
  /\ parent = "fork" \/ child = "forked" =>
       at \in DOMAIN Program /\ tool = <<Program[at], "begin">>
  /\ parent \in {"off", "fork"} => child = "none"
  /\ parent # "off" => report = ""

\* The current program returned from main, as far as waitpid could tell.
Returned == child = "exited" \/ report = "done"

\* Before the projection tool starts, nothing is on the disk but the log.
Before == at \in {"split", "look", "cat"}
LogInv ==
  /\ at \in {"look", "cat"} \/ (at = "split" /\ tool # None) => disk.log \in Logs
  /\ Before => disk.p = None /\ disk.pup = None

\* From cat on the file of both holds the formula.
Compiling == at \in {"project", "compileP", "compileU", "clean"}
ProjInv == Compiling => \E log \in Logs : disk.proj = Together(log, file)

LowerFile == GP(ToProject, kept)
UpperFile == GU(ToProject, kept)
Beginning == tool = None \/ tool[2] = "begin"

\* .p is complete once .pup is there.
OutputInv ==
  /\ Compiling =>
       /\ disk.p \in {None, Whole(LowerFile)} \cup Begun(LowerFile)
       /\ disk.pup \in {None, Whole(UpperFile)} \cup Begun(UpperFile)
       /\ disk.pup # None => disk.p = Whole(LowerFile)
  /\ at = "project" =>
       /\ Beginning \/ tool[2] = "writeP" => disk.pup = None
       /\ ~ Beginning /\ tool[2] \in {"upper", "writeUp", "log"} => disk.p = Whole(LowerFile)
       /\ ~ Beginning /\ tool[2] = "log" => disk.pup = Whole(UpperFile)

MayBeLow(n) == n \in 0 .. Cardinality(Truth)
MayBeHigh(n) == n \in Cardinality(Truth) .. Cardinality(Assignments)

\* A count of .pup that was printed shows that the one of .p was of all of it.
CountInv ==
  /\ Before \/ at = "project" => printed.p = None
  /\ Before \/ at \in {"project", "compileP"} => printed.u = None
  /\ Compiling /\ disk.pup # None /\ printed.p # None => MayBeLow(printed.p)
  /\ printed.u # None => MayBeHigh(printed.u) /\ (printed.p # None => MayBeLow(printed.p))
  /\ at = "compileU" /\ printed.u # None => disk.pup # None
  /\ ~ Beginning /\ tool[2] = "close" =>
       /\ at = "compileP" => disk.p # None
       /\ at = "compileU" => disk.pup # None

\* Only with both counts does gen.sh go on to print bounds.
BoundsInv ==
  /\ at = "bounds" /\ script = "gen" => printed.p # None /\ printed.u # None
  /\ BoundsHold

\* What a program wrote is complete once it has returned, if it has printed
\* its count, or for the projection tool, if it has opened .pup.
ProjectionDone ==
  disk.pup # None => disk.pup = Whole(UpperFile) /\ disk.plog = kept
LowerDone == printed.p # None => disk.pnnf = Whole(disk.p.models)
UpperDone == printed.u # None => disk.unnf = Whole(disk.pup.models)
Result ==
  /\ disk.pnnf.whole /\ disk.unnf.whole
  /\ disk.plog = kept
  /\ {m \in disk.unnf.models : (m \cap kept) \cup (Var \ kept) \in disk.pnnf.models} = Truth

DoneInv ==
  /\ at = "project" /\ tool # None /\ Returned => ProjectionDone
  /\ at \in {"compileP", "compileU"} /\ allDone => ProjectionDone
  /\ at = "compileP" /\ (Beginning \/ tool[2] = "parse") => printed.p = None
  /\ at = "compileP" /\ tool # None /\ Returned => LowerDone
  /\ at = "compileU" /\ (Beginning \/ tool[2] = "parse") => printed.u = None
  /\ at = "compileU" /\ allDone => LowerDone
  /\ at = "compileU" /\ tool # None /\ Returned => UpperDone
  /\ at \in {"clean", "bounds", "count", "over"} /\ allDone
     /\ printed.p # None /\ printed.u # None => Result

PipelineInv ==
  /\ TypeInv /\ WrapperInv /\ LogInv /\ ProjInv
  /\ OutputInv /\ CountInv /\ BoundsInv /\ DoneInv

-----------------------------------------------------------------------------
(* The formula between the files. *)

LEMMA CompilingFormula ==
  ASSUME TypeInv, ProjInv, Compiling
  PROVE  Content(ToProject) \subseteq Clauses /\ Models(Content(ToProject)) = Truth
<1>1. PICK log \in Logs : disk.proj = Together(log, file)
  BY DEF ProjInv
<1>2. file \in Files
  BY DEF TypeInv
<1> DEFINE taken == Content(Taken(Together(log, file)))
<1>3. taken \subseteq Clauses /\ Models(taken) = Models(ToSet(Parse(file).clauses))
  BY <1>2, FilesAssumption
<1>4. Content(ToProject) = taken
  BY <1>1 DEF ToProject
<1> QED
  BY <1>3, <1>4 DEF Truth

LEMMA AssignmentsFinite ==
  /\ IsFiniteSet(Assignments)
  /\ \A ms \in SUBSET Assignments :
       IsFiniteSet(ms) /\ Cardinality(ms) \in Nat /\ Cardinality(ms) <= Cardinality(Assignments)
<1>1. 0 \in Int /\ NumVars - 1 \in Int
  BY NumVarsAssumption
<1>2. IsFiniteSet(Var)
  BY <1>1, FS_Interval DEF Var
<1>3. IsFiniteSet(SUBSET Var)
  BY <1>2, FS_SUBSET
<1>4. IsFiniteSet(Assignments)
  BY <1>3 DEF Assignments
<1>5. ASSUME NEW ms \in SUBSET Assignments
      PROVE  IsFiniteSet(ms) /\ Cardinality(ms) \in Nat /\ Cardinality(ms) <= Cardinality(Assignments)
  <2>1. IsFiniteSet(ms) /\ Cardinality(ms) <= Cardinality(Assignments)
    BY <1>4, FS_Subset
  <2> QED
    BY <2>1, FS_CardinalityType
<1> QED
  BY <1>4, <1>5

LEMMA TruthOfAssignments == Truth \in SUBSET Assignments
BY DEF Truth, Models

\* A projection with its other variables fixed has no more models.
LEMMA ProjectionSmaller ==
  ASSUME NEW f, NEW T \in SUBSET Var
  PROVE  /\ GP(f, T) \in SUBSET Assignments
         /\ Cardinality(GP(f, T)) <= Cardinality(Models(Content(f)))
<1> DEFINE ms == Models(Content(f))
           fixed(m) == (m \cap T) \cup (Var \ T)
           to == [m \in ms |-> fixed(m)]
<1>1. ms \in SUBSET Assignments
  BY DEF Models
<1>2. GP(f, T) = {fixed(m) : m \in ms}
  BY DEF GP
<1>3. GP(f, T) \in SUBSET Assignments
  BY <1>2 DEF Assignments
<1>4. to \in Surjection(ms, GP(f, T))
  BY <1>2 DEF Surjection
<1>5. IsFiniteSet(ms)
  BY <1>1, AssignmentsFinite
<1> HIDE DEF to, ms
<1>6. Cardinality(GP(f, T)) <= Cardinality(ms)
  BY <1>4, <1>5, FS_Surjection
<1> QED
  BY <1>3, <1>6 DEF ms

\* A formula with fewer clauses has no fewer models.
LEMMA UpperLarger ==
  ASSUME NEW f, NEW T \in SUBSET Var
  PROVE  /\ GU(f, T) \in SUBSET Assignments
         /\ Models(Content(f)) \subseteq GU(f, T)
         /\ Cardinality(Models(Content(f))) <= Cardinality(GU(f, T))
<1>1. GU(f, T) \in SUBSET Assignments
  BY DEF GU, Models
<1>2. Models(Content(f)) \subseteq GU(f, T)
  BY DEF GU, Models
<1>3. IsFiniteSet(GU(f, T))
  BY <1>1, AssignmentsFinite
<1>4. Cardinality(Models(Content(f))) <= Cardinality(GU(f, T))
  BY <1>2, <1>3, FS_Subset
<1> QED
  BY <1>1, <1>2, <1>4

\* Of the models of the upper file, those whose projection is in the lower one
\* are the models of the formula.
LEMMA FilesJoin ==
  ASSUME NEW f, NEW T \in SUBSET Var
  PROVE  {m \in GU(f, T) : (m \cap T) \cup (Var \ T) \in GP(f, T)} = Models(Content(f))
<1>1. Models(Content(f)) \subseteq GU(f, T)
  BY UpperLarger
<1>2. ASSUME NEW m \in Models(Content(f))
      PROVE  (m \cap T) \cup (Var \ T) \in GP(f, T)
  BY DEF GP
<1>3. ASSUME NEW m \in GU(f, T), (m \cap T) \cup (Var \ T) \in GP(f, T)
      PROVE  m \in Models(Content(f))
  <2>1. PICK n \in Models(Content(f)) : (m \cap T) \cup (Var \ T) = (n \cap T) \cup (Var \ T)
    BY <1>3 DEF GP
  <2>2. \A x \in T : x \in m <=> x \in n
    BY <2>1
  <2>3. m \in Assignments
    BY UpperLarger
  <2>4. ASSUME NEW c \in Content(f) PROVE SatClause(m, c)
    <3>1. CASE VarsIn(c) \subseteq T
      <4>1. PICK l \in c : Satisfies(n, l)
        BY DEF Models, SatClause
      <4>2. VarOf(l) \in T
        BY <3>1 DEF VarsIn
      <4>3. Satisfies(m, l)
        BY <2>2, <4>1, <4>2 DEF Satisfies
      <4> QED
        BY <4>3 DEF SatClause
    <3>2. CASE ~ VarsIn(c) \subseteq T
      BY <3>2 DEF GU, Models
    <3> QED
      BY <3>1, <3>2
  <2> QED
    BY <2>3, <2>4 DEF Models
<1> QED
  BY <1>1, <1>2, <1>3

\* What either file, whole or begun, may count.
LEMMA CountsOfFiles ==
  ASSUME TypeInv, ProjInv, Compiling
  PROVE  /\ LowerFile \in SUBSET Assignments /\ UpperFile \in SUBSET Assignments
         /\ MayBeLow(Cardinality(LowerFile))
         /\ MayBeHigh(Cardinality(UpperFile)) /\ MayBeHigh(Cardinality(Assignments))
         /\ {m \in UpperFile : (m \cap kept) \cup (Var \ kept) \in LowerFile} = Truth
<1>1. kept \in SUBSET Var
  BY DEF TypeInv
<1>2. Models(Content(ToProject)) = Truth
  BY CompilingFormula
<1>3. /\ LowerFile \in SUBSET Assignments
      /\ Cardinality(LowerFile) <= Cardinality(Truth)
  BY <1>1, <1>2, ProjectionSmaller DEF LowerFile
<1>4. /\ UpperFile \in SUBSET Assignments
      /\ Cardinality(Truth) <= Cardinality(UpperFile)
  BY <1>1, <1>2, UpperLarger DEF UpperFile
<1>5. {m \in UpperFile : (m \cap kept) \cup (Var \ kept) \in LowerFile} = Truth
  BY <1>1, <1>2, FilesJoin DEF UpperFile, LowerFile
<1>6. /\ Cardinality(LowerFile) \in Nat /\ Cardinality(UpperFile) \in Nat
      /\ Cardinality(Truth) \in Nat /\ Cardinality(Assignments) \in Nat
      /\ Cardinality(UpperFile) <= Cardinality(Assignments)
      /\ Cardinality(Truth) <= Cardinality(Assignments)
  <2>1. Assignments \in SUBSET Assignments
    OBVIOUS
  <2> QED
    BY <1>3, <1>4, <2>1, AssignmentsFinite, TruthOfAssignments
<1> QED
  BY <1>3, <1>4, <1>5, <1>6 DEF MayBeLow, MayBeHigh

\* Files are the same as long as neither the formula nor the list changes.
LEMMA SameFiles ==
  ASSUME disk'.proj = disk.proj, UNCHANGED kept
  PROVE  LowerFile' = LowerFile /\ UpperFile' = UpperFile
BY DEF LowerFile, UpperFile, ToProject

-----------------------------------------------------------------------------
(* The initial states, and the steps that leave the script and its files as *)
(* they are: of wrap, of the clock, of a program that ends of its own.      *)

LEMMA InitInv == Init => PipelineInv
<1> SUFFICES ASSUME Init PROVE PipelineInv
  OBVIOUS
<1>1. TypeInv
  BY ScriptsAssumption DEF Init, TypeInv, NoFiles, DiskType, PrintedType, ToolType
<1>2. WrapperInv
  BY DEF Init, WrapperInv
<1>3. LogInv /\ ProjInv /\ OutputInv
  BY DEF Init, NoFiles, LogInv, ProjInv, OutputInv, Before, Compiling
<1>4. CountInv /\ BoundsInv
  BY DEF Init, CountInv, BoundsInv, BoundsHold, Before, Compiling
<1>5. DoneInv
  BY DEF Init, DoneInv
<1> QED
  BY <1>1, <1>2, <1>3, <1>4, <1>5 DEF PipelineInv

FilesInv == TypeInv /\ LogInv /\ ProjInv /\ OutputInv /\ CountInv /\ BoundsInv

LEMMA RestKept ==
  ASSUME FilesInv, UNCHANGED Rest
  PROVE  FilesInv'
<1>1. /\ UNCHANGED <<file, script, at, tool, kept, disk, printed, allDone, bounds>>
      /\ LowerFile' = LowerFile /\ UpperFile' = UpperFile
  BY SameFiles DEF Rest
<1>2. TypeInv'
  BY <1>1 DEF FilesInv, TypeInv, DiskType, PrintedType, ToolType
<1>3. LogInv' /\ ProjInv'
  BY <1>1 DEF FilesInv, LogInv, ProjInv, Before, Compiling
<1>4. OutputInv'
  BY <1>1 DEF FilesInv, OutputInv, Compiling, Beginning
<1>5. Truth' = Truth
  BY <1>1 DEF Truth
<1>6. CountInv'
  BY <1>1, <1>5 DEF FilesInv, CountInv, Beginning, Before, Compiling, MayBeLow, MayBeHigh
<1>7. BoundsInv'
  BY <1>1, <1>5 DEF FilesInv, BoundsInv, BoundsHold
<1> QED
  BY <1>2, <1>3, <1>4, <1>6, <1>7 DEF FilesInv

\* It is enough to look at the points at which a program may return.
LEMMA DoneKept ==
  ASSUME FilesInv, DoneInv, UNCHANGED Rest,
         Returned' => Returned \/ Beginning \/ (tool[2] = "parse" /\ at # "project")
  PROVE  DoneInv'
<1>1. /\ UNCHANGED <<file, script, at, tool, kept, disk, printed, allDone, bounds>>
      /\ LowerFile' = LowerFile /\ UpperFile' = UpperFile
  BY SameFiles DEF Rest
<1>2. Truth' = Truth
  BY <1>1 DEF Truth
<1>3. /\ ProjectionDone' = ProjectionDone /\ LowerDone' = LowerDone
      /\ UpperDone' = UpperDone /\ Result' = Result /\ Beginning' = Beginning
  BY <1>1, <1>2 DEF ProjectionDone, LowerDone, UpperDone, Result, Beginning
<1>4. at = "project" /\ Beginning => ProjectionDone
  BY DEF FilesInv, OutputInv, ProjectionDone
<1>5. at = "compileP" /\ (Beginning \/ tool[2] = "parse") => LowerDone
  BY DEF DoneInv, LowerDone
<1>6. at = "compileU" /\ (Beginning \/ tool[2] = "parse") => UpperDone
  BY DEF DoneInv, UpperDone
<1> QED
  BY <1>1, <1>3, <1>4, <1>5, <1>6 DEF DoneInv

LEMMA WrapperSteps ==
  ASSUME PipelineInv,
         (Parent \/ Exec \/ ExecFails \/ Interrupted \/ Clock) /\ UNCHANGED Rest
  PROVE  PipelineInv'
<1>1. UNCHANGED <<at, tool>>
  BY DEF Rest
<1>2. WrapperInv'
  <2> USE <1>1 DEF WrapperInv, PipelineInv
  <2>1. CASE Fork
    BY <2>1 DEF Fork
  <2>2. CASE Sample \/ PollAlive \/ Judge
    BY <2>2 DEF Sample, PollAlive, Judge
  <2>3. CASE Reap \/ WaitEnd \/ ShellWaits
    BY <2>3 DEF Reap, WaitEnd, ShellWaits
  <2>4. CASE Exec \/ ExecFails \/ Interrupted \/ Clock
    BY <2>4 DEF Exec, ExecFails, Interrupted, Clock, Alive
  <2> QED
    BY <2>1, <2>2, <2>3, <2>4 DEF Parent
<1>3. Returned' => Returned \/ Beginning
  <2>1. CASE Fork \/ Sample \/ PollAlive \/ Judge \/ ShellWaits
    BY <2>1 DEF Returned, Fork, Sample, PollAlive, Judge, ShellWaits
  <2>2. CASE Reap \/ WaitEnd
    BY <2>2 DEF Returned, Reap, WaitEnd, ReportOf
  <2>3. CASE Exec \/ Interrupted \/ Clock
    BY <2>3 DEF Returned, Exec, Interrupted, Clock
  <2>4. CASE ExecFails
    <3>1. tool = <<Program[at], "begin">>
      BY <2>4 DEF ExecFails, PipelineInv, WrapperInv
    <3> QED
      BY <3>1 DEF Beginning
  <2> QED
    BY <2>1, <2>2, <2>3, <2>4 DEF Parent
<1>4. FilesInv'
  BY RestKept DEF PipelineInv, FilesInv
<1>5. DoneInv'
  BY <1>3, DoneKept DEF PipelineInv, FilesInv
<1> QED
  BY <1>2, <1>4, <1>5 DEF PipelineInv, FilesInv

\* A child that runs has a parent, which has printed nothing about it.
LEMMA Running ==
  ASSUME WrapperInv, child = "running"
  PROVE  /\ ~ Returned /\ report = ""
         /\ (parent' = parent /\ report' = report
             /\ child' \in {"running", "exited", "killed"}) => WrapperInv'
BY DEF WrapperInv, Returned

\* Which step a program belongs to.
LEMMA StepOfProgram ==
  ASSUME TypeInv, NEW prog \in Programs, NEW pt \in Points, At(prog, pt)
  PROVE  /\ tool # None /\ tool = <<prog, pt>> /\ ~ (Beginning /\ pt # "begin")
         /\ at \in DOMAIN Program /\ Program[at] = prog
         /\ child = "running"
<1>1. child = "running" /\ tool = <<prog, pt>> /\ tool # None
  BY NoneAssumption DEF At
<1>2. at \in DOMAIN Program /\ \E q \in Points : tool = <<Program[at], q>>
  BY <1>1 DEF TypeInv, ToolType
<1> QED
  BY <1>1, <1>2 DEF Beginning

LEMMA ProgramEnds ==
  ASSUME PipelineInv, Fails \/ D4Rejects
  PROVE  PipelineInv'
<1>1. UNCHANGED Rest /\ child = "running"
  BY DEF Fails, D4Rejects, Dies, Ends, Stops, At, Rest
<1>2. parent' = parent /\ report' = report /\ child' \in {"exited", "killed"}
  BY DEF Fails, D4Rejects, Dies, Ends, Stops
<1>3. WrapperInv'
  BY <1>1, <1>2, Running DEF PipelineInv
<1>4. Returned' => Returned \/ Beginning \/ (tool[2] = "parse" /\ at # "project")
  <2>1. CASE Fails
    BY <2>1, <1>1, Running DEF Fails, Dies, Ends, Returned, Beginning, PipelineInv
  <2>2. CASE \E g \in {"p", "u"} : At(g, "parse")
    <3>1. PICK g \in {"p", "u"} : At(g, "parse")
      BY <2>2
    <3>2. g \in Programs /\ "parse" \in Points
      BY <3>1 DEF Programs, Points
    <3>3. Program[at] = g /\ tool = <<g, "parse">>
      BY <3>1, <3>2, StepOfProgram DEF PipelineInv
    <3> QED
      BY <3>3 DEF Program
  <2>3. CASE At("f", "begin")
    BY <2>3 DEF At, Beginning
  <2> QED
    BY <2>1, <2>2, <2>3 DEF D4Rejects
<1>5. FilesInv'
  BY <1>1, RestKept DEF PipelineInv, FilesInv
<1>6. DoneInv'
  BY <1>1, <1>4, DoneKept DEF PipelineInv, FilesInv
<1> QED
  BY <1>3, <1>5, <1>6 DEF PipelineInv, FilesInv

-----------------------------------------------------------------------------
(* The splitter. *)

LEMMA VarOfLiteral == \A l \in Lit : VarOf(l) \in Var
BY NumVarsAssumption DEF Lit, Var, VarOf

LEMMA LogOf ==
  ASSUME NEW S \in SUBSET Var, NEW w \in BOOLEAN
  PROVE  Log(S, w) \in Logs
BY DEF Logs

LEMMA SplitterSteps ==
  ASSUME PipelineInv, SplitterFlushes \/ SplitterPrints
  PROVE  PipelineInv'
<1>1. (At("splitter", "begin") \/ At("splitter", "flushed"))
  BY DEF SplitterFlushes, SplitterPrints
<1>2. at = "split" /\ child = "running" /\ tool # None
  <2>1. /\ "splitter" \in Programs /\ "begin" \in Points /\ "flushed" \in Points
    BY DEF Programs, Points
  <2>2. at \in DOMAIN Program /\ Program[at] = "splitter" /\ child = "running" /\ tool # None
    BY <1>1, <2>1, StepOfProgram DEF PipelineInv
  <2> QED
    BY <2>2 DEF Program
<1>3. \E log \in Logs : disk' = [disk EXCEPT !.log = log]
  <2>1. CASE SplitterFlushes
    <3>1. PICK S \in SUBSET Var : disk' = [disk EXCEPT !.log = Log(S, FALSE)]
      BY <2>1 DEF SplitterFlushes
    <3> QED
      BY <3>1, LogOf
  <2>2. CASE SplitterPrints
    <3>1. PICK p \in Partitions : disk' = [disk EXCEPT !.log = Log(Shown(Splitted, p), TRUE)]
      BY <2>2 DEF SplitterPrints
    <3>2. Content(Splitted) \subseteq Clauses
      BY FilesAssumption DEF PipelineInv, TypeInv, Splitted
    <3>3. ASSUME NEW i \in Splitted.active PROVE VarsIn(Splitted.clauses[i]) \subseteq Var
      <4>1. Splitted.clauses[i] \in Content(Splitted)
        BY DEF Content
      <4>2. Splitted.clauses[i] \subseteq Lit
        BY <3>2, <4>1 DEF Clauses
      <4> QED
        BY <4>2, VarOfLiteral DEF VarsIn
    <3>4. Shown(Splitted, p) \in SUBSET Var
      BY <3>3 DEF Shown
    <3> QED
      BY <3>1, <3>4, LogOf
  <2> QED
    BY <2>1, <2>2
<1>4. PICK log \in Logs : disk' = [disk EXCEPT !.log = log]
  BY <1>3
<1>5. /\ UNCHANGED <<file, script, at, kept, printed, allDone, bounds, parent, report>>
      /\ child' \in {"running", "exited"}
      /\ tool' = tool \/ tool' = <<tool[1], "flushed">>
  BY <1>2 DEF SplitterFlushes, SplitterPrints, Goto, Stops, Ends, wrapVars
<1>6. tool' # None /\ \E pt \in Points : tool' = <<Program[at], pt>>
  <2>1. at \in DOMAIN Program /\ \E pt \in Points : tool = <<Program[at], pt>>
    BY <1>2 DEF PipelineInv, TypeInv, ToolType
  <2>2. "flushed" \in Points /\ Program[at] \in Programs
    BY <1>2 DEF Points, Programs, Program
  <2> QED
    BY <1>5, <2>1, <2>2, NoneAssumption
<1>7. TypeInv'
  <2>1. DiskType'
    BY <1>4 DEF PipelineInv, TypeInv, DiskType
  <2>2. PrintedType' /\ ToolType'
    BY <1>2, <1>5, <1>6 DEF PipelineInv, TypeInv, PrintedType, ToolType, Program
  <2> QED
    BY <1>5, <2>1, <2>2 DEF PipelineInv, TypeInv
<1>8. WrapperInv'
  BY <1>2, <1>5, Running DEF PipelineInv
<1>9. disk'.log = log /\ disk'.p = disk.p /\ disk'.pup = disk.pup
  BY <1>4 DEF PipelineInv, TypeInv, DiskType
<1>10. LogInv' /\ ProjInv' /\ OutputInv'
  BY <1>2, <1>5, <1>9 DEF PipelineInv, LogInv, ProjInv, OutputInv, Before, Compiling
<1>11. Truth' = Truth
  BY <1>5 DEF Truth
<1>12. CountInv' /\ BoundsInv'
  BY <1>2, <1>5, <1>11 DEF PipelineInv, CountInv, BoundsInv, BoundsHold, Before, Compiling
<1>13. DoneInv'
  BY <1>2, <1>5 DEF DoneInv
<1> QED
  BY <1>7, <1>8, <1>10, <1>12, <1>13 DEF PipelineInv

-----------------------------------------------------------------------------
(* The projection tool. *)

\* The next point of a program.
LEMMA GoesTo ==
  ASSUME TypeInv, tool # None, NEW pt \in Points, tool' = <<tool[1], pt>>, at' = at
  PROVE  ToolType' /\ tool' # None /\ tool'[2] = pt /\ (Beginning' <=> pt = "begin")
<1>1. at \in DOMAIN Program /\ tool[1] = Program[at]
  BY DEF TypeInv, ToolType
<1>2. Program[at] \in Programs
  BY <1>1 DEF Program, Programs
<1>3. tool' # None
  BY <1>1, <1>2, NoneAssumption
<1> QED
  BY <1>1, <1>3 DEF ToolType, Beginning, Program

LEMMA BegunFiles ==
  ASSUME NEW ms \in SUBSET Assignments
  PROVE  Begun(ms) \subseteq FileValue /\ Whole(ms) \in FileValue
BY DEF Begun, Whole, Written, FileValue

\* What has to be shown of a step of it.
LEMMA ProjectionGoesOn ==
  ASSUME PipelineInv, at = "project", child = "running", tool # None,
         parent' = parent, report' = report, child' \in {"running", "exited"},
         UNCHANGED <<file, script, at, printed, allDone, bounds>>,
         kept' \in SUBSET Var, DiskType', ToolType', disk'.proj = disk.proj,
         OutputInv', child' = "exited" => ProjectionDone'
  PROVE  PipelineInv'
<1>1. TypeInv'
  BY DEF PipelineInv, TypeInv, PrintedType
<1>2. WrapperInv' /\ report = ""
  BY Running DEF PipelineInv
<1>3. LogInv' /\ ProjInv'
  BY DEF PipelineInv, LogInv, ProjInv, Before, Compiling
<1>4. Truth' = Truth
  BY DEF Truth
<1>5. CountInv' /\ BoundsInv'
  BY <1>4 DEF PipelineInv, CountInv, BoundsInv, BoundsHold, Before, Compiling
<1>6. DoneInv'
  BY <1>2 DEF DoneInv, Returned
<1> QED
  BY <1>1, <1>2, <1>3, <1>5, <1>6 DEF PipelineInv

LEMMA AtProjection ==
  ASSUME PipelineInv, NEW pt \in Points, At("projection", pt)
  PROVE  /\ at = "project" /\ child = "running" /\ tool # None
         /\ tool[2] = pt /\ (Beginning <=> pt = "begin")
<1>1. "projection" \in Programs
  BY DEF Programs
<1>2. /\ tool # None /\ tool = <<"projection", pt>> /\ child = "running"
      /\ at \in DOMAIN Program /\ Program[at] = "projection"
  BY <1>1, StepOfProgram DEF PipelineInv
<1> QED
  BY <1>2 DEF Program, Beginning

LEMMA OpensP ==
  ASSUME PipelineInv, ProjectionOpensP
  PROVE  PipelineInv'
<1>1. "begin" \in Points /\ "writeP" \in Points
  BY DEF Points
<1>2. /\ at = "project" /\ child = "running" /\ tool # None
      /\ tool[2] = "begin" /\ Beginning
  BY <1>1, AtProjection DEF ProjectionOpensP
<1>3. PICK T \in SUBSET Var :
        /\ kept' = T
        /\ \E c \in Begun(GP(ToProject, T)) : disk' = [disk EXCEPT !.p = c]
  BY DEF ProjectionOpensP
<1>4. PICK c \in Begun(GP(ToProject, T)) : disk' = [disk EXCEPT !.p = c]
  BY <1>3
<1>5. c \in FileValue
  BY <1>4, ProjectionSmaller, BegunFiles
<1>6. DiskType'
  BY <1>4, <1>5 DEF PipelineInv, TypeInv, DiskType
<1>7. disk'.p = c /\ disk'.pup = disk.pup /\ disk'.proj = disk.proj
  BY <1>4 DEF PipelineInv, TypeInv, DiskType
<1>8. disk.pup = None
  BY <1>2 DEF PipelineInv, OutputInv
<1>9. /\ UNCHANGED <<file, script, at, printed, allDone, bounds, parent, report, child>>
      /\ tool' = <<tool[1], "writeP">>
  BY DEF ProjectionOpensP, Goto, wrapVars
<1>10. ToolType' /\ tool'[2] = "writeP" /\ ~ Beginning'
  BY <1>1, <1>2, <1>9, GoesTo DEF PipelineInv
<1>11. c \in Begun(LowerFile')
  BY <1>3, <1>4, <1>7 DEF LowerFile, ToProject
<1>12. OutputInv'
  BY <1>2, <1>7, <1>8, <1>9, <1>10, <1>11 DEF OutputInv
<1> QED
  BY <1>2, <1>3, <1>6, <1>7, <1>9, <1>10, <1>12, ProjectionGoesOn

LEMMA ClosesP ==
  ASSUME PipelineInv, ProjectionClosesP
  PROVE  PipelineInv'
<1>1. "writeP" \in Points /\ "upper" \in Points
  BY DEF Points
<1>2. /\ at = "project" /\ child = "running" /\ tool # None
      /\ tool[2] = "writeP" /\ ~ Beginning
  BY <1>1, AtProjection DEF ProjectionClosesP
<1>3. Compiling /\ kept \in SUBSET Var
  BY <1>2 DEF Compiling, PipelineInv, TypeInv
<1>4. disk' = [disk EXCEPT !.p = Whole(LowerFile)]
  BY DEF ProjectionClosesP, LowerFile
<1>5. Whole(LowerFile) \in FileValue
  BY <1>3, CountsOfFiles, BegunFiles DEF PipelineInv
<1>6. DiskType'
  BY <1>4, <1>5 DEF PipelineInv, TypeInv, DiskType
<1>7. disk'.p = Whole(LowerFile) /\ disk'.pup = disk.pup /\ disk'.proj = disk.proj
  BY <1>4 DEF PipelineInv, TypeInv, DiskType
<1>8. disk.pup = None
  BY <1>2 DEF PipelineInv, OutputInv
<1>9. /\ UNCHANGED <<file, script, at, kept, printed, allDone, bounds, parent, report, child>>
      /\ tool' = <<tool[1], "upper">>
  BY DEF ProjectionClosesP, Goto, wrapVars
<1>10. ToolType' /\ tool'[2] = "upper" /\ ~ Beginning'
  BY <1>1, <1>2, <1>9, GoesTo DEF PipelineInv
<1>11. LowerFile' = LowerFile
  BY <1>7, <1>9, SameFiles
<1>12. OutputInv'
  BY <1>2, <1>7, <1>8, <1>9, <1>10, <1>11 DEF OutputInv
<1> QED
  BY <1>2, <1>3, <1>6, <1>7, <1>9, <1>10, <1>12, ProjectionGoesOn

LEMMA OpensUp ==
  ASSUME PipelineInv, ProjectionOpensUp
  PROVE  PipelineInv'
<1>1. "upper" \in Points /\ "writeUp" \in Points
  BY DEF Points
<1>2. /\ at = "project" /\ child = "running" /\ tool # None
      /\ tool[2] = "upper" /\ ~ Beginning
  BY <1>1, AtProjection DEF ProjectionOpensUp
<1>3. Compiling /\ kept \in SUBSET Var
  BY <1>2 DEF Compiling, PipelineInv, TypeInv
<1>4. PICK c \in Begun(UpperFile) : disk' = [disk EXCEPT !.pup = c]
  BY DEF ProjectionOpensUp, UpperFile
<1>5. c \in FileValue
  BY <1>3, CountsOfFiles, BegunFiles DEF PipelineInv
<1>6. DiskType'
  BY <1>4, <1>5 DEF PipelineInv, TypeInv, DiskType
<1>7. disk'.p = disk.p /\ disk'.pup = c /\ disk'.proj = disk.proj
  BY <1>4 DEF PipelineInv, TypeInv, DiskType
<1>8. disk.p = Whole(LowerFile)
  BY <1>2 DEF PipelineInv, OutputInv
<1>9. /\ UNCHANGED <<file, script, at, kept, printed, allDone, bounds, parent, report, child>>
      /\ tool' = <<tool[1], "writeUp">>
  BY DEF ProjectionOpensUp, Goto, wrapVars
<1>10. ToolType' /\ tool'[2] = "writeUp" /\ ~ Beginning'
  BY <1>1, <1>2, <1>9, GoesTo DEF PipelineInv
<1>11. LowerFile' = LowerFile /\ UpperFile' = UpperFile
  BY <1>7, <1>9, SameFiles
<1>12. OutputInv'
  BY <1>2, <1>4, <1>7, <1>8, <1>9, <1>10, <1>11 DEF OutputInv
<1> QED
  BY <1>2, <1>3, <1>6, <1>7, <1>9, <1>10, <1>12, ProjectionGoesOn

LEMMA ClosesUp ==
  ASSUME PipelineInv, ProjectionClosesUp
  PROVE  PipelineInv'
<1>1. "writeUp" \in Points /\ "log" \in Points
  BY DEF Points
<1>2. /\ at = "project" /\ child = "running" /\ tool # None
      /\ tool[2] = "writeUp" /\ ~ Beginning
  BY <1>1, AtProjection DEF ProjectionClosesUp
<1>3. Compiling /\ kept \in SUBSET Var
  BY <1>2 DEF Compiling, PipelineInv, TypeInv
<1>4. disk' = [disk EXCEPT !.pup = Whole(UpperFile), !.plog = Empty]
  BY DEF ProjectionClosesUp, UpperFile
<1>5. Whole(UpperFile) \in FileValue
  BY <1>3, CountsOfFiles, BegunFiles DEF PipelineInv
<1>6. DiskType'
  BY <1>4, <1>5 DEF PipelineInv, TypeInv, DiskType
<1>7. disk'.p = disk.p /\ disk'.pup = Whole(UpperFile) /\ disk'.proj = disk.proj
  BY <1>4 DEF PipelineInv, TypeInv, DiskType
<1>8. disk.p = Whole(LowerFile)
  BY <1>2 DEF PipelineInv, OutputInv
<1>9. /\ UNCHANGED <<file, script, at, kept, printed, allDone, bounds, parent, report, child>>
      /\ tool' = <<tool[1], "log">>
  BY DEF ProjectionClosesUp, Goto, wrapVars
<1>10. ToolType' /\ tool'[2] = "log" /\ ~ Beginning'
  BY <1>1, <1>2, <1>9, GoesTo DEF PipelineInv
<1>11. LowerFile' = LowerFile /\ UpperFile' = UpperFile
  BY <1>7, <1>9, SameFiles
<1>12. OutputInv'
  BY <1>2, <1>7, <1>8, <1>9, <1>10, <1>11 DEF OutputInv
<1> QED
  BY <1>2, <1>3, <1>6, <1>7, <1>9, <1>10, <1>12, ProjectionGoesOn

LEMMA Returns ==
  ASSUME PipelineInv, ProjectionReturns
  PROVE  PipelineInv'
<1>1. "log" \in Points
  BY DEF Points
<1>2. /\ at = "project" /\ child = "running" /\ tool # None
      /\ tool[2] = "log" /\ ~ Beginning
  BY <1>1, AtProjection DEF ProjectionReturns
<1>3. Compiling /\ kept \in SUBSET Var
  BY <1>2 DEF Compiling, PipelineInv, TypeInv
<1>4. disk' = [disk EXCEPT !.plog = kept]
  BY DEF ProjectionReturns
<1>5. DiskType'
  BY <1>3, <1>4 DEF PipelineInv, TypeInv, DiskType
<1>6. /\ disk'.p = disk.p /\ disk'.pup = disk.pup /\ disk'.proj = disk.proj
      /\ disk'.plog = kept
  BY <1>4 DEF PipelineInv, TypeInv, DiskType
<1>7. /\ UNCHANGED <<file, script, at, kept, printed, allDone, bounds, parent, report, tool>>
      /\ child' = "exited"
  BY DEF ProjectionReturns, Stops, Ends
<1>8. LowerFile' = LowerFile /\ UpperFile' = UpperFile
  BY <1>6, <1>7, SameFiles
<1>9. OutputInv'
  BY <1>3, <1>6, <1>7, <1>8 DEF PipelineInv, OutputInv, Compiling, Beginning
<1>10. ProjectionDone'
  BY <1>2, <1>6, <1>7, <1>8 DEF PipelineInv, OutputInv, ProjectionDone
<1>11. ToolType'
  BY <1>7 DEF PipelineInv, TypeInv, ToolType
<1> QED
  BY <1>2, <1>3, <1>5, <1>6, <1>7, <1>9, <1>10, <1>11, ProjectionGoesOn

-----------------------------------------------------------------------------
(* D4. *)

D4Steps == at \in {"compileP", "compileU", "count"}

\* What has to be shown of a step of it.
LEMMA D4GoesOn ==
  ASSUME PipelineInv, D4Steps, child = "running", tool # None,
         parent' = parent, report' = report, child' \in {"running", "exited"},
         UNCHANGED <<file, script, at, kept, allDone, bounds>>,
         disk'.proj = disk.proj, disk'.p = disk.p, disk'.pup = disk.pup,
         DiskType', PrintedType', ToolType', CountInv', DoneInv'
  PROVE  PipelineInv'
<1>1. TypeInv'
  BY DEF PipelineInv, TypeInv
<1>2. WrapperInv'
  BY Running DEF PipelineInv
<1>3. LogInv' /\ ProjInv'
  BY DEF PipelineInv, LogInv, ProjInv, Before, Compiling, D4Steps
<1>4. OutputInv'
  <2>1. LowerFile' = LowerFile /\ UpperFile' = UpperFile
    BY SameFiles
  <2> QED
    BY <2>1 DEF PipelineInv, OutputInv, Compiling, D4Steps
<1>5. BoundsInv'
  <2>1. Truth' = Truth
    BY DEF Truth
  <2> QED
    BY <2>1 DEF PipelineInv, BoundsInv, BoundsHold, D4Steps
<1> QED
  BY <1>1, <1>2, <1>3, <1>4, <1>5 DEF PipelineInv

LEMMA AtD4 ==
  ASSUME PipelineInv, NEW g \in {"p", "u", "f"}, NEW pt \in Points, At(g, pt)
  PROVE  /\ D4Steps /\ child = "running" /\ tool # None
         /\ tool[2] = pt /\ (Beginning <=> pt = "begin")
         /\ g = "p" <=> at = "compileP"
         /\ g = "u" <=> at = "compileU"
         /\ ~ Returned /\ report = ""
<1>1. g \in Programs
  BY DEF Programs
<1>2. /\ tool # None /\ tool = <<g, pt>> /\ child = "running"
      /\ at \in DOMAIN Program /\ Program[at] = g
  BY <1>1, StepOfProgram DEF PipelineInv
<1>3. ~ Returned /\ report = ""
  BY <1>2, Running DEF PipelineInv
<1>4. at \in {"split", "project", "compileP", "compileU", "count"}
  BY <1>2 DEF Program
<1>5. D4Steps /\ (g = "p" <=> at = "compileP") /\ (g = "u" <=> at = "compileU")
  BY <1>2, <1>4 DEF Program, D4Steps
<1> QED
  BY <1>2, <1>3, <1>5 DEF Beginning

\* The output of D4 is not the input of a program.
LEMMA OutputReplaced ==
  ASSUME TypeInv, NEW g \in {"p", "u"}, NEW c \in {Empty} \cup FileValue,
         disk' = [disk EXCEPT ![Compiles[g]] = c]
  PROVE  /\ disk'.proj = disk.proj /\ disk'.p = disk.p /\ disk'.pup = disk.pup
         /\ disk'.plog = disk.plog
         /\ g = "u" => disk'.pnnf = disk.pnnf /\ disk'.unnf = c
         /\ g = "p" => disk'.pnnf = c
         /\ DiskType'
<1>1. CASE g = "p"
  <2>1. disk' = [disk EXCEPT !.pnnf = c]
    BY <1>1 DEF Compiles
  <2> QED
    BY <1>1, <2>1 DEF TypeInv, DiskType
<1>2. CASE g = "u"
  <2>1. disk' = [disk EXCEPT !.unnf = c]
    BY <1>2 DEF Compiles
  <2> QED
    BY <1>2, <2>1 DEF TypeInv, DiskType
<1> QED
  BY <1>1, <1>2

LEMMA Opens ==
  ASSUME PipelineInv, D4Opens
  PROVE  PipelineInv'
<1>1. "begin" \in Points /\ "parse" \in Points
  BY DEF Points
<1>2. PICK g \in {"p", "u"} :
        /\ At(g, "begin") /\ Goto("parse")
        /\ disk' = [disk EXCEPT ![Compiles[g]] = Empty]
  BY DEF D4Opens
<1>3. /\ D4Steps /\ child = "running" /\ tool # None /\ Beginning
      /\ g = "p" <=> at = "compileP"
      /\ g = "u" <=> at = "compileU"
      /\ ~ Returned /\ report = ""
  BY <1>1, <1>2, AtD4
<1>4. /\ disk'.proj = disk.proj /\ disk'.p = disk.p /\ disk'.pup = disk.pup
      /\ disk'.plog = disk.plog /\ (g = "u" => disk'.pnnf = disk.pnnf)
      /\ DiskType'
  BY <1>2, OutputReplaced DEF PipelineInv
<1>5. /\ UNCHANGED <<file, script, at, kept, printed, allDone, bounds, parent, report, child>>
      /\ tool' = <<tool[1], "parse">>
  BY <1>2 DEF D4Opens, Goto, wrapVars
<1>6. ToolType' /\ tool'[2] = "parse"
  BY <1>1, <1>3, <1>5, GoesTo DEF PipelineInv
<1>7. PrintedType'
  BY <1>5 DEF PipelineInv, TypeInv, PrintedType
<1>8. CountInv'
  <2>1. Truth' = Truth
    BY <1>5 DEF Truth
  <2> QED
    BY <1>4, <1>5, <1>6, <2>1 DEF PipelineInv, CountInv, Before, Compiling, MayBeLow, MayBeHigh
<1>9. DoneInv'
  <2>1. UpperFile' = UpperFile
    BY <1>4, <1>5, SameFiles
  <2>2. ~ Returned'
    BY <1>3, <1>5 DEF Returned
  <2>3. CASE g = "p"
    BY <1>3, <1>4, <1>5, <2>1, <2>2, <2>3 DEF PipelineInv, DoneInv, ProjectionDone
  <2>4. CASE g = "u"
    BY <1>3, <1>4, <1>5, <2>1, <2>2, <2>4 DEF PipelineInv, DoneInv, ProjectionDone, LowerDone
  <2> QED
    BY <2>3, <2>4
<1> QED
  BY <1>3, <1>4, <1>5, <1>6, <1>7, <1>8, <1>9, D4GoesOn

\* A file holds what it is to hold, or what it may say when it is cut off.
LEMMA ModelsOfFile ==
  ASSUME NEW ms, NEW c \in {Whole(ms)} \cup Begun(ms)
  PROVE  c.models \in {ms, Assignments}
<1>1. CASE c = Whole(ms)
  BY <1>1 DEF Whole, Written
<1>2. CASE c \in Begun(ms)
  BY <1>2 DEF Begun
<1> QED
  BY <1>1, <1>2

\* A count that is printed is that of a file that was read to its end.
LEMMA CountRead ==
  ASSUME PipelineInv, NEW g \in {"p", "u"}, ~ Unacceptable(disk[Reads[g]]),
         g = "p" => at = "compileP", g = "u" => at = "compileU"
  PROVE  LET ms == disk[Reads[g]].models IN
         /\ disk[Reads[g]] # None
         /\ ms \in SUBSET Assignments /\ Cardinality(ms) \in Nat
         /\ g = "p" /\ disk.pup # None => MayBeLow(Cardinality(ms))
         /\ g = "u" => disk.pup # None /\ MayBeHigh(Cardinality(ms))
<1>1. Compiling
  BY DEF Compiling
<1>2. disk[Reads[g]] # None
  BY DEF Unacceptable
<1>3. /\ LowerFile \in SUBSET Assignments /\ UpperFile \in SUBSET Assignments
      /\ MayBeLow(Cardinality(LowerFile))
      /\ MayBeHigh(Cardinality(UpperFile)) /\ MayBeHigh(Cardinality(Assignments))
  BY <1>1, CountsOfFiles DEF PipelineInv
<1>4. CASE g = "p"
  <2>1. disk[Reads[g]] = disk.p
    BY <1>4 DEF Reads
  <2>2. disk.p \in {Whole(LowerFile)} \cup Begun(LowerFile)
    BY <1>1, <1>2, <2>1 DEF PipelineInv, OutputInv
  <2>3. disk.p.models \in SUBSET Assignments
    BY <1>3, <2>2, ModelsOfFile
  <2>4. Cardinality(disk.p.models) \in Nat
    BY <2>3, AssignmentsFinite
  <2>5. disk.pup # None => disk.p.models = LowerFile
    BY <1>1 DEF PipelineInv, OutputInv, Whole, Written
  <2> QED
    BY <1>2, <1>3, <1>4, <2>1, <2>3, <2>4, <2>5
<1>5. CASE g = "u"
  <2>1. disk[Reads[g]] = disk.pup
    BY <1>5 DEF Reads
  <2>2. disk.pup \in {Whole(UpperFile)} \cup Begun(UpperFile)
    BY <1>1, <1>2, <2>1 DEF PipelineInv, OutputInv
  <2>3. disk.pup.models \in {UpperFile, Assignments}
    BY <2>2, ModelsOfFile
  <2>4. disk.pup.models \in SUBSET Assignments /\ MayBeHigh(Cardinality(disk.pup.models))
    BY <1>3, <2>3
  <2>5. Cardinality(disk.pup.models) \in Nat
    BY <2>4, AssignmentsFinite
  <2> QED
    BY <1>2, <1>5, <2>1, <2>4, <2>5
<1> QED
  BY <1>4, <1>5

LEMMA Prints ==
  ASSUME PipelineInv, D4Prints
  PROVE  PipelineInv'
<1>1. "parse" \in Points /\ "close" \in Points
  BY DEF Points
<1>2. PICK g \in {"p", "u"} :
        /\ At(g, "parse") /\ ~ Unacceptable(disk[Reads[g]]) /\ Goto("close")
        /\ disk' = [disk EXCEPT ![Compiles[g]] =
                      Written(disk[Reads[g]].models, FALSE, TRUE)]
        /\ printed' = [printed EXCEPT ![g] = Cardinality(disk[Reads[g]].models)]
  BY DEF D4Prints
<1>3. /\ D4Steps /\ child = "running" /\ tool # None /\ ~ Beginning
      /\ g = "p" <=> at = "compileP"
      /\ g = "u" <=> at = "compileU"
      /\ ~ Returned /\ report = ""
  BY <1>1, <1>2, AtD4
<1> DEFINE ms == disk[Reads[g]].models
<1>4. /\ ms \in SUBSET Assignments /\ Cardinality(ms) \in Nat /\ disk[Reads[g]] # None
      /\ g = "p" /\ disk.pup # None => MayBeLow(Cardinality(ms))
      /\ g = "u" => disk.pup # None /\ MayBeHigh(Cardinality(ms))
  BY <1>2, <1>3, CountRead
<1>5. Written(ms, FALSE, TRUE) \in FileValue
  BY <1>4 DEF Written, FileValue
<1> HIDE DEF ms
<1>6. /\ disk' = [disk EXCEPT ![Compiles[g]] = Written(ms, FALSE, TRUE)]
      /\ printed' = [printed EXCEPT ![g] = Cardinality(ms)]
  BY <1>2 DEF ms
<1>7. /\ disk'.proj = disk.proj /\ disk'.p = disk.p /\ disk'.pup = disk.pup
      /\ disk'.plog = disk.plog /\ (g = "u" => disk'.pnnf = disk.pnnf)
      /\ DiskType'
  BY <1>5, <1>6, OutputReplaced DEF PipelineInv
<1>8. /\ PrintedType'
      /\ g = "p" => printed'.p = Cardinality(ms) /\ printed'.u = printed.u
      /\ g = "u" => printed'.u = Cardinality(ms) /\ printed'.p = printed.p
  BY <1>4, <1>6 DEF PipelineInv, TypeInv, PrintedType
<1>9. /\ UNCHANGED <<file, script, at, kept, allDone, bounds, parent, report, child>>
      /\ tool' = <<tool[1], "close">>
  BY <1>2 DEF D4Prints, Goto, wrapVars
<1>10. ToolType' /\ ~ Beginning' /\ tool'[2] = "close"
  BY <1>1, <1>3, <1>9, GoesTo DEF PipelineInv
<1>11. CountInv'
  <2>1. Truth' = Truth
    BY <1>9 DEF Truth
  <2>2. CASE g = "p"
    <3>1. printed.u = None /\ at = "compileP" /\ disk.p # None
      BY <1>3, <1>4, <2>2 DEF PipelineInv, CountInv, Reads
    <3> QED
      BY <1>4, <1>7, <1>8, <1>9, <2>1, <2>2, <3>1
         DEF CountInv, Before, Compiling, MayBeLow, MayBeHigh
  <2>3. CASE g = "u"
    <3>1. at = "compileU" /\ disk.pup # None /\ Compiling
      BY <1>3, <1>4, <2>3 DEF Compiling
    <3>2. printed.p # None => MayBeLow(printed.p)
      BY <3>1 DEF PipelineInv, CountInv
    <3> QED
      BY <1>4, <1>7, <1>8, <1>9, <2>1, <2>3, <3>1, <3>2
         DEF CountInv, Before, MayBeLow, MayBeHigh
  <2> QED
    BY <2>2, <2>3
<1>12. DoneInv'
  <2>1. UpperFile' = UpperFile
    BY <1>7, <1>9, SameFiles
  <2>2. ~ Returned'
    BY <1>3, <1>9 DEF Returned
  <2>3. CASE g = "p"
    BY <1>3, <1>7, <1>9, <1>10, <2>1, <2>2, <2>3 DEF PipelineInv, DoneInv, ProjectionDone
  <2>4. CASE g = "u"
    BY <1>3, <1>7, <1>8, <1>9, <1>10, <2>1, <2>2, <2>4
       DEF PipelineInv, DoneInv, ProjectionDone, LowerDone
  <2> QED
    BY <2>3, <2>4
<1> QED
  BY <1>3, <1>7, <1>8, <1>9, <1>10, <1>11, <1>12, D4GoesOn

LEMMA Closes ==
  ASSUME PipelineInv, D4Closes
  PROVE  PipelineInv'
<1>1. "close" \in Points
  BY DEF Points
<1>2. PICK g \in {"p", "u"} :
        /\ At(g, "close") /\ Stops(0)
        /\ disk' = [disk EXCEPT ![Compiles[g]] = Whole(disk[Reads[g]].models)]
  BY DEF D4Closes
<1>3. /\ D4Steps /\ child = "running" /\ tool # None /\ ~ Beginning /\ tool[2] = "close"
      /\ g = "p" <=> at = "compileP"
      /\ g = "u" <=> at = "compileU"
      /\ ~ Returned /\ report = ""
  BY <1>1, <1>2, AtD4
<1>4. /\ UNCHANGED <<file, script, at, kept, printed, allDone, bounds, parent, report, tool>>
      /\ child' = "exited"
  BY <1>2 DEF D4Closes, Stops, Ends
<1>5. Compiling
  BY <1>2, <1>3 DEF Compiling
<1>6. disk[Reads[g]] # None
  <2>1. /\ at = "compileP" => disk.p # None
        /\ at = "compileU" => disk.pup # None
    BY <1>3 DEF PipelineInv, CountInv
  <2>2. CASE g = "p"
    BY <1>3, <2>1, <2>2 DEF Reads
  <2>3. CASE g = "u"
    BY <1>3, <2>1, <2>3 DEF Reads
  <2> QED
    BY <2>2, <2>3
<1>7. disk[Reads[g]] \in FileValue
  BY <1>6 DEF PipelineInv, TypeInv, DiskType, Reads
<1> DEFINE ms == disk[Reads[g]].models
<1>8. Whole(ms) \in FileValue
  BY <1>7 DEF Whole, Written, FileValue
<1> HIDE DEF ms
<1>9. disk' = [disk EXCEPT ![Compiles[g]] = Whole(ms)]
  BY <1>2 DEF ms
<1>10. /\ disk'.proj = disk.proj /\ disk'.p = disk.p /\ disk'.pup = disk.pup
       /\ disk'.plog = disk.plog
       /\ g = "u" => disk'.pnnf = disk.pnnf /\ disk'.unnf = Whole(ms)
       /\ g = "p" => disk'.pnnf = Whole(ms)
       /\ DiskType'
  BY <1>8, <1>9, OutputReplaced DEF PipelineInv
<1>11. PrintedType' /\ ToolType'
  BY <1>4 DEF PipelineInv, TypeInv, PrintedType, ToolType
<1>12. CountInv'
  <2>1. Truth' = Truth
    BY <1>4 DEF Truth
  <2> QED
    BY <1>4, <1>10, <2>1
       DEF PipelineInv, CountInv, Beginning, Before, Compiling, MayBeLow, MayBeHigh
<1>13. DoneInv'
  <2>1. UpperFile' = UpperFile
    BY <1>4, <1>10, SameFiles
  <2>2. CASE g = "p"
    <3>1. at = "compileP" /\ ms = disk.p.models
      BY <1>3, <2>2 DEF ms, Reads
    <3>2. LowerDone'
      BY <1>4, <1>10, <2>2, <3>1 DEF LowerDone
    <3> QED
      BY <1>3, <1>4, <1>10, <2>1, <3>1, <3>2 DEF PipelineInv, DoneInv, ProjectionDone, Beginning
  <2>3. CASE g = "u"
    <3>1. at = "compileU" /\ ms = disk.pup.models
      BY <1>3, <2>3 DEF ms, Reads
    <3>2. UpperDone'
      BY <1>4, <1>10, <2>3, <3>1 DEF UpperDone
    <3> QED
      BY <1>3, <1>4, <1>10, <2>1, <2>3, <3>1, <3>2
         DEF PipelineInv, DoneInv, ProjectionDone, LowerDone, Beginning
  <2> QED
    BY <2>2, <2>3
<1> QED
  BY <1>3, <1>4, <1>10, <1>11, <1>12, <1>13, D4GoesOn

LEMMA Counts ==
  ASSUME PipelineInv, D4Counts
  PROVE  PipelineInv'
<1>1. "begin" \in Points
  BY DEF Points
<1>2. At("f", "begin") /\ printed' = [printed EXCEPT !.f = Cardinality(Truth)]
  BY DEF D4Counts, Truth
<1>3. /\ D4Steps /\ child = "running" /\ tool # None
      /\ at # "compileP" /\ at # "compileU"
  BY <1>1, <1>2, AtD4
<1>4. /\ UNCHANGED <<file, script, at, kept, disk, allDone, bounds, parent, report, tool>>
      /\ child' = "exited"
  BY DEF D4Counts, Stops, Ends
<1>5. at = "count"
  BY <1>3 DEF D4Steps
<1>6. Cardinality(Truth) \in Nat
  BY TruthOfAssignments, AssignmentsFinite
<1>7. PrintedType' /\ printed'.p = printed.p /\ printed'.u = printed.u
  BY <1>2, <1>6 DEF PipelineInv, TypeInv, PrintedType
<1>8. DiskType' /\ ToolType'
  BY <1>4 DEF PipelineInv, TypeInv, DiskType, ToolType
<1>9. Truth' = Truth
  BY <1>4 DEF Truth
<1>10. CountInv'
  BY <1>4, <1>5, <1>7, <1>9 DEF PipelineInv, CountInv, Before, Compiling, MayBeLow, MayBeHigh
<1>11. DoneInv'
  BY <1>4, <1>5, <1>7, <1>9 DEF PipelineInv, DoneInv, Result
<1> QED
  BY <1>3, <1>4, <1>7, <1>8, <1>10, <1>11, D4GoesOn

-----------------------------------------------------------------------------
(* The scripts. *)

LEMMA ProgramSteps ==
  /\ DOMAIN Program = {"split", "project", "compileP", "compileU", "count"}
  /\ \A st \in DOMAIN Program : Program[st] \in Programs
<1>1. DOMAIN Program = {"split", "project", "compileP", "compileU", "count"}
  BY DEF Program
<1>2. ASSUME NEW st \in {"split", "project", "compileP", "compileU", "count"}
      PROVE  Program[st] \in Programs
  BY DEF Program, Programs
<1> QED
  BY <1>1, <1>2

\* A program is started where no other was: its step has done nothing yet.
LEMMA Runs ==
  ASSUME PipelineInv, RunStep
  PROVE  PipelineInv'
<1>1. /\ at \in DOMAIN Program /\ tool = None /\ Beginning
      /\ tool' = <<Program[at], "begin">>
      /\ UNCHANGED <<file, script, at, kept, printed, allDone, bounds>>
      /\ child' \in {"none", "forked"} /\ report' = ""
  BY DEF RunStep, Started, Beginning
<1>2. /\ at \in {"split", "project", "compileP", "compileU", "count"}
      /\ Program[at] \in Programs /\ "begin" \in Points
  BY <1>1, ProgramSteps DEF Points
<1>3. tool' # None /\ tool'[2] = "begin" /\ Beginning' /\ ToolType'
  <2>1. tool' # None
    <3>1. <<Program[at], "begin">> \in Programs \X Points
      BY <1>2
    <3> QED
      BY <1>1, <3>1, NoneAssumption
  <2>2. at' \in DOMAIN Program /\ tool' = <<Program[at'], "begin">>
    BY <1>1
  <2>3. ToolType'
    BY <1>2, <2>2 DEF ToolType
  <2> QED
    BY <1>1, <2>1, <2>3 DEF Beginning
<1>4. /\ disk'.p = disk.p /\ disk'.pup = disk.pup /\ disk'.proj = disk.proj
      /\ disk'.plog = disk.plog /\ disk'.pnnf = disk.pnnf /\ disk'.unnf = disk.unnf
      /\ disk'.log = IF at = "split" THEN Empty ELSE disk.log
      /\ DiskType'
  <2>1. CASE at = "split"
    <3>1. disk' = [disk EXCEPT !.log = Empty] /\ Empty \in Logs
      BY <2>1 DEF RunStep, Logs
    <3> QED
      BY <2>1, <3>1 DEF PipelineInv, TypeInv, DiskType
  <2>2. CASE at # "split"
    <3>1. disk' = disk
      BY <2>2 DEF RunStep
    <3> QED
      BY <2>2, <3>1 DEF PipelineInv, TypeInv, DiskType
  <2> QED
    BY <2>1, <2>2
<1>5. TypeInv'
  BY <1>1, <1>3, <1>4 DEF PipelineInv, TypeInv, PrintedType
<1>6. WrapperInv'
  <2>1. parent' \in {"off", "fork"} => child' = "none"
    BY DEF RunStep, Started
  <2> QED
    BY <1>1, <2>1 DEF WrapperInv
<1>7. LowerFile' = LowerFile /\ UpperFile' = UpperFile /\ Truth' = Truth
  <2>1. Truth' = Truth
    BY <1>1 DEF Truth
  <2> QED
    BY <1>1, <1>4, <2>1, SameFiles
<1>8. LogInv'
  <2>1. Empty \in Logs
    BY DEF Logs
  <2> QED
    BY <1>1, <1>2, <1>4, <2>1 DEF PipelineInv, LogInv, Before
<1>9. ProjInv'
  BY <1>1, <1>4 DEF PipelineInv, ProjInv, Compiling
<1>10. OutputInv'
  BY <1>1, <1>3, <1>4, <1>7 DEF PipelineInv, OutputInv, Compiling
<1>11. CountInv' /\ BoundsInv'
  BY <1>1, <1>2, <1>3, <1>4, <1>7
     DEF PipelineInv, CountInv, BoundsInv, BoundsHold, Before, Compiling, MayBeLow, MayBeHigh
<1>12. DoneInv'
  <2>1. ~ Returned'
    BY <1>1 DEF Returned
  <2>2. /\ ProjectionDone' <=> ProjectionDone
        /\ LowerDone' <=> LowerDone
        /\ Result' <=> Result
    BY <1>1, <1>4, <1>7 DEF ProjectionDone, LowerDone, Result
  <2> QED
    BY <1>1, <1>3, <2>1, <2>2 DEF PipelineInv, DoneInv
<1> QED
  BY <1>5, <1>6, <1>8, <1>9, <1>10, <1>11, <1>12 DEF PipelineInv

\* When both counts were printed by programs that returned, all the files are
\* there.
LEMMA ResultThere ==
  ASSUME PipelineInv, at = "compileU", ProjectionDone, LowerDone, UpperDone,
         printed.p # None, printed.u # None
  PROVE  Result
<1>1. Compiling /\ disk.pup # None
  BY DEF PipelineInv, CountInv, Compiling
<1>2. /\ disk.pup = Whole(UpperFile) /\ disk.plog = kept
      /\ disk.p = Whole(LowerFile)
  BY <1>1 DEF ProjectionDone, PipelineInv, OutputInv
<1>3. disk.p.models = LowerFile /\ disk.pup.models = UpperFile
  BY <1>2 DEF Whole, Written
<1>4. disk.pnnf = Whole(LowerFile) /\ disk.unnf = Whole(UpperFile)
  BY <1>3 DEF LowerDone, UpperDone
<1>5. /\ disk.pnnf.whole /\ disk.pnnf.models = LowerFile
      /\ disk.unnf.whole /\ disk.unnf.models = UpperFile
  BY <1>4 DEF Whole, Written
<1>6. {m \in UpperFile : (m \cap kept) \cup (Var \ kept) \in LowerFile} = Truth
  BY <1>1, CountsOfFiles DEF PipelineInv
<1> QED
  BY <1>2, <1>5, <1>6 DEF Result

LEMMA StepsOver ==
  ASSUME PipelineInv, StepOver
  PROVE  PipelineInv'
<1>1. /\ tool # None /\ tool' = None /\ Beginning' /\ at' = After[at]
      /\ allDone' = (allDone /\ report = "done") /\ report' = ""
      /\ parent = "off" /\ child = "none"
      /\ UNCHANGED <<parent, child, file, script, kept, disk, printed, bounds>>
  <2>1. parent = "off" /\ child = "none"
    BY DEF StepOver, Idle, PipelineInv, WrapperInv
  <2> QED
    BY <2>1 DEF StepOver, Beginning
<1>2. at \in DOMAIN Program
  BY <1>1 DEF PipelineInv, TypeInv, ToolType
<1>3. /\ at = "split" => at' \in {"look", "cat"}
      /\ at = "project" => at' = "compileP"
      /\ at = "compileP" => at' = "compileU"
      /\ at = "compileU" => at' = "clean"
      /\ at = "count" => at' = "over"
      /\ at \in {"split", "project", "compileP", "compileU", "count"}
  <2>1. at \in {"split", "project", "compileP", "compileU", "count"}
    BY <1>2, ProgramSteps
  <2>2. /\ After["split"] \in {"look", "cat"}
        /\ After["project"] = "compileP" /\ After["compileP"] = "compileU"
        /\ After["compileU"] = "clean" /\ After["count"] = "over"
    BY DEF After
  <2> QED
    BY <1>1, <2>1, <2>2
<1>4. TypeInv'
  <2>1. at' \in {"look", "cat", "compileP", "compileU", "clean", "over"}
    BY <1>3
  <2>2. DiskType' /\ PrintedType' /\ ToolType'
    BY <1>1 DEF PipelineInv, TypeInv, DiskType, PrintedType, ToolType
  <2> QED
    BY <1>1, <2>1, <2>2 DEF PipelineInv, TypeInv
<1>5. WrapperInv'
  BY <1>1 DEF WrapperInv
<1>6. LowerFile' = LowerFile /\ UpperFile' = UpperFile /\ Truth' = Truth
  <2>1. Truth' = Truth
    BY <1>1 DEF Truth
  <2> QED
    BY <1>1, <2>1, SameFiles
<1>7. LogInv' /\ ProjInv'
  BY <1>1, <1>3 DEF PipelineInv, LogInv, ProjInv, Before, Compiling
<1>8. OutputInv'
  BY <1>1, <1>3, <1>6 DEF PipelineInv, OutputInv, Compiling
<1>9. CountInv' /\ BoundsInv'
  BY <1>1, <1>3, <1>6
     DEF PipelineInv, CountInv, BoundsInv, BoundsHold, Before, Compiling, MayBeLow, MayBeHigh
<1>10. DoneInv'
  <2>1. /\ ProjectionDone' <=> ProjectionDone
        /\ LowerDone' <=> LowerDone
        /\ Result' <=> Result
    BY <1>1, <1>6 DEF ProjectionDone, LowerDone, Result
  <2>2. report = "done" => Returned
    BY DEF Returned
  <2>3. CASE at = "split"
    BY <1>1, <1>3, <2>3 DEF DoneInv
  <2>4. CASE at = "project"
    <3>1. printed.p = None /\ (allDone' => ProjectionDone)
      BY <1>1, <2>2, <2>4 DEF PipelineInv, CountInv, Before, DoneInv
    <3> QED
      BY <1>1, <1>3, <2>1, <2>4, <3>1 DEF DoneInv
  <2>5. CASE at = "compileP"
    <3>1. printed.u = None /\ (allDone' => ProjectionDone /\ LowerDone)
      BY <1>1, <2>2, <2>5 DEF PipelineInv, CountInv, DoneInv
    <3> QED
      BY <1>1, <1>3, <2>1, <2>5, <3>1 DEF DoneInv
  <2>6. CASE at = "compileU"
    <3>1. allDone' => ProjectionDone /\ LowerDone /\ UpperDone
      BY <1>1, <2>2, <2>6 DEF PipelineInv, DoneInv
    <3>2. allDone' /\ printed.p # None /\ printed.u # None => Result
      BY <2>6, <3>1, ResultThere
    <3> QED
      BY <1>1, <1>3, <2>1, <2>6, <3>2 DEF DoneInv
  <2>7. CASE at = "count"
    BY <1>1, <1>3, <2>1, <2>7 DEF PipelineInv, DoneInv
  <2> QED
    BY <1>3, <2>3, <2>4, <2>5, <2>6, <2>7
<1> QED
  BY <1>4, <1>5, <1>7, <1>8, <1>9, <1>10 DEF PipelineInv

LEMMA Looks ==
  ASSUME PipelineInv, LooksAtLog
  PROVE  PipelineInv'
<1>1. /\ at = "look" /\ at' \in {"over", "cat"}
      /\ UNCHANGED <<file, script, tool, kept, printed, allDone, bounds>>
      /\ UNCHANGED <<parent, child, report>>
  BY DEF LooksAtLog, wrapVars
<1>2. tool = None
  BY <1>1, ProgramSteps DEF PipelineInv, TypeInv, ToolType
<1>3. /\ disk'.p = disk.p /\ disk'.pup = disk.pup /\ disk'.proj = disk.proj
      /\ DiskType' /\ (at' = "cat" => disk'.log = disk.log)
  <2>1. CASE disk' = [disk EXCEPT !.log = None] /\ at' = "over"
    BY <2>1 DEF PipelineInv, TypeInv, DiskType
  <2>2. CASE UNCHANGED disk
    BY <2>2 DEF PipelineInv, TypeInv, DiskType
  <2> QED
    BY <2>1, <2>2 DEF LooksAtLog
<1>4. TypeInv'
  BY <1>1, <1>2, <1>3 DEF PipelineInv, TypeInv, PrintedType, ToolType
<1>5. WrapperInv'
  BY <1>1, <1>2, ProgramSteps DEF PipelineInv, WrapperInv
<1>6. LogInv' /\ ProjInv' /\ OutputInv'
  BY <1>1, <1>2, <1>3 DEF PipelineInv, LogInv, ProjInv, OutputInv, Before, Compiling
<1>7. printed.p = None /\ printed.u = None /\ Truth' = Truth
  BY <1>1 DEF PipelineInv, CountInv, Before, Truth
<1>8. CountInv' /\ BoundsInv'
  BY <1>1, <1>2, <1>7
     DEF PipelineInv, CountInv, BoundsInv, BoundsHold, Beginning, Before, Compiling
<1>9. DoneInv'
  BY <1>1, <1>7 DEF DoneInv
<1> QED
  BY <1>4, <1>5, <1>6, <1>8, <1>9 DEF PipelineInv

LEMMA Cats ==
  ASSUME PipelineInv, Cat
  PROVE  PipelineInv'
<1>1. /\ at = "cat" /\ at' = "project"
      /\ UNCHANGED <<file, script, tool, kept, printed, allDone, bounds>>
      /\ UNCHANGED <<parent, child, report>>
      /\ disk' = [disk EXCEPT !.proj = Together(disk.log, file)]
  BY DEF Cat, wrapVars
<1>2. tool = None
  BY <1>1, ProgramSteps DEF PipelineInv, TypeInv, ToolType
<1>3. disk.log \in Logs /\ disk.p = None /\ disk.pup = None
  BY <1>1 DEF PipelineInv, LogInv, Before
<1>4. Together(disk.log, file) \in Combined
  BY <1>3 DEF Combined, PipelineInv, TypeInv
<1>5. /\ disk'.p = None /\ disk'.pup = None /\ disk'.proj = Together(disk.log, file)
      /\ DiskType'
  BY <1>1, <1>3, <1>4 DEF PipelineInv, TypeInv, DiskType
<1>6. TypeInv'
  BY <1>1, <1>2, <1>5 DEF PipelineInv, TypeInv, PrintedType, ToolType
<1>7. WrapperInv'
  BY <1>1, <1>2, ProgramSteps DEF PipelineInv, WrapperInv
<1>8. LogInv' /\ ProjInv' /\ OutputInv'
  BY <1>1, <1>2, <1>3, <1>5 DEF LogInv, ProjInv, OutputInv, Before, Compiling, Beginning
<1>9. printed.p = None /\ printed.u = None /\ Truth' = Truth
  BY <1>1 DEF PipelineInv, CountInv, Before, Truth
<1>10. CountInv' /\ BoundsInv'
  BY <1>1, <1>2, <1>9
     DEF PipelineInv, CountInv, BoundsInv, BoundsHold, Beginning, Before, Compiling
<1>11. DoneInv'
  BY <1>1, <1>2, <1>9 DEF DoneInv
<1> QED
  BY <1>6, <1>7, <1>8, <1>10, <1>11 DEF PipelineInv

LEMMA Cleans ==
  ASSUME PipelineInv, Clean
  PROVE  PipelineInv'
<1>1. /\ at = "clean" /\ at' \in {"over", "bounds"}
      /\ at' = "bounds" /\ script = "gen" => printed.p # None /\ printed.u # None
      /\ UNCHANGED <<file, script, tool, kept, printed, allDone, bounds>>
      /\ UNCHANGED <<parent, child, report>>
      /\ disk' = [disk EXCEPT !.proj = None, !.p = None, !.pup = None, !.log = None]
  BY DEF Clean, wrapVars
<1>2. tool = None
  BY <1>1, ProgramSteps DEF PipelineInv, TypeInv, ToolType
<1>3. /\ DiskType' /\ disk'.plog = disk.plog
      /\ disk'.pnnf = disk.pnnf /\ disk'.unnf = disk.unnf
  BY <1>1 DEF PipelineInv, TypeInv, DiskType
<1>4. TypeInv'
  BY <1>1, <1>2, <1>3 DEF PipelineInv, TypeInv, PrintedType, ToolType
<1>5. WrapperInv'
  BY <1>1, <1>2, ProgramSteps DEF PipelineInv, WrapperInv
<1>6. LogInv' /\ ProjInv' /\ OutputInv'
  BY <1>1, <1>2 DEF LogInv, ProjInv, OutputInv, Before, Compiling
<1>7. Truth' = Truth
  BY <1>1 DEF Truth
<1>8. CountInv' /\ BoundsInv'
  BY <1>1, <1>2, <1>7
     DEF PipelineInv, CountInv, BoundsInv, BoundsHold, Beginning, Before, Compiling,
         MayBeLow, MayBeHigh
<1>9. Result' <=> Result
  BY <1>1, <1>3, <1>7 DEF Result
<1>10. DoneInv'
  BY <1>1, <1>9 DEF PipelineInv, DoneInv
<1> QED
  BY <1>4, <1>5, <1>6, <1>8, <1>10 DEF PipelineInv

LEMMA PrintsBounds ==
  ASSUME PipelineInv, PrintBounds
  PROVE  PipelineInv'
<1>1. /\ at = "bounds" /\ at' \in {"count", "over"}
      /\ UNCHANGED <<file, script, tool, kept, disk, printed, allDone>>
      /\ UNCHANGED <<parent, child, report>>
      /\ bounds' = [low |-> printed.p, high |-> printed.u]
  BY DEF PrintBounds, wrapVars
<1>2. tool = None
  BY <1>1, ProgramSteps DEF PipelineInv, TypeInv, ToolType
<1>3. TypeInv'
  BY <1>1, <1>2 DEF PipelineInv, TypeInv, DiskType, PrintedType, ToolType
<1>4. WrapperInv'
  BY <1>1, <1>2, ProgramSteps DEF PipelineInv, WrapperInv
<1>5. LogInv' /\ ProjInv' /\ OutputInv'
  BY <1>1, <1>2 DEF LogInv, ProjInv, OutputInv, Before, Compiling
<1>6. Truth' = Truth
  BY <1>1 DEF Truth
<1>7. CountInv'
  BY <1>1, <1>2, <1>6
     DEF PipelineInv, CountInv, Beginning, Before, Compiling, MayBeLow, MayBeHigh
<1>8. BoundsInv'
  <2>1. script = "gen" => MayBeLow(printed.p) /\ MayBeHigh(printed.u)
    BY <1>1 DEF PipelineInv, BoundsInv, CountInv
  <2>2. bounds'.low = printed.p /\ bounds'.high = printed.u
    BY <1>1
  <2> QED
    BY <1>1, <1>6, <2>1, <2>2 DEF BoundsInv, BoundsHold, MayBeLow, MayBeHigh
<1>9. Result' <=> Result
  BY <1>1, <1>6 DEF Result
<1>10. DoneInv'
  BY <1>1, <1>2, <1>9 DEF PipelineInv, DoneInv
<1> QED
  BY <1>3, <1>4, <1>5, <1>7, <1>8, <1>10 DEF PipelineInv

-----------------------------------------------------------------------------
(* The theorems. *)

LEMMA NextInv == PipelineInv /\ [Next]_vars => PipelineInv'
<1> SUFFICES ASSUME PipelineInv, [Next]_vars PROVE PipelineInv'
  OBVIOUS
<1>1. CASE ScriptStep
  BY <1>1, Runs, StepsOver, Looks, Cats, Cleans, PrintsBounds DEF ScriptStep
<1>2. CASE Tool
  <2>1. CASE Fails \/ D4Rejects
    BY <2>1, ProgramEnds
  <2>2. CASE SplitterFlushes \/ SplitterPrints
    BY <2>2, SplitterSteps
  <2>3. CASE ProjectionOpensP \/ ProjectionClosesP \/ ProjectionOpensUp
             \/ ProjectionClosesUp \/ ProjectionReturns
    BY <2>3, OpensP, ClosesP, OpensUp, ClosesUp, Returns
  <2>4. CASE D4Opens \/ D4Prints \/ D4Closes \/ D4Counts
    BY <2>4, Opens, Prints, Closes, Counts
  <2> QED
    BY <1>2, <2>1, <2>2, <2>3, <2>4 DEF Tool
<1>3. CASE ParentStep \/ ChildStep \/ Signalled \/ ClockStep
  BY <1>3, WrapperSteps DEF ParentStep, ChildStep, Signalled, ClockStep
<1>4. CASE UNCHANGED vars
  <2>1. UNCHANGED Rest /\ UNCHANGED <<parent, child, report>>
    BY <1>4 DEF vars, wrapVars, Rest
  <2>2. UNCHANGED <<at, tool>>
    BY <2>1 DEF Rest
  <2>3. WrapperInv'
    BY <2>1, <2>2 DEF PipelineInv, WrapperInv
  <2>4. FilesInv'
    BY <2>1, RestKept DEF PipelineInv, FilesInv
  <2>5. DoneInv'
    BY <2>1, DoneKept DEF PipelineInv, FilesInv, Returned
  <2> QED
    BY <2>3, <2>4, <2>5 DEF PipelineInv, FilesInv
<1> QED
  BY <1>1, <1>2, <1>3, <1>4 DEF Next, Over

THEOREM PipelineInductive == Spec => []PipelineInv
BY InitInv, NextInv, PTL DEF Spec

\* The bounds gen.sh writes hold for the formula of the file, for every number
\* of variables, every formula both readers read alike, every cut, and however
\* the programs end: PrintBounds reads two counts, of which the second shows
\* that the file of the first was complete.
THEOREM PrintedBounds == Spec => []BoundsHold
<1>1. PipelineInv => BoundsHold
  BY DEF PipelineInv, BoundsInv
<1> QED
  BY <1>1, PipelineInductive, PTL

\* When both counts are printed and wrap says "done" of every program, the two
\* d-DNNF are complete, belong to the list of projected variables, and together
\* have the models of the formula.
THEOREM DoneComplete == Spec => []DoneMeansComplete
<1>1. PipelineInv => DoneMeansComplete
  BY DEF PipelineInv, DoneInv, DoneMeansComplete, Result
<1> QED
  BY <1>1, PipelineInductive, PTL

-----------------------------------------------------------------------------
(* The cut. *)

\* What a clause says depends on its variables only.
LEMMA SatisfiesOf ==
  ASSUME NEW l, NEW m, NEW n, VarOf(l) \in m <=> VarOf(l) \in n
  PROVE  Satisfies(m, l) <=> Satisfies(n, l)
BY DEF Satisfies

LEMMA TwoOfMany ==
  ASSUME NEW S, IsFiniteSet(S), NEW a \in S, NEW b \in S, a # b
  PROVE  Cardinality(S) > 1
<1>1. IsFiniteSet({a}) /\ Cardinality({a}) = 1
  BY FS_Singleton
<1>2. Cardinality({a} \cup {b}) = 2
  BY <1>1, FS_AddElement
<1>3. ({a} \cup {b}) \in SUBSET S
  OBVIOUS
<1>4. Cardinality({a} \cup {b}) <= Cardinality(S) /\ Cardinality(S) \in Nat
  BY <1>3, FS_Subset, FS_CardinalityType
<1> QED
  BY <1>2, <1>4

\* A clause that does not cross the cut has its variables in one part.
LEMMA InOnePart ==
  ASSUME NEW f, NEW p \in Partitions, NEW i, VarsIn(f.clauses[i]) \subseteq Var,
         ~ Crosses(f, p, i), NEW x \in VarsIn(f.clauses[i]), NEW y \in VarsIn(f.clauses[i])
  PROVE  p[x] = p[y]
<1> DEFINE parts == {p[z] : z \in VarsIn(f.clauses[i])}
<1>1. parts \subseteq 0 .. NbParts - 1
  BY DEF Partitions
<1>2. 0 \in Int /\ NbParts - 1 \in Int
  BY NbPartsAssumption
<1>3. IsFiniteSet(0 .. NbParts - 1)
  BY <1>2, FS_Interval
<1>4. IsFiniteSet(parts)
  BY <1>1, <1>3, FS_Subset
<1>5. p[x] \in parts /\ p[y] \in parts
  OBVIOUS
<1>6. ~ Cardinality(parts) > 1
  BY DEF Crosses
<1> HIDE DEF parts
<1> QED
  BY <1>4, <1>5, <1>6, TwoOfMany

\* Whatever the parts: the shown variables separate them.
LEMMA ShownSeparates ==
  ASSUME NEW f, NEW p \in Partitions, Content(f) \subseteq Clauses
  PROVE  Separated(Models(Content(f)), Shown(f, p), p)
<1> DEFINE ms == Models(Content(f))
           shown == Shown(f, p)
<1> SUFFICES ASSUME NEW m \in ms, NEW n \in ms, m \cap shown = n \cap shown,
                    NEW k \in 0 .. NbParts - 1
             PROVE  Mixed(m, n, p, k) \in ms
  BY DEF Separated
<1> DEFINE mix == Mixed(m, n, p, k)
<1>1. mix \in Assignments
  BY DEF Mixed, Assignments
<1>2. \A x \in Var : IF p[x] = k THEN x \in mix <=> x \in m ELSE x \in mix <=> x \in n
  BY DEF Mixed
<1>3. \A x \in Var \cap shown : x \in mix <=> x \in n
  BY <1>2
<1> HIDE DEF mix, shown
<1>4. ASSUME NEW c \in Content(f) PROVE SatClause(mix, c)
  <2>1. PICK lm \in c : Satisfies(m, lm)
    BY DEF Models, SatClause
  <2>2. PICK ln \in c : Satisfies(n, ln)
    BY DEF Models, SatClause
  <2>3. c \subseteq Lit
    BY DEF Clauses
  <2>4. VarsIn(c) \subseteq Var
    BY <2>3, VarOfLiteral DEF VarsIn
  <2>5. /\ VarOf(lm) \in VarsIn(c) /\ VarOf(lm) \in Var
        /\ VarOf(ln) \in VarsIn(c) /\ VarOf(ln) \in Var
    BY <2>3, VarOfLiteral DEF VarsIn
  <2>6. CASE p[VarOf(lm)] = k
    BY <1>2, <2>1, <2>5, <2>6, SatisfiesOf DEF SatClause
  <2>7. CASE p[VarOf(ln)] # k
    BY <1>2, <2>2, <2>5, <2>7, SatisfiesOf DEF SatClause
  <2>8. CASE p[VarOf(lm)] # p[VarOf(ln)]
    <3>1. lm # ln
      BY <2>8
    <3>2. PICK i \in f.active : c = f.clauses[i]
      BY <3>1 DEF Content
    <3>3. Crosses(f, p, i)
      BY <2>4, <2>5, <2>8, <3>2, InOnePart
    <3>4. VarOf(ln) \in shown
      BY <2>5, <3>2, <3>3 DEF shown, Shown
    <3> QED
      BY <1>3, <2>2, <2>5, <3>4, SatisfiesOf DEF SatClause
  <2> QED
    BY <2>6, <2>7, <2>8
<1> QED
  BY <1>1, <1>4 DEF Models, mix

\* What a program finds is what the one before it means to leave: the files
\* belong together as above, and the splitter's list cuts the formula whatever
\* partition it is given.
THEOREM FilesOfPrograms == Spec => []FilesRight
<1>1. ASSUME PipelineInv PROVE CutSeparates
  <2>1. Content(Splitted) \subseteq Clauses
    BY <1>1, FilesAssumption DEF PipelineInv, TypeInv, Splitted
  <2> QED
    BY <2>1, ShownSeparates DEF CutSeparates
<1>2. PipelineInv => FilesRight
  BY <1>1 DEF FilesRight, PipelineInv, DoneInv, DoneMeansComplete, Result
<1> QED
  BY <1>2, PipelineInductive, PTL

=============================================================================
