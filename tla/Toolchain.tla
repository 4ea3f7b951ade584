----------------------------- MODULE Toolchain ------------------------------
(***************************************************************************)
(* How the tools are built and called.  The three copies of gen.cpp write  *)
(* a build.ninja for the sources of a tool; ninja compiles and links what  *)
(* it says; and a program reads its arguments with boost's                 *)
(* program_options.  ninja, g++ and boost are external.                    *)
(***************************************************************************)
EXTENDS Integers, Sequences, SequencesExt, FiniteSets

CONSTANTS
  MostEdits,     \* bound on how often a file is edited
  Edited         \* the files that may be

-----------------------------------------------------------------------------
(* gen.cpp: what its main is given, and what the files include.  *)

SourceFile(name) ==
  [src_path |-> <<"src", name>>, obj_path |-> <<"obj", name>>, elf_path |-> <<>>]

\* add_source_folder, add_source_file
AddSourceFolder(names) == {SourceFile(name) : name \in names}

\* add_test_folder, add_test_file
AddTestFolder(names) ==
  {[src_path |-> <<"test", name>>, obj_path |-> <<>>, elf_path |-> <<"run", name>>] : name \in names}

SetMainProperty(src, name) ==
  {IF s.src_path = <<"src", name>> THEN [s EXCEPT !.elf_path = <<"program", name>>] ELSE s : s \in src}
SetMainProperties(src, names) == FoldLeft(SetMainProperty, src, names)

Project(sources, mains, tests) ==
  [src |-> SetMainProperties(AddSourceFolder(sources), mains), test |-> AddTestFolder(tests)]

cppddnnf ==
  Project({"appmc", "lmc", "nnf", "pc", "pdac", "rhsampler", "rsampler", "sampler", "var"},
          <<"pc", "rsampler", "rhsampler", "lmc", "appmc", "sampler">>,
          {"literal", "litset", "variable"})
splitter == Project({"CNF", "splitter", "uf", "var"}, <<"splitter">>,
                    {"clause", "literal", "litset", "variable"})
projection == Project({"CNF", "projection", "var"}, <<"projection">>,
                      {"clause", "literal", "litset", "variable"})
Projects == [cppddnnf |-> cppddnnf, splitter |-> splitter, projection |-> projection]

\* The headers a source includes, itself or through others.
Includes(p, name) ==
  CASE name = "uf" -> {"uf"}
    [] name \in {"var", "literal", "litset", "variable"} -> {"var"}
    [] p # "cppddnnf" -> {"CNF", "var"} \cup (IF name = "splitter" THEN {"patoh"} ELSE {})
    [] name = "nnf" -> {"nnf", "var"}
    [] OTHER -> {"nnf", "pdac", "var"} \cup (IF name = "rhsampler" THEN {"xoshiro"} ELSE {})

(* The rules it writes: what is made, how, and from what. *)

Rule(out, how, ins) == [out |-> out, how |-> how, ins |-> ins]
Debug(file) == <<file[1] \o "_debug", file[2]>>

GenRule(s) ==
  {Rule(s.obj_path, "compile", {s.src_path}), Rule(Debug(s.obj_path), "compile_debug", {s.src_path})}

\* Mutant: the objects of the other programs are linked too.
SharedAll(deps) == {d.obj_path : d \in deps}

\* The objects every program is linked with.
Shared(deps) == {d.obj_path : d \in {e \in deps : e.elf_path = <<>>}}

GenLdRule(s, deps) ==
  LET ins == {s.obj_path} \cup Shared(deps) IN
  {Rule(s.elf_path, "link", ins), Rule(Debug(s.elf_path), "link_debug", {Debug(o) : o \in ins})}

GenTestRule(t, deps) == {Rule(t.elf_path, "build_test", {t.src_path} \cup Shared(deps))}

Mains(project) == {s \in project.src : s.elf_path # <<>>}

\* gen_makefile: the rules, and what all_release, all_debug and all_test stand for.
GenMakefile(project) ==
  [rules |-> UNION ({GenRule(s) : s \in project.src} \cup
                    {GenLdRule(s, project.src) : s \in Mains(project)} \cup
                    {GenTestRule(t, project.src) : t \in project.test}),
   all_release |-> {s.elf_path : s \in Mains(project)},
   all_debug |-> {Debug(s.elf_path) : s \in Mains(project)},
   all_test |-> {t.elf_path : t \in project.test}]

Makefiles == [p \in DOMAIN Projects |-> GenMakefile(Projects[p])]

-----------------------------------------------------------------------------
(* ninja.  It remakes an output that is missing, or of which an input that   *)
(* its rule declares has changed; the headers are not declared.              *)

\* What the build instructions ask for: of cppddnnf some of its programs, as its
\* README and pc.def do (of all six there are too many orders to go through),
\* of the others what ninja makes when nothing is said, and what else it can.
Asked(p) ==
  IF p = "cppddnnf" THEN {{<<"program", n>> : n \in {"appmc", "sampler"}}, {<<"program", "pc">>}}
  ELSE {Makefiles[p].all_release, Makefiles[p].all_debug, Makefiles[p].all_test}

FilesOf(p) ==
  {f.src_path : f \in Projects[p].src \cup Projects[p].test} \cup
  {<<"header", h>> : h \in UNION {Includes(p, f.src_path[2]) : f \in Projects[p].src \cup Projects[p].test}}

VARIABLES
  build,     \* the project that is built
  target,    \* the outputs asked for
  stamp,     \* how often each file was edited
  made,      \* the outputs there are, and what each was made from
  cleaned,   \* the stamps when the outputs were last removed
  result     \* of ninja: "none" before it ran to its end, "running", "failed" or "done"

tvars == <<build, target, stamp, made, cleaned, result>>

Rules == Makefiles[build].rules
Needed == LET last == {r \in Rules : r.out \in target}
          IN last \cup {r \in Rules : \E q \in last : r.out \in q.ins}

\* What the command of a rule reads: text, with its headers, or objects.
Reads(r) ==
  LET text == {f \in r.ins : f \in DOMAIN stamp}
      headers == {<<"header", h>> : h \in UNION {Includes(build, f[2]) : f \in text}}
  IN [f \in r.ins \cup headers |-> IF f \in DOMAIN stamp THEN stamp[f] ELSE made[f]]

Now(f) == IF f \in DOMAIN stamp THEN stamp[f] ELSE made[f]
Present(f) == f \in DOMAIN stamp \/ f \in DOMAIN made
Dirty(r) ==
  r.out \in DOMAIN made => \E f \in r.ins : Present(f) => made[r.out][f] # Now(f)
Ready(r) == \A q \in Needed : q.out \in r.ins => ~ Dirty(q)

\* The linker wants one main.  A test brings its own.
MainObjects == UNION {{s.obj_path, Debug(s.obj_path)} : s \in Mains(Projects[build])}
Works(r) ==
  r.how \in {"compile", "compile_debug"} \/
  Cardinality({f \in r.ins : f[1] = "test" \/ f \in MainObjects}) = 1

\* A clone of the repository, with nothing built.
TStart ==
  /\ build \in DOMAIN Projects /\ target \in Asked(build)
  /\ stamp = [f \in FilesOf(build) |-> 0] /\ cleaned = stamp
  /\ made = <<>> /\ result = "none"

\* A programmer changes a file between two runs.
Edit(f) ==
  /\ result # "running"
  /\ FoldFunction(+, 0, stamp) < MostEdits
  /\ stamp' = [stamp EXCEPT ![f] = @ + 1]
  /\ result' = "none"
  /\ UNCHANGED <<build, target, made, cleaned>>

\* ninja clean: rm -rf build.
Clean ==
  /\ result # "running"
  /\ made' = <<>> /\ cleaned' = stamp /\ result' = "none"
  /\ UNCHANGED <<build, target, stamp>>

Ninja == /\ result # "running" /\ result' = "running"
         /\ UNCHANGED <<build, target, stamp, made, cleaned>>

Command(r) ==
  /\ result = "running" /\ Dirty(r) /\ Ready(r)
  /\ IF Works(r) THEN made' = (r.out :> Reads(r)) @@ made /\ UNCHANGED result
     ELSE result' = "failed" /\ UNCHANGED made
  /\ UNCHANGED <<build, target, stamp, cleaned>>

\* ninja is stopped, or a compiler with it.
Stop == /\ result = "running" /\ result' = "none"
        /\ UNCHANGED <<build, target, stamp, made, cleaned>>

Done == /\ result = "running" /\ \A r \in Needed : ~ Dirty(r) /\ result' = "done"
        /\ UNCHANGED <<build, target, stamp, made, cleaned>>

TNext ==
  \/ (\E f \in Edited \cap DOMAIN stamp : Edit(f)) \/ Clean \/ Ninja
  \/ (\E r \in Needed : Command(r)) \/ Stop \/ Done


-----------------------------------------------------------------------------
(* The arguments of the programs.  A word of a command line is an option's   *)
(* name with the text after it, or a text alone.                             *)

Number(n) == [kind |-> "number", n |-> n]
Decimal(hundredths) == [kind |-> "decimal", n |-> hundredths]
File == [kind |-> "file", n |-> 0]
Nothing == [kind |-> "nothing", n |-> 0]

Flag == [type |-> "flag", default |-> Nothing]
Path == [type |-> "string", default |-> Nothing]
Size == [type |-> "size_t", default |-> Nothing]
SizeOr(n) == [type |-> "size_t", default |-> Number(n)]
DoubleOr(hundredths) == [type |-> "double", default |-> Decimal(hundredths)]

\* get_program_options of each program.
projection_options == [help |-> Flag, cnf |-> Path, timeout |-> SizeOr(3600)]
splitter_options == [help |-> Flag, cnf |-> Path, nb |-> SizeOr(2)]
sampler_options == [help |-> Flag, cnf |-> Path, k |-> SizeOr(50), nb |-> SizeOr(10)]
rsampler_options == [help |-> Flag, cnf |-> Path, k |-> SizeOr(1000), nb |-> SizeOr(10)]
rhsampler_options == [help |-> Flag, cnf |-> Path, nb |-> Size]
appmc_options ==
  [help |-> Flag, verbose |-> Flag, cnf |-> Path, alpha |-> DoubleOr(1), nb |-> SizeOr(10000),
   lnb |-> SizeOr(0), epsilon |-> DoubleOr(110)]

(* boost: parse_command_line and store.  A name that is no option's throws, as  *)
(* do an option given twice and a text that is missing or of another type; a    *)
(* text alone is passed over.                                                   *)

Given(name, text) == [name |-> name, text |-> text]
Fits(type, text) ==
  CASE type = "flag" -> text = Nothing
    [] type = "string" -> text # Nothing
    [] type = "size_t" -> text.kind = "number"
    [] type = "double" -> text.kind \in {"number", "decimal"}

PlacesOf(words, name) == {n \in DOMAIN words : words[n].name = name}
Misused(options, words) ==
  {n \in DOMAIN words : LET w == words[n] IN
     w.name # "" /\ (w.name \in DOMAIN options => ~ Fits(options[w.name].type, w.text))}
Repeated(options, words) == {name \in DOMAIN options : Cardinality(PlacesOf(words, name)) > 1}

Throws(options, words) == Misused(options, words) # {} \/ Repeated(options, words) # {}

\* The variables map: what was given, and what has a default.
Stored(options, words) ==
  LET given == {name \in DOMAIN options : PlacesOf(words, name) # {}}
      defaults == {name \in DOMAIN options : options[name].default # Nothing}
  IN [name \in given \cup defaults |->
        IF name \in given THEN words[Max(PlacesOf(words, name))].text ELSE options[name].default]

(* The mains: the exit status, and what the work is called with. *)

Ended(status) == [status |-> status, call |-> <<>>]
Called(call) == [status |-> 0, call |-> call]

\* The tests that come before the work, of the options a program cannot do without.
Main(options, needed, words) ==
  LET vm == Stored(options, words) IN
  CASE Throws(options, words) -> Ended(1)
    [] ~ Throws(options, words) /\ "help" \in DOMAIN vm -> Ended(0)
    [] ~ Throws(options, words) /\ "help" \notin DOMAIN vm ->
         IF needed \subseteq DOMAIN vm THEN Called(vm) ELSE Ended(1)

ProjectionMain(words) == Main(projection_options, {"cnf"}, words)
SplitterMain(words) == Main(splitter_options, {"cnf", "nb"}, words)
SamplerMain(words) == Main(sampler_options, {"cnf"}, words)
RsamplerMain(words) == Main(rsampler_options, {"cnf"}, words)

\* Mutant: the number of samples is not asked for.
RhsamplerMainAny(words) == Main(rhsampler_options, {"cnf"}, words)

RhsamplerMain(words) == Main(rhsampler_options, {"cnf", "nb"}, words)
AppmcMain(words) == Main(appmc_options, {"cnf"}, words)

(* lmc and pc take their arguments by place. *)

\* A name is one more argument, and no number.
ByPlace(words) ==
  FlattenSeq([n \in DOMAIN words |->
    (IF words[n].name = "" THEN <<>> ELSE <<File>>) \o
    (IF words[n].text = Nothing THEN <<>> ELSE <<words[n].text>>)])

\* An exception that nothing catches, or a null pointer made a string.
Aborted == Ended(134)

\* stoi and stod read the start of a decimal, and alpha is cut to an int.
Truncated(text) == IF text.kind = "decimal" THEN Number(text.n \div 100) ELSE text

\* A wrong number of arguments is answered by the usage, with status 0.
LmcMain(words) ==
  LET argv == ByPlace(words) IN
  CASE Len(argv) # 4 -> Ended(0)
    [] Len(argv) = 4 /\ (\E n \in 2 .. 4 : argv[n].kind = "file") -> Aborted
    [] Len(argv) = 4 /\ (\A n \in 2 .. 4 : argv[n].kind # "file") ->
         Called([cnf |-> argv[1], N |-> Truncated(argv[2]), k |-> Truncated(argv[3]),
                 alpha |-> Truncated(argv[4])])
PcMain(words) ==
  LET argv == ByPlace(words) IN IF argv = <<>> THEN Aborted ELSE Called([cnf |-> argv[1]])

-----------------------------------------------------------------------------
(* Properties *)

\* After ninja ended, if no header was edited since the outputs were removed: what
\* was asked for is there, a program is linked from one source with a main and all
\* that have none, and everything in it was made from the files as they are now.
\* gen.cpp declares no header to ninja (gen.cpp:16), so that without the clean of
\* README.md:52 a program may mix objects compiled from different headers.
HeadersKept == \A f \in DOMAIN stamp : f[1] = "header" => stamp[f] = cleaned[f]
BuildRight ==
  /\ result # "failed"
  /\ result = "done" /\ HeadersKept =>
       \A goal \in target :
         /\ goal \in DOMAIN made
         /\ LET objects == {f \in DOMAIN made[goal] : f \in DOMAIN made}
                texts == UNION {DOMAIN made[o] : o \in objects \cup {goal}}
                own == {f \in texts : f[1] = "src"}
            IN /\ \A o \in objects : made[goal][o] = made[o]
               /\ \A o \in objects \cup {goal} : \A f \in DOMAIN made[o] \cap DOMAIN stamp :
                    made[o][f] = stamp[f]
               /\ own = {s.src_path : s \in Projects[build].src \ Mains(Projects[build])} \cup
                        (IF goal[1] = "run" THEN {} ELSE {<<"src", goal[2]>>})


\* The calls of the scripts and of README.md:119-169, with what they mean.
cnfGiven == Given("cnf", File)
DocumentedRight ==
  /\ SplitterMain(<<cnfGiven>>).call["nb"] = Number(2)                     \* compile_formula.sh:3
  /\ SplitterMain(<<cnfGiven, Given("nb", Number(4))>>).call["nb"] = Number(4)
  /\ ProjectionMain(<<cnfGiven>>).call["timeout"] = Number(3600)           \* compile_formula.sh:6
  /\ LET call == AppmcMain(<<Given("alpha", Decimal(1)), Given("lnb", Number(20)),
                             Given("epsilon", Decimal(110)), Given("nb", Number(10000)), cnfGiven>>).call
     IN call["lnb"] = Number(20) /\ call["nb"] = Number(10000)            \* results/gen.sh:73
  /\ AppmcMain(<<cnfGiven>>).call["lnb"] = Number(0)
  /\ LET call == SamplerMain(<<cnfGiven, Given("k", Number(50)), Given("nb", Number(10))>>).call
     IN call["k"] = Number(50) /\ call["nb"] = Number(10)

\* The words of a command line mean the same in any order, and a program that sets to
\* work has its file and a number wherever it asks for one: none starts with an
\* option missing (rhsampler.cpp:204), whatever is written and left out.
Swapped(words, m, n) == [words EXCEPT ![m] = words[n], ![n] = words[m]]
Orderly(words, MainOf(_), options) ==
  LET call == MainOf(words).call IN
  /\ \A m, n \in DOMAIN words : MainOf(Swapped(words, m, n)) = MainOf(words)
  /\ call # <<>> =>
       \A name \in DOMAIN options :
         options[name].type # "flag" => /\ name \in DOMAIN call
                                        /\ Fits(options[name].type, call[name])
OptionsRight(words) ==
  /\ Orderly(words, ProjectionMain, projection_options)
  /\ Orderly(words, SplitterMain, splitter_options)
  /\ Orderly(words, SamplerMain, sampler_options)
  /\ Orderly(words, RsamplerMain, rsampler_options)
  /\ Orderly(words, RhsamplerMain, rhsampler_options)
  /\ Orderly(words, AppmcMain, appmc_options)
  /\ words = <<>> => DocumentedRight

=============================================================================
