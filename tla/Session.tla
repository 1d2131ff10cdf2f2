------------------------------ MODULE Session ------------------------------
(***************************************************************************)
(* Runs of the verifier, one after the other, that share the expressions   *)
(* file: -s saves the evaluations to it, by evaluating into a shared       *)
(* mapping of the file, -l loads them instead of evaluating, -o allows to  *)
(* overwrite it, -j compares what was evaluated with it, and -V with a     *)
(* dump that another program has written.  The PIL program and the         *)
(* commitment may change from run to run; any run may be killed.  (What a  *)
(* single run does with its threads is module Evaluate; here an expression *)
(* is evaluated in one step.)  Its names are not those of Pipeline, whose  *)
(* proofs are in one module with the proofs about this one.                *)
(***************************************************************************)
EXTENDS Naturals, Sequences

CONSTANTS
  RunPrograms,  \* the PIL programs
  Counts,       \* Counts[p]: the number of expressions of p, all identities
  Length,       \* number of rows, of all the programs
  Inputs,       \* the commitment files that exist
  Truth,        \* Truth[p][i]: the evaluations of p on i, in the order of Cell
  Page,         \* the cells in a page of memory
  NoFile

Cells == UNION { [1 .. Length * Counts[p] -> 0 .. 1] : p \in RunPrograms }

ASSUME SessionAssumption ==
  /\ Length \in Nat \ {0} /\ Page \in Nat \ {0}
  /\ Counts \in [RunPrograms -> Nat \ {0}]
  /\ \A p \in RunPrograms, i \in Inputs : Truth[p][i] \in [1 .. Length * Counts[p] -> 0 .. 1]
  /\ NoFile \notin Cells

Options == [load : BOOLEAN, save : BOOLEAN, overwrite : BOOLEAN,
            verify : {"none", "omegas", "pols"}]

VARIABLES
  file,            \* the expressions file: NoFile, or what it holds
  dump,            \* the input whose evaluations the -V file holds, by omegas
  runPc,           \* where the current run is; "off" between runs
  options,         \* its EngineOptions
  runProgram,      \* its PIL program
  input,           \* its commitment file
  existed,         \* history: there was a file when it was started
  runEvaluations,  \* Expressions::evaluations
  todo,            \* the expressions that are not evaluated yet
  verdict,         \* what the last run has printed
  saved            \* history: [program, input, complete] of the last run that saved

run == <<runPc, options, runProgram, input, existed>>
sessionVars == <<file, dump, run, runEvaluations, todo, verdict, saved>>

RunIds == 0 .. Counts[runProgram] - 1
RunRows == 0 .. Length - 1
Size == Length * Counts[runProgram]

\* evaluations[n * id + w], the first cell being 1.
Cell(x, w) == 1 + Length * x + w

(***************************************************************************)
(* The memory of a mapping of `data`: up to the end of its last page there *)
(* are zeros, beyond it a read is a signal that ends the program.          *)
(***************************************************************************)
Reach(data) == Page * ((Len(data) + Page - 1) \div Page)
At(data, c) == IF c <= Len(data) THEN data[c] ELSE 0

\* A seeded fault of Sized: what is longer is not cut.
SizedGrow(data) == IF Len(data) > Size THEN data ELSE [c \in 1 .. Size |-> At(data, c)]

(***************************************************************************)
(* mapFile with wr: the file is created, or given the size of the program, *)
(* with zeros where it grows.                                              *)
(***************************************************************************)
Sized(data) == [c \in 1 .. Size |-> At(data, c)]

SessionInit ==
  /\ file = NoFile
  /\ dump \in Inputs
  /\ runPc = "off"
  /\ options = [load |-> FALSE, save |-> FALSE, overwrite |-> FALSE, verify |-> "none"]
  /\ runProgram \in RunPrograms /\ input \in Inputs /\ existed = FALSE
  /\ runEvaluations = Sized(<<>>)
  /\ todo = {}
  /\ verdict = "none"
  /\ saved = [program |-> runProgram, input |-> input, complete |-> FALSE]
-----------------------------------------------------------------------------
\* A seeded fault of Accepted: -l and -s exclude each other no more.
AcceptedBoth(o) == o.load => file # NoFile

(***************************************************************************)
(* checkOptions: a run with other options exits before it does anything.   *)
(***************************************************************************)
Accepted(o) == ~(o.load /\ o.save) /\ (o.load => file # NoFile)

Start(o, p, i) ==
  /\ runPc = "off" /\ Accepted(o)
  /\ options' = o /\ runProgram' = p /\ input' = i
  /\ existed' = (file # NoFile)
  /\ runPc' = "map"
  /\ verdict' = "none"
  /\ runEvaluations' = <<>> /\ todo' = {}
  /\ UNCHANGED <<file, dump, saved>>

\* A seeded fault of Refused: the test for the file is the wrong way round.
RefusedIfNew == options.save /\ ~options.overwrite /\ file = NoFile

(***************************************************************************)
(* calculateAllExpressions: an existing file is not overwritten without    *)
(* the option.                                                             *)
(***************************************************************************)
Refused == options.save /\ ~options.overwrite /\ file # NoFile

Leave == runPc' = "off" /\ UNCHANGED <<dump, options, runProgram, input, existed, runEvaluations, todo>>

Refuse ==
  /\ runPc = "map" /\ Refused
  /\ Leave /\ UNCHANGED <<file, verdict, saved>>

Saving == [program |-> runProgram, input |-> input, complete |-> FALSE]

\* A seeded fault of MapToSave: what the file has is not evaluated again.
MapToResume ==
  /\ runPc = "map" /\ options.save /\ ~Refused
  /\ file' = Sized(IF file = NoFile THEN <<>> ELSE file)
  /\ runEvaluations' = file'
  /\ todo' = { x \in RunIds : file = NoFile \/ Cell(x, 0) > Len(file) }
  /\ saved' = Saving
  /\ runPc' = "eval"
  /\ UNCHANGED <<dump, options, runProgram, input, existed, verdict>>

MapToSave ==
  /\ runPc = "map" /\ options.save /\ ~Refused
  /\ file' = Sized(IF file = NoFile THEN <<>> ELSE file)
  /\ runEvaluations' = file'
  /\ todo' = RunIds
  /\ saved' = Saving
  /\ runPc' = "eval"
  /\ UNCHANGED <<dump, options, runProgram, input, existed, verdict>>

(***************************************************************************)
(* afterEvaluationsLoaded reads each expression up to its first row that   *)
(* is not zero.  The size of the file is not looked at.                    *)
(***************************************************************************)
Read(x, w) == \A v \in 0 .. w - 1 : At(file, Cell(x, v)) = 0
TooShort == \E x \in RunIds, w \in RunRows : Read(x, w) /\ Cell(x, w) > Reach(file)

MapToLoad ==
  /\ runPc = "map" /\ options.load /\ ~TooShort
  /\ runEvaluations' = Sized(file)
  /\ runPc' = "check"
  /\ UNCHANGED <<file, dump, options, runProgram, input, existed, todo, verdict, saved>>

LoadFault ==
  /\ runPc = "map" /\ options.load /\ TooShort
  /\ Leave /\ UNCHANGED <<file, verdict, saved>>

(***************************************************************************)
(* Otherwise a new array, not initialised: it has any values.              *)
(***************************************************************************)
Allocate ==
  /\ runPc = "map" /\ ~options.save /\ ~options.load
  /\ runEvaluations' \in [1 .. Size -> 0 .. 1]
  /\ todo' = RunIds
  /\ runPc' = "eval"
  /\ UNCHANGED <<file, dump, options, runProgram, input, existed, verdict, saved>>

(***************************************************************************)
(* evalAll, one expression: into the file if that is mapped.               *)
(***************************************************************************)
Evaluate(x) ==
  /\ runPc = "eval" /\ x \in todo
  /\ runEvaluations' =
       [c \in DOMAIN runEvaluations |->
          IF \E w \in RunRows : c = Cell(x, w) THEN Truth[runProgram][input][c] ELSE runEvaluations[c]]
  /\ file' = IF options.save THEN runEvaluations' ELSE file
  /\ todo' = todo \ {x}
  /\ UNCHANGED <<dump, run, verdict, saved>>
-----------------------------------------------------------------------------
\* A seeded fault of Offset: one layout for both options.
OffsetByPols(x, w) == 1 + x * Length + w

(***************************************************************************)
(* verifyExpressionsWithFile: the file is mapped as long as it is, and     *)
(* read at the place of each cell in the layout that the option says.      *)
(***************************************************************************)
Offset(x, w) == 1 + (IF options.verify = "omegas" THEN x + Counts[runProgram] * w ELSE x * Length + w)

\* The dump of p by omegas: all the expressions at row 0, then at row 1, ...
ByOmegas(p, i) ==
  [c \in 1 .. Length * Counts[p] |->
     Truth[p][i][Cell((c - 1) % Counts[p], (c - 1) \div Counts[p])]]

VerifyFile == IF options.verify = "omegas" THEN ByOmegas(runProgram, dump) ELSE file

\* A -j file that is not there cannot be mapped: an exception ends the run.
Unverifiable == IF VerifyFile = NoFile THEN TRUE ELSE Reach(VerifyFile) < Size

(***************************************************************************)
(* The comparison goes on to the end, or to 2000 differences, where one is *)
(* enough to fail.                                                         *)
(***************************************************************************)
Same ==
  \A x \in RunIds, w \in RunRows : runEvaluations[Cell(x, w)] = At(VerifyFile, Offset(x, w))

EndEval ==
  /\ runPc = "eval" /\ todo = {}
  /\ options.verify # "none" => ~Unverifiable /\ Same
  /\ runPc' = "check"
  /\ UNCHANGED <<file, dump, options, runProgram, input, existed, runEvaluations, todo, verdict, saved>>

VerifyFault ==
  /\ runPc = "eval" /\ todo = {}
  /\ options.verify # "none" /\ Unverifiable
  /\ Leave /\ UNCHANGED <<file, verdict, saved>>

FailVerify ==
  /\ runPc = "eval" /\ todo = {}
  /\ options.verify # "none" /\ ~Unverifiable /\ ~Same
  /\ verdict' = "differs"
  /\ Leave /\ UNCHANGED <<file, saved>>

(***************************************************************************)
(* afterEvaluationsLoaded and checkPolIdentities, then the destructor of   *)
(* the engine writes the mapping back.                                     *)
(***************************************************************************)
Outcome(data) == IF \A c \in DOMAIN data : data[c] = 0 THEN "OK" ELSE "FAIL"

Finish ==
  /\ runPc = "check"
  /\ verdict' = Outcome(runEvaluations)
  /\ saved' = IF options.save THEN [saved EXCEPT !.complete = TRUE] ELSE saved
  /\ Leave /\ UNCHANGED file

(***************************************************************************)
(* The process is killed; the pages that it wrote are in the file.         *)
(***************************************************************************)
Kill ==
  /\ runPc # "off"
  /\ Leave /\ UNCHANGED <<file, verdict, saved>>

Engine ==
  \/ Refuse \/ MapToSave \/ MapToLoad \/ LoadFault \/ Allocate
  \/ (\E x \in RunIds : Evaluate(x))
  \/ EndEval \/ VerifyFault \/ FailVerify \/ Finish

SessionNext == (\E o \in Options, p \in RunPrograms, i \in Inputs : Start(o, p, i)) \/ Engine \/ Kill

SessionSpec == SessionInit /\ [][SessionNext]_sessionVars
-----------------------------------------------------------------------------
TypeOK ==
  /\ file \in Cells \cup {NoFile}
  /\ dump \in Inputs
  /\ runPc \in {"off", "map", "eval", "check"}
  /\ options \in Options /\ ~(options.load /\ options.save)
  /\ runProgram \in RunPrograms /\ input \in Inputs /\ existed \in BOOLEAN
  /\ runEvaluations \in Cells \cup {<<>>}
  /\ runPc \in {"eval", "check"} => Len(runEvaluations) = Size
  /\ todo \subseteq RunIds
  /\ verdict \in {"none", "OK", "FAIL", "differs"}
  /\ saved \in [program : RunPrograms, input : Inputs, complete : BOOLEAN]

(***************************************************************************)
(* A run that evaluates prints the verdict of its program on its input,    *)
(* whatever is in the file that it maps, or in the memory that it gets;    *)
(* and so does a run that loads a file which a run of the same program on  *)
(* the same input has finished, whatever programs have used it before.     *)
(***************************************************************************)
VerdictTrue ==
  /\ verdict \in {"OK", "FAIL"}
  /\ options.load => saved = [program |-> runProgram, input |-> input, complete |-> TRUE]
  => verdict = Outcome(Truth[runProgram][input])

(***************************************************************************)
(* A saved file is what the run that saved it has evaluated, no more and   *)
(* no less, until another run saves: runs that load, fail or are killed    *)
(* leave it alone, and nothing remains of a longer one.                    *)
(***************************************************************************)
SavedFileIsTrue == saved.complete => file = Truth[saved.program][saved.input]

(***************************************************************************)
(* The comparison tells two inputs apart exactly when the program does:    *)
(* a dump by omegas with -V, a file that was saved by a finished run of    *)
(* the same program with -j.  A run that stops at it has a difference, one *)
(* that goes on has none.                                                  *)
(***************************************************************************)
Compared == IF options.verify = "omegas" THEN dump ELSE saved.input

VerifyExact ==
  /\ verdict # "none" /\ ~options.load
  /\ \/ options.verify = "omegas"
     \/ options.verify = "pols" /\ saved.complete /\ saved.program = runProgram
  => (verdict = "differs" <=> Truth[runProgram][input] # Truth[runProgram][Compared])

(***************************************************************************)
(* -o is for writing over a file: a run changes the file only if it was    *)
(* told to save and, when a file was there at its start, to overwrite it,  *)
(* whichever run of whichever program left that file, finished or killed,  *)
(* and whatever the options and the end of this one.                       *)
(***************************************************************************)
OverwriteNeedsOption ==
  [][file' # file => options.save /\ (existed => options.overwrite)]_sessionVars
=============================================================================
