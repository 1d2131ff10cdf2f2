# A verification project for piltools

`pilverify` reads a PIL program (polynomial expressions and identities over columns of `n` rows),
the columns of constants and commitments, evaluates every expression at every row with several
threads, and checks the identities: polynomial identities, plookups, permutations and connections.
`pilserver` evaluates in the same way and answers queries over the columns. This directory holds
TLA+ models of that program, the TLC runs that check them on small instances, and proofs, checked
by TLAPS, of the properties that matter most for any size.

The reference is the code under `src/`, at the lines `PROJECT.json` ("map") names for each
definition.

## 1. The system

| component | state | operations | interacts with |
|---|---|---|---|
| **Compile** (`expressions.cpp`, `expression.cpp`, `dependencies.cpp`, `operation*.cpp`) | the array of `Expression`s, the list of dependencies of each, the global order `Expressions::dependencies` | `loadAndCompile`, `compileExpression` (recursive), `Expression::compile` and `recursiveCompile`, `Dependencies::add` and `merge` | fills what all the others read |
| **Operations** (`expression.cpp`) | the vector `operations` of an expression, with a result in each | `recursiveCompile` (a tree to a vector), `eval` (one row, back to front) | its leaves read columns and other expressions |
| **Reduce** (`expressions.cpp:59-95`) | the operands of all expressions | `reduceAliasExpressions`, `replaceOperationValue` | rewrites operands after the order is made and before groups are |
| **Groups** (`expressions.cpp:372-458`) | `groupId` of each expression, `cpuGroups` of each thread | `resetGroups`, `recursiveSetGroup`, `mergeGroup`, `calculateGroup` | reads the dependencies, decides which thread evaluates what |
| **Evaluate** (`expressions.cpp:266-347`, `147-192`, `engine.cpp:648-677`) | the table `evaluations`, the flags `evaluated` and `isZero`, the progress counter | `evalAll` with its threads, `expandAlias`, `afterEvaluationsLoaded`, `getEvaluation`, `checkPolIdentities` | shared memory of all threads |
| **Plookups and permutations** (`engine.cpp:415-645`) | a set, or a map with counts, for each identity; the progress counter; a `Cyclic` for each plookup | `prepareT`, `verifyF`, the two lambdas that each check passes to them, `updatePercentF` | a thread for each identity over the evaluated columns |
| **Cyclic** (`cyclic.hpp`) | state, offset, period, last row | `cycle`, `isCyclic` | called by `prepareT` for each selected row |
| **Connections** (`connection_map.cpp`, `engine.cpp:335-401`) | a hash table with open addressing from a field element to its cell | `generate`, `get`, `hash`, `checkConnectionIdentities` | threads over chunks of rows |
| **Session** (`engine.cpp:78-188`, `679-763`, `verify.cpp`) | the file of evaluations, mapped and shared | options `-s`, `-l`, `-o`, `-V`, `-j`; `mapFile`, `verifyExpressionsWithFile`, `unmapAll` | later runs, of any program, read what earlier ones left |
| **Service, Server** (`service.cpp`, `server.cpp`) | a cursor for each query, on the stack of the thread that answers it | `query` with patterns, trigger, filter, before and count; `pols`, `namespaces` | reads the columns through References, which its threads share without a lock |
| **References, Publics** (`reference*.cpp`, `public.*`, `engine.cpp:128-160`, `243-325`) | a map from an id to a column, a pointer to the mapped file | `add`, `get`, `getEvaluation`, `getDirectReference`, `loadReferences`, `loadPublics` | everything that reads a column by name |
| **Interactive** (`interactive.cpp`) | the current row, a list of names | print, set, find, list | reads the columns |
| **Block, Tools** | chronometers | progress bar, sizes | output only |

What is hard here, and what makes each part right:

* *Order.* Evaluation walks one global order and reads other expressions by their stored values.
  The order is made by a recursion that a flag cuts short; each expression must come once, and
  after what it reads.
* *Threads without locks.* The evaluation takes no lock. It is right only if groups are closed
  under reading, each group has one thread, and the aliases wait for all threads.
* *Stale plans.* The reduction changes operands after the order was computed, and groups are
  computed from the dependencies as they were before it.
* *Stale values.* An alias is stored as zero until the end. `operations` keeps the results of the
  row before. The new array is not initialised. A file that is overwritten keeps its old contents.
* *Early stops, chunks, counters.* The checks of plookups and permutations stop at the first failure in the middle of
  chunks; rows and progress must still add up, and the remainder of the division into chunks must
  go somewhere.
* *Kills.* The evaluations are written straight into the mapped file.
* *Files of another shape.* Nothing in the file says which program it is of; it is loaded, cut, grown and
  compared as bytes, in one of two layouts.
* *Unsigned cursors.* A query moves its row back below zero, and then must still end and read no row
  that there is not.
* *A read that writes.* Looking up an element that does not exist changes the map whose size is the
  stride of all columns, under the other threads.

`PROJECT.json` ("hazards") lists these with their lines, and the properties that would see them go
wrong.

## 2. Modules

```
Program ── Columns ─┬─ Reduce ────┐
   │                ├─ Evaluate ──┤            Cyclic ── Lookups     Connections
   │                └─ Verifier ◁─┤            Operations            Session
   ├─ Compile ────────────────────┼─ Pipeline
   └─ Groups ─────────────────────┘            References ── Query ─▷ Browse
```

A line is `EXTENDS` or `INSTANCE`, an arrow leads to the abstract specification that a module
implements.

`Pipeline` composes `Compile`, `Reduce`, `Groups` and `Evaluate` by `INSTANCE` over shared
variables: these are the components that work on the same `Expressions` object. An `MC` module
extends one specification and defines its programs, columns and inputs; the `.cfg` files give the
constants their values. `X_proofs` has the theorems about `X`; those about `Session`
are in `Pipeline_proofs`, those about `References` in `Query_proofs`, and those about `Operations` in the second half of
`Lookups_proofs`. Operators that a comment calls
"a seeded fault of A" are forms of `A` with a bug that a programmer could make; they are in no
specification, and serve to show that a property fails when the code is wrong in that way.

| module | what it models |
|---|---|
| `Program` | an expression is an alias flag and the sequence of its leaf operands (`CM`, `NUMBER` or `EXP`, an id, `next`). `CM` stands for constants too, `NUMBER` for publics. |
| `Columns` | the values of columns and scalars, and `OperationValue::eval` of an operand at a row. |
| `Compile` | `CompileNext` is the loop of `loadAndCompile`; `ReadOperand`, `EndCompile` are `Expression::compile`; `VisitDependency`, `MergeDependency`, `Return` are the rest of `compileExpression`. The C++ call stack is the variable `calls`. |
| `Operations` | `CompileOperation`, `CompileLeaf`, `Return` are `recursiveCompile`, with its call stack in `frames`; `EvalOperation`, `EndRow` are `eval`, in the integers modulo `Prime`. A node is a record with an operation and its values, and `Height` says that the JSON is a tree. `TreeValue` and `Leaves` are the reference: recursive functions on the nodes. It is the reason why the other modules may take an expression as its leaves and an operator `Op`. |
| `Reduce` | `PickAlias`, `FollowChain`, `Replace` are the loop of `reduceAliasExpressions`. `ReplaceOperand` changes type and id, and not `next`, as the code does. |
| `Groups` | `CallRoot`, `MergeDependency`, `DescendDependency`, `SetGroup` are the recursion; `SortGroups`, `AssignGroup`, `SkipFullCpu` deal the groups to the threads. |
| `Evaluate` | `SkipExpression`, `EvalRow`, `EndExpression` are a thread of `evalAllCpuGroup`; `JoinEval` is the barrier; `ExpandRow`, `JoinExpand` are `expandAlias`; `Scan`, `JoinScan` are `afterEvaluationsLoaded`; `CheckIdentity`, `Report` are `checkPolIdentities`. `Abort` is the `exit` in `getEvaluation`. The modes are computing, loading, and `-d X`. |
| `Pipeline` | the constructor of `Engine`, from the parsed program to the verdict. `Verdict` and `Promise` map it to `Verifier`. |
| `Verifier` | abstract: one step from a program to a verdict, which depends on the values of the identities alone; the value of an expression is a recursive function. |
| `Lookups` | `PrepareRow`, `JoinT` are `prepareT`; `SkipRow`, `FindRow`, `FailRow`, `EndChunk`, `JoinF` are `verifyF` with the lambda of the kind of identity; `ReportRemaining`, `NoneRemaining` are the end of the check of permutations. Tables are functions from tuples to counts; the set of a plookup is the domain. |
| `Cyclic` | the class as operators on the record of its fields; `PrepareRow` applies `Cycle`. |
| `Connections` | `Collide`, `Insert` are `generate`; `get` is the lookup; `CheckRow`, `Join` are the check. Field elements are numbers of which only equality and the remainder modulo the size of the table count. |
| `Session` | a run of the program goes through `Start`, `Refuse` or one of `MapToSave`, `MapToLoad`, `LoadFault`, `Allocate`, then `Evaluate`, `EndEval`, `FailVerify` or `VerifyFault`, `Finish`; `Kill` may come at any point. The file is a sequence of cells, a value is zero or not; `Sized` is `ftruncate`, `Reach` the end of the last page. The array of a run that saves nothing is not initialised: `Allocate` takes any contents. `Same` is the comparison without its stop at 2000 differences, one of which decides already. `existed` is history, no state of the code: the run found a file when it started. |
| `References` | `LoadReference`, `MapFiles`, `LoadPublic` are the loaders of the constructor; `Added`, `AfterGet`, `Evaluation` are `add`, `get`, `getEvaluation` of the class, with the map as a function and the file as a sequence. |
| `Query` | `Receive`, `SeekTrigger`, `SetupFilter`, `EmitRow`, `EndRows` are `Service::query` and what it calls, a step for each loop or row; `RefuseTrigger`, `RefuseFilter` are the exceptions, `Deliver` the end of a request; `Fault` is a null pointer or a read past a file. Rows count modulo `Word`, and a `before` so large that it wraps by itself, close to 2^64, is left out (`QueryAssumption`). |
| `Browse` | abstract: which answers a query may get, said of the columns (`Right`). It promises nothing once an element beyond an array has been asked for (`Spoil`). |

**Steps.** The threads of `Evaluate` interleave row by row, and a row is one step although
its operations are many. That is sound where a thread reads only columns that no thread is
writing, which is what `NoRace` says, of the same states. In `Lookups` and `Connections` the threads
read columns that no longer change, write state of their own, and meet in critical sections; a
row is one step there too. In `Query` the maps change only in the steps that look an element up,
`SeekTrigger` and `SetupFilter`; these and a row are a step each, so a map changes between two rows of
another thread and not inside one. Two insertions at once, which could break the tree of the map, are not
modelled: `Browse` promises nothing after the first.

**Threads and processes of the server.** `config/server.conf` starts worker processes with a thread each;
the processes are forked, share no memory that anyone writes, and are each a copy of `Query` with one
thread. The models have the case that the configuration also allows, several threads in a process.
The service object is taken to live as long as the server (section 5), and the expressions to have been
evaluated (no `-d X`).

**Order of the work.** The core came first: `Program`, `Compile`, `Reduce`, `Groups`, `Evaluate`
and their composition, then the checks on the columns, then the sessions, then the server; `Verifier`
and `Browse` came last, as what the parts are for.

## 3. What the runs check

| run | what it shows | instance |
|---|---|---|
| `compile` | the recursion ends on every program, cyclic ones too; the order has each expression once (`OrderComplete`), after what it reads if there is no cycle (`Topological`); a program is rejected exactly if some alias is of the next row of an expression (`RejectionExact`) | all 3-expression programs of a column, two expressions, or an alias of this or the next row |
| `reduce` | no operand names an alias at the end (`NoAliasOperand`); every operand keeps its value in every valuation (`ValuesPreserved`) | all acyclic 3-expression programs, chains of aliases in any numbering, 2 rows |
| `reduce_shifted` | *fails*: `OperandsPreserved` when aliases may be the next row of a column (section 5) | as above with shifted aliases |
| `groups` | groups are exactly the connected components (`GroupsClosed`, `GroupsMinimal`), one thread each (`OneCpuEach`), threads idle only when there is nothing to deal (`NoIdleCpu`) | all acyclic graphs of 4 expressions, 2 threads |
| `evaluate` | `NeverAborts`, `NoRace`, `EquationsHold`, `VerdictExact`, `AllCounted`, `FirstRowReported` in every interleaving, with the columns computed, loaded or not evaluated | every sound plan of 3 expressions over 2 threads, 2 rows |
| `pipeline` | the plan made from the old dependencies is sound for the reduced program (`PlanIsSound`); the columns are those of the program as it was read (`ProgramEvaluated`); the engine always comes to a verdict or rejects the program, and to the one that `Verifier` allows (`ImplementsVerifier`) | all acyclic 3-expression programs, 2 threads, 2 rows |
| `operations` | the vector has the value of the tree at every row (`EvaluatesTree`), each operation is used once, by one further to the front (`UsedBefore`), dependencies are the distinct expressions in order (`DependenciesExact`); indices and results stay in range (`OperationsTypeOK`) | 399 trees of heights 1, 2 and 4 over 3 leaves, 2 rows, modulo 3 |
| `lookups` | an identity is reported exactly when it does not hold (`VerdictExact`), with the first row (`FirstFailure`); a permutation that was left early too prints the right counts, and what T has left whenever there is something (`ErrorsCount`); progress reaches 100 % (`ProgressComplete`); the note on the spacing of rows is exact (`CyclicExact`) | 6 rows in chunks of 1, 1, 1 and 3; two identities in parallel; all 64 selectors for `CyclicExact` |
| `lookups_none` | *fails*: `UnselectedMeansColumns` (section 5) | plookups without selectors |
| `connections` | `get` finds each element (`MapComplete`); wired identities are never undefined, and the errors are the cells that differ (`ErrorsExact`) | 4 rows, 2 columns, with the true collisions of those field elements; chunks of 1, 1 and 2 rows |
| `session` | a verdict is true of the program and input whatever was in the file (`VerdictTrue`); a saved file is exact until the next save (`SavedFileIsTrue`); `-V` and `-j` find a difference exactly when there is one (`VerifyExact`); a file that a run finds, complete or left by a kill, is changed only by a run with `-s` and `-o` (`OverwriteNeedsOption`): over any sequence of runs and kills | programs of 1 and 2 expressions, 2 rows, 3 inputs, pages of 3 cells |
| `query` | the answers are those of `Browse` (`ImplementsBrowse`); every query is answered or the process has died (`Answered`); publics have their values (`PublicsExact`); the row never leaves its word, no loop runs past the limit (`TypeOK`) | 4 rows, 4 names with 5 columns, 2 threads, at most 3 rows in an answer, rows modulo 16 |

**Bounds.** Three expressions are enough for a chain, a fork, a join, a chain of two aliases, and
an order that differs from the numbering; four in `groups` allow two components that a third root
merges. Two threads meet in every way that a race needs. Two rows are the least where `next` wraps and
differs from the row itself. Six rows are the least where a periodic selector above row 0 goes on
around the end, and the last chunk has a remainder. 16 and 64 chunks in the code are 4 and 3 here:
both have chunks of the normal size and one with a remainder. The hash table has the size that
`ConnectionMap` computes (64 for 8 elements). In `session` a file of the short program fits in a page
and the long one needs two, so that loads and comparisons meet zeros, a prefix and the signal. In
`query` the limit of 3 rows is less than the 4 there are, two rows before a match at row 0 or 1 wrap, and a word of 16 is
beyond every sum of a row and a limit, as 2^64 is.

**Fairness.** `Compile` and `Pipeline` are checked for termination under weak fairness of the whole next-state
relation: the program does not stop while something can run. Fairness for each thread is not
needed there, because no thread of the program runs for ever while another waits: each step of each
thread uses up a row, an expression or a loop variable. `Query` has weak fairness for `Work(k)` of each
thread: the threads of the server do not wait for each other, so a scheduler that runs each of them
again and again is enough; nothing makes a client take its answer (`Deliver`) or send a request.
`Verifier` has weak fairness of its one step, which is what the fairness of `Pipeline` must implement.
The other specifications have no fairness.

**Deadlock** is checked in every passing run but `query`, where a process that has died, in the constructor or in a
query, does nothing any more. Where a program ends, a named action `Stop` stutters.

## 4. What is proved

All theorems hold for every value of the constants: any number of expressions, rows, threads, chunks and
identities, any programs, trees, columns and operations, any history of runs.

| module | theorems | inductive invariant, and why it is needed |
|---|---|---|
| `Compile_proofs` | `TypeCorrect`, `OrderIsTopological`, `OrderIsComplete`, `RecursionIsGuarded`, `RejectionIsExact` | `BaseInv`: types, the shape of the stack, what has been collected (`DepsOK`), what the order holds (`OrderOK`), no reentry. On top of it, for programs without cycles, `RankInv`: a rank falls along the stack (`Descends`), what a frame has visited is in the order or is the call it waits for (`Visited`), nothing on the stack is in the order (`OffStack`), and the order so far is topological. `AcceptInv`: what has been compiled so far has no alias of the next row of an expression. |
| `Reduce_proofs` | `TypeCorrect`, `AliasesAreUnread`, `ReductionPreservesValues` | `TreatedUnread`: the aliases that the loop has treated are read by nobody. `ValueInv`, for programs without a shifted alias: operands keep their value (`OperandsPreserved`), and the end of the current chain has the value of its start (`ChainPreserved`), in every consistent valuation. `ReachInv`, `BackInv`: what is read after the reduction was reachable before, and back. |
| `Groups_proofs` | `TypeCorrect`, `GroupsAreClosed`, `GroupsAreMinimal`, `EachHasOneCpu`, `NoCpuIsIdle` | `SetInv`: outside the call stack a group is closed under dependencies, and every member is connected to the root. `DealInv`: what has been dealt is a prefix of the sorted list, spread over the threads without repetition. |
| `Evaluate_proofs` | `TypeCorrect`, `EvaluationNeverAborts`, `ThreadsDoNotRace`, `ColumnsSatisfyEquations`, `AllAreCounted`, `VerdictIsExact`, `ReportedRowIsFirst` | `EvalInv`: an expression is evaluated exactly if the thread that owns it has passed it, rows already written satisfy their equation, an expression that is read is complete, the counter is the number of the complete ones. `VerdictInv`: the rows scanned so far have been judged as the verdict says. |
| `Pipeline_proofs` | `PlansAreSound`, `ProgramIsEvaluated`, `VerdictIsDetermined` | `PipelineInv`: the invariant of the component that is at work, and what the finished ones have left. |
| `Pipeline_proofs`, last part | `SessionTypeOK`, `SavedFilesAreTrue`, `VerdictsAreTrue`, `ComparisonsAreExact`, `ExistingFilesAreKept` | about `Session`, which the module extends too (its names, as `SessionSpec`, are chosen for that). `SessionInv`: what is in the file, in the mapping and in the array of the running process, cell by cell, at each step of a run. `ExistedInv`: a run that saves and is past its refusal found no file, or has `-o`. |
| `Lookups_proofs` | `VerdictIsExact`, `FirstFailureIsExact`, `ErrorsAreCounted`, `ProgressIsComplete`, `NotesAreExact` | `LookupInv`: the count of a tuple is what the T side has of it, less what the F side has used up (`TableOK`), tuples passed have been found (`FoundOK`), the errors are those of the identities that stopped and of tuples left over, one for each identity that has any (`ErrorsOK`), the progress is the number of the rows of the chunks that ended (`DoneOK`). `CyclicOK`: what each state of a `Cyclic` says of the rows it was told (`Knows`). |
| `Lookups_proofs`, second half | `OperationsTypeCorrect`, `OperationsUsedBefore`, `OperationsEvaluatesTree`, `OperationsDependenciesExact`, `OperationsOfLeaves` | about `Operations`, which the module extends too, with names of its own. `PlaceInv`: there is a node of the tree for each operation (`Placed`); the values of an operation are those of its node, and one that is an operation is further back, but for those that the calls on the stack have not come to, which are unset (`Unfilled`); what the loop has passed has its value at this row (`Computed`). `DependInv`: the leaves compiled so far and those that the stack has yet to come to (`Rest`) are together the leaves of the tree, and the dependencies are right for the first (`Found`). |
| `Connections_proofs` | `TypeCorrect`, `MapIsComplete`, `ErrorsAreExact` | `TableInv`: every element inserted so far is reached from its own key with no free key on the way, by a probe whose number is at most its place in the order of insertion (`Placed`); what is in the table is one of them, with its own cell (`Sound`); no two are equal (`Distinct`); the probe being made has met other elements only (`Probing`). `CheckInv`: the errors are the broken cells of the rows checked so far (`ErrorsSoFar`). |
| `Query_proofs` | `PublicsAreExact`, `QueryTypeOK`, `QueryImplementsBrowse` | `LoadInv`: what each stage of the constructor has loaded; once it is done, the maps are the loaded ones and null entries (`Extends`). `WorkersInv`: for each thread, what its step has made of its request, its columns and its rows. `ExactInv`, as long as the maps are as loaded and no request of the thread is beyond an array: its row is the start row that `Browse` means, and then the rows so far are true, and without rows before a match of the filter ascend and are the wanted ones below its row, with none left out (`RowsInv`). |

**The argument of the pipeline.** Each step of `Pipeline` is a step of one component, whose invariant its own module
proves; `Pipeline_proofs` takes those modules by `INSTANCE` and carries to the next stage what a finished component
guarantees: the order is topological and complete, the reduced operands have the same values and read
nothing that was not reachable, groups are closed under the *old* dependencies. From these, a plan made before the
reduction is sound after it (`PlansAreSound`), so that `Evaluate_proofs` applies; the columns satisfy their equations;
and equations of an acyclic program have one solution, by the expression of lowest rank where two could differ
(`OneValuation`), so that the columns are those of the program as it was parsed (`ProgramIsEvaluated`).
`VerdictIsDetermined` is the refinement of `Verifier` without its fairness: `Spec` implies `Promise!Init` and
`[][Promise!Decide]_(Promise!vars)`.

**The argument of the server.** `QueryImplementsBrowse` is the whole of `ImplementsBrowse`, as `Browse` promises no
progress. The columns that the two loops of `filterPols` collect are those that some pattern matches, in the order of
their first pattern and then of the listing: the loops are a recursive function over their turns (`Included`), of which
an induction over the natural numbers (`Induction`, from the well-founded order of the library) gives what is collected after each turn
(`IncludedInv`), and the turn where a column is first found orders the columns as `Browse` does (`TitlesFacts`). A search by rows finds the next row that is wanted
(`NextCandidate`). The maps are shared: a lookup within the arrays leaves them as they are, and one beyond is never
undone by another (`StepIntact`), so that a thread whose answer is promised has met only the loaded maps, whatever the
other threads asked. Each step is then a question, an answer, the end of the promise, a delivery, or a stutter of
`Browse` (`PromiseStep`).

**The argument of the vector.** `OperationsEvaluatesTree` needs `TreeValue` to be the function that its recursive definition describes.
The library proves such things only with operators as parameters, so `NodeRecursion` does it here for functions on the nodes: the approximations that
are right up to a height agree, and together are the function. It is used for the values and for the leaves. `NodeInduction`
is the induction over a tree, from the least height of a counterexample. `OperationsOfLeaves` is what the rest takes
from it: an expression is an operator on the values of its leaves.

**Assumptions.** Those of the modules, which say what the constants are (`CountAssumption`,
`ProgramsAssumption`, `ColumnsAssumption`, `GroupsAssumption`, `EvaluateAssumption`, `PipelineAssumption`,
`LookupsAssumption`, `SessionAssumption`, `ReferencesAssumption`, `QueryAssumption`, `ConnectionsAssumption`, `ReduceAssumption`, `OperationsAssumption`), each evaluated by TLC on every run of its module. One of them
is more: `PlansAssumption` in `Evaluate`, that the plan is sound, which `Pipeline_proofs` proves of the plans that
the engine makes.

`MapIsComplete` and `ErrorsAreExact` have a hypothesis of their own, `Scattered`: some element has its key outside the
run of N * Nk keys that starts at the key of the last element. Without it the last element may be the one that `get` does
not reach (section 5). It says less than that there are no collisions, as it allows any number of them short of the whole
table in one run; TLC evaluates it on the elements of the run (`ScatteredAssumption`). `TypeCorrect` does
not need it.

**Only checked by TLC.**
* Termination of `Compile`, the liveness half of `ImplementsVerifier`, and `Answered`: liveness and fairness are out of the
  prover's reach.

## 5. Where the code does not do what it says

* **A shifted alias loses its shift** (`reduce_shifted`, `expression.cpp:207`).
  `replaceOperationValue` copies type and value of the alias into the operand and leaves the
  operand's own `next`. If the alias is the next row of a column, an expression that reads it is
  evaluated with the row itself. The theorem `ReductionPreservesValues` and `ProgramEvaluated` are
  therefore about programs without such aliases (`NoShiftedAlias`).
* **A missing selector is not neutral** (`lookups_none`, `engine.cpp:553`, `586`). The value of
  expression 0 at the row becomes part of the tuple, so that an identity whose columns agree may
  fail, and one whose columns agree in other rows too. `VerdictExact` is therefore about identities with
  both selectors, or a program whose expression 0 is the constant 1.

More that the properties are worded around:

* `Cyclic` takes row 0 for "no row yet", so the note on a selector that starts there has another offset, or
  is missing (`cyclic.hpp:30`). `CyclicExact` is about the rows above 0.
* `ConnectionMap::get` looks at one key fewer than there are elements: it counts from 1 and goes on while `cost < count`
  (`connection_map.cpp:139`). It matters only when all the elements collide, as the powers of the root of order 8 do in
  a map of one column, where the last of them is in the table and is not found. The run has two columns of four rows,
  where that does not happen; `MapIsComplete` has the hypothesis `Scattered` for it.
* With `-d X` nothing is evaluated, `isZero` has its initial value, and "verified, no errors found ... [OK]" is
  printed (`expression.cpp:18`, `engine.cpp:56`). It is what the user asked for; `VerdictExact` is about the other modes.
* A file of evaluations left by a run that was killed, or by another program, is loaded without complaint
  (`engine.cpp:172`, `173`): a shorter one reads as zeros up to the end of its page, and further as a signal.
  `VerdictTrue` is about loads of a finished file of the same program.
* An intermediate public that the publics file does not give is read before there is an evaluator
  (`engine.cpp:316`), through a pointer that nobody has set: `LoadPublic` takes any value, `PublicFault` the end.
* An index beyond an array is not compared with its length (`engine.cpp:142`): it names the next columns, or
  inserts a null entry in the map, after which all columns of the type are read with a wrong stride, and
  the thread that evaluates the entry ends the process (`references.cpp:34`).
* `skip` does nothing (`service.cpp:109`): the loop stays at the match it has found; a negative one leaves the search out.
* A filter with rows before a match shows rows again and again, until the limit (`service.cpp:168`: the next row
  that is computed there is not read). A trigger without a match shows the last `before` rows. Where the
  subtraction goes below row 0 the answer has no rows.
* An answer without rows has `null` for its values (`service.cpp:195`); the viewer takes their length.
* A pattern of a name is a regular expression, in which the brackets of `name[1]` are a class of characters; a pattern is
  the set of columns that it matches, in `Query`.
* `server.cpp:298` makes a temporary `Service`, and its handlers keep a pointer to it. `Query` takes one that lives.

## 6. What is not modelled

* `Server`: a reader of options and of a configuration, with no state of its own once it runs. `Interactive`: one
  thread at a prompt, with one row variable; what it does to a column is what `Query` does.
* The exports of a query to CSV and TXT, the lists of `pols` and `namespaces`: other forms of the same rows and names.
* `Block`, `Tools`, the html viewer, build files: output and formatting.
* The parsing of the PIL file and the mapping of the files that are only read: the models start from what was read
  (`References` from the names and the columns). Programs
  with cycles are accepted by the compile and make `recursiveSetGroup` recurse without end
  (`expressions.cpp:396`); the PIL compiler does not emit them, and all modules but `Compile`
  and the proofs of `Reduce` take programs without.
* The arithmetic of the field and the roots of unity are libraries: `Op` and `Element` are
  constants.
* Two processes on one file at the same time. Two threads inside one insertion in a map.

## 7. What could follow

`Pipeline` preceded by the loaders of `References` and followed by `Lookups` and `Connections`, in the order of the
constructor.
