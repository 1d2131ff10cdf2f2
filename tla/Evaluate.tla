------------------------------ MODULE Evaluate ------------------------------
(***************************************************************************)
(* Engine::calculateAllExpressions and checkPolIdentities: the expressions *)
(* are evaluated by one thread per cpu, each walking the whole order and   *)
(* evaluating the expressions of its own groups; then the aliases are      *)
(* expanded in parallel, the columns are scanned for non-zero rows in      *)
(* parallel, and the identities are checked against the result.            *)
(*                                                                         *)
(* The columns may instead come from a file ("load"), and the calculation  *)
(* can be switched off altogether ("skip").                                *)
(***************************************************************************)
EXTENDS Columns, FiniteSets

CONSTANTS
  Cpus,         \* number of threads
  Plans,        \* what compiling, reducing and grouping hand over
  Modes,        \* subset of {"compute", "load", "skip"}
  Contents,     \* what the evaluations may hold before: the new array, or a file
  Zero,         \* the field element 0
  Op(_, _),     \* Op(x, args): the operations of expression x on operand values
  Identities    \* pil["polIdentities"]: a sequence of expression ids

CpuIds == 0 .. Cpus - 1

ASSUME EvaluateAssumption ==
  /\ Cpus \in Nat \ {0}
  /\ Modes \subseteq {"compute", "load", "skip"}
  /\ \A e \in Contents : e = [x \in Ids |-> [w \in Rows |-> e[x][w]]]
  /\ Identities \in Seq(Ids)

VARIABLES
  exprs,            \* the reduced expressions           \
  order,            \* Expressions::dependencies          | constant
  group,            \* Expression::groupId                | from here on
  cpuGroups,        \* Expressions::cpuGroups            /
  mode,             \* the options: compute, load or skip
  phase,            \* the parallel region that is running
  evaluations,      \* Expressions::evaluations
  evaluated,        \* Expression::evaluated
  isZero,           \* Expression::isZero
  firstNonZero,     \* Expression::firstNonZeroEvaluation
  evaluationsDone,  \* Expressions::evaluationsDone
  pos,              \* pos[c]: the loop variable idep of thread c
  row,              \* row[x]: the rows of x that the current loop has written
  scanned,          \* the expressions that afterEvaluationsLoaded has done
  index,            \* the loop variable of checkPolIdentities
  errorCount,       \* its count of failed identities
  outcome           \* "running", "aborted" by exit(1), or the printed verdict

plan == <<exprs, order, group, cpuGroups, mode>>
data == <<evaluations, evaluated, isZero, firstNonZero, evaluationsDone>>
control == <<phase, pos, row, scanned, index, errorCount, outcome>>
vars == <<plan, data, control>>

(***************************************************************************)
(* The state before calculateAllExpressions, but for the plan.             *)
(***************************************************************************)
Start ==
  /\ mode \in Modes
  /\ phase = CASE mode = "compute" -> "eval" [] mode = "load" -> "scan" [] mode = "skip" -> "check"
  /\ evaluations \in Contents
  /\ evaluated = [x \in Ids |-> FALSE]
  /\ isZero = [x \in Ids |-> TRUE]
  /\ firstNonZero = [x \in Ids |-> 0]
  /\ evaluationsDone = 0
  /\ pos = [c \in CpuIds |-> 1]
  /\ row = [x \in Ids |-> 0]
  /\ scanned = {}
  /\ index = 1
  /\ errorCount = 0
  /\ outcome = "running"

Init ==
  /\ \E p \in Plans : /\ exprs = p.exprs
                      /\ order = p.order
                      /\ group = p.group
                      /\ cpuGroups = p.cpuGroups
  /\ Start

In(ph) == phase = ph /\ outcome = "running"
-----------------------------------------------------------------------------
(***************************************************************************)
(* Expressions::getEvaluation exits when the expression is in another      *)
(* group than the reader or has not been evaluated.                        *)
(***************************************************************************)
Readable(x, y) == group[y] = group[x] /\ evaluated[y]
CanEval(x) == \A y \in Reads(exprs, x) : Readable(x, y)

Arguments(x, w) ==
  [k \in DOMAIN exprs[x].args |-> OperandValue(exprs[x].args[k], evaluations, w)]

(***************************************************************************)
(* Expression::eval: the operations on the operands at row w; an alias is  *)
(* zero and reads nothing.                                                 *)
(***************************************************************************)
Eval(x, w) == IF exprs[x].alias THEN Zero ELSE Op(x, Arguments(x, w))

Busy(c) == In("eval") /\ pos[c] <= Len(order)
Current(c) == order[pos[c]]

\* A seeded fault of Mine: the group is not looked up.
MineAlways(c) == TRUE

Mine(c) == group[Current(c)] \in Range(cpuGroups[c])

(***************************************************************************)
(* evalAllCpuGroup(c): the expressions of other cpus are passed over.      *)
(***************************************************************************)
SkipExpression(c) ==
  /\ Busy(c) /\ ~Mine(c)
  /\ pos' = [pos EXCEPT ![c] = @ + 1]
  /\ UNCHANGED <<plan, data, phase, row, scanned, index, errorCount, outcome>>

StoreRow(x, value) ==
  /\ evaluations' = [evaluations EXCEPT ![x] = [evaluations[x] EXCEPT ![row[x]] = value]]
  /\ row' = [row EXCEPT ![x] = @ + 1]

(***************************************************************************)
(* getEvaluation's exit(1).                                                *)
(***************************************************************************)
Abort == outcome' = "aborted" /\ UNCHANGED <<data, row>>

(***************************************************************************)
(* One row of the current expression, or the exit in the middle of it.     *)
(***************************************************************************)
EvalRow(c) ==
  /\ Busy(c) /\ Mine(c) /\ row[Current(c)] < N
  /\ LET x == Current(c)
     IN IF exprs[x].alias \/ CanEval(x)
        THEN /\ StoreRow(x, Eval(x, row[x]))
             /\ isZero' = [isZero EXCEPT ![x] = @ /\ (exprs[x].alias \/ Eval(x, row[x]) = Zero)]
             /\ UNCHANGED <<evaluated, firstNonZero, evaluationsDone, outcome>>
        ELSE Abort
  /\ UNCHANGED <<plan, phase, pos, scanned, index, errorCount>>

\* A seeded fault of EndExpression: an increment of another thread is lost.
EndUncounted(c) ==
  /\ Busy(c) /\ Mine(c) /\ row[Current(c)] = N
  /\ evaluated' = [evaluated EXCEPT ![Current(c)] = TRUE]
  /\ evaluationsDone' \in {evaluationsDone, evaluationsDone + 1}
  /\ pos' = [pos EXCEPT ![c] = @ + 1]
  /\ UNCHANGED <<plan, evaluations, isZero, firstNonZero,
                 phase, row, scanned, index, errorCount, outcome>>

\* A seeded fault of EndExpression: the flag is not set.
EndUnmarked(c) ==
  /\ Busy(c) /\ Mine(c) /\ row[Current(c)] = N
  /\ evaluationsDone' = evaluationsDone + 1
  /\ pos' = [pos EXCEPT ![c] = @ + 1]
  /\ UNCHANGED <<plan, evaluations, evaluated, isZero, firstNonZero,
                 phase, row, scanned, index, errorCount, outcome>>

(***************************************************************************)
(* The rows are done: the expression is marked, and counted in a critical  *)
(* section.                                                                *)
(***************************************************************************)
EndExpression(c) ==
  /\ Busy(c) /\ Mine(c) /\ row[Current(c)] = N
  /\ evaluated' = [evaluated EXCEPT ![Current(c)] = TRUE]
  /\ evaluationsDone' = evaluationsDone + 1
  /\ pos' = [pos EXCEPT ![c] = @ + 1]
  /\ UNCHANGED <<plan, evaluations, isZero, firstNonZero,
                 phase, row, scanned, index, errorCount, outcome>>

(***************************************************************************)
(* The implicit barrier at the end of the parallel loop of evalAll.        *)
(***************************************************************************)
JoinEval ==
  /\ In("eval") /\ \A c \in CpuIds : pos[c] > Len(order)
  /\ phase' = "alias"
  /\ row' = [x \in Ids |-> 0]
  /\ UNCHANGED <<plan, data, pos, scanned, index, errorCount, outcome>>
-----------------------------------------------------------------------------
(***************************************************************************)
(* expandAlias: the aliases in parallel, the operand's value row by row.   *)
(***************************************************************************)
Expanding(x) == In("alias") /\ exprs[x].alias /\ row[x] < N

ExpandRow(x) ==
  /\ Expanding(x)
  /\ IF CanEval(x)
     THEN /\ StoreRow(x, OperandValue(exprs[x].args[1], evaluations, row[x]))
          /\ UNCHANGED <<evaluated, isZero, firstNonZero, evaluationsDone, outcome>>
     ELSE Abort
  /\ UNCHANGED <<plan, phase, pos, scanned, index, errorCount>>

\* A seeded fault of JoinExpand: there is no barrier.
ExpandNoWait ==
  /\ In("alias")
  /\ phase' = "scan"
  /\ UNCHANGED <<plan, data, pos, row, scanned, index, errorCount, outcome>>

JoinExpand ==
  /\ In("alias") /\ \A x \in Ids : exprs[x].alias => row[x] = N
  /\ phase' = "scan"
  /\ UNCHANGED <<plan, data, pos, row, scanned, index, errorCount, outcome>>
-----------------------------------------------------------------------------
\* A seeded fault of NonZeroRows: the loop begins at row 1.
NonZeroFromOne(x) == { w \in Rows : w > 0 /\ evaluations[x][w] # Zero }

NonZeroRows(x) == { w \in Rows : evaluations[x][w] # Zero }

\* A seeded fault of First: the last one.
LastOf(R) == CHOOSE w \in R : \A u \in R : u <= w

First(R) == CHOOSE w \in R : \A u \in R : w <= u

(***************************************************************************)
(* afterEvaluationsLoaded, one turn of its parallel loop: no turn reads    *)
(* what another one writes.                                                *)
(***************************************************************************)
Scan(x) ==
  /\ In("scan") /\ x \notin scanned
  /\ isZero' = [isZero EXCEPT ![x] = NonZeroRows(x) = {}]
  /\ firstNonZero' =
       [firstNonZero EXCEPT ![x] = IF NonZeroRows(x) = {} THEN 0 ELSE First(NonZeroRows(x))]
  /\ evaluated' = [evaluated EXCEPT ![x] = TRUE]
  /\ scanned' = scanned \cup {x}
  /\ UNCHANGED <<plan, evaluations, evaluationsDone, phase, pos, row, index, errorCount, outcome>>

JoinScan ==
  /\ In("scan") /\ scanned = Ids
  /\ phase' = "check"
  /\ UNCHANGED <<plan, data, pos, row, scanned, index, errorCount, outcome>>
-----------------------------------------------------------------------------
(***************************************************************************)
(* checkPolIdentities.                                                     *)
(***************************************************************************)
CheckIdentity ==
  /\ In("check") /\ index <= Len(Identities)
  /\ errorCount' = IF isZero[Identities[index]] THEN errorCount ELSE errorCount + 1
  /\ index' = index + 1
  /\ UNCHANGED <<plan, data, phase, pos, row, scanned, outcome>>

Verdict ==
  IF Identities = <<>> THEN "no identities" ELSE IF errorCount = 0 THEN "OK" ELSE "FAIL"

Report ==
  /\ In("check") /\ index > Len(Identities)
  /\ outcome' = Verdict
  /\ UNCHANGED <<plan, data, phase, pos, row, scanned, index, errorCount>>

Finished == outcome # "running"
Stop == Finished /\ UNCHANGED vars

CpuStep(c) == SkipExpression(c) \/ EvalRow(c) \/ EndExpression(c)
TaskStep(x) == ExpandRow(x) \/ Scan(x)

Next ==
  \/ \E c \in CpuIds : CpuStep(c)
  \/ \E x \in Ids : TaskStep(x)
  \/ JoinEval \/ JoinExpand \/ JoinScan \/ CheckIdentity \/ Report \/ Stop

Spec == Init /\ [][Next]_vars
-----------------------------------------------------------------------------
(***************************************************************************)
(* A plan is sound when the order lists every expression once and after    *)
(* the expressions it reads, no expression reads an alias or another       *)
(* group, and each group has one cpu.  Module Pipeline checks that the     *)
(* code makes only such plans; the proofs start from it.                   *)
(***************************************************************************)
SoundOrder(es, os) ==
  /\ os \in Seq(Ids)
  /\ \A i, j \in DOMAIN os : os[i] = os[j] => i = j
  /\ \A x \in Ids : \E k \in DOMAIN os : os[k] = x
  /\ \A k \in DOMAIN os : \A y \in Reads(es, os[k]) : \E j \in 1 .. k - 1 : os[j] = y

SoundGroups(es, gs, cs) ==
  /\ gs \in [Ids -> Nat]
  /\ cs \in [CpuIds -> Seq(Nat)]
  /\ \A x \in Ids : \A y \in Reads(es, x) : gs[y] = gs[x]
  /\ \A x \in Ids : \E c \in CpuIds : gs[x] \in Range(cs[c])
  /\ \A c, d \in CpuIds : Range(cs[c]) \cap Range(cs[d]) # {} => c = d

SoundPlan(es, os, gs, cs) ==
  /\ IsProgram(es)
  /\ \A x \in Ids : \A y \in Reads(es, x) : ~es[y].alias
  /\ SoundOrder(es, os)
  /\ SoundGroups(es, gs, cs)

ASSUME PlansAssumption ==
  \A p \in Plans : SoundPlan(p.exprs, p.order, p.group, p.cpuGroups)
-----------------------------------------------------------------------------
(***************************************************************************)
(* Types: the evaluations stay a table of N rows per expression, the loop  *)
(* variables stay within their loops.                                      *)
(***************************************************************************)
TypeOK ==
  /\ mode \in Modes
  /\ phase \in {"eval", "alias", "scan", "check"}
  /\ evaluations = [x \in Ids |-> [w \in Rows |-> evaluations[x][w]]]
  /\ evaluated \in [Ids -> BOOLEAN]
  /\ isZero \in [Ids -> BOOLEAN]
  /\ firstNonZero \in [Ids -> Rows]
  /\ evaluationsDone \in 0 .. Count
  /\ pos \in [CpuIds -> 1 .. Len(order) + 1]
  /\ row \in [Ids -> 0 .. N]
  /\ scanned \subseteq Ids
  /\ index \in 1 .. Len(Identities) + 1
  /\ errorCount \in 0 .. index - 1
  /\ outcome \in {"running", "aborted", "OK", "FAIL", "no identities"}

(***************************************************************************)
(* The checks in getEvaluation never fire: no thread reads an expression   *)
(* of another group or one that is not evaluated yet, under any            *)
(* interleaving of the threads.                                            *)
(***************************************************************************)
NeverAborts == outcome # "aborted"

(***************************************************************************)
(* There is no data race: no thread reads a column while another thread    *)
(* is writing it.                                                          *)
(***************************************************************************)
Writes(c) == IF Busy(c) /\ Mine(c) THEN {Current(c)} ELSE {}
NoRace ==
  /\ \A c, d \in CpuIds : c # d =>
       Writes(c) \cap (Writes(d) \cup UNION { Reads(exprs, x) : x \in Writes(d) }) = {}
  /\ \A x, y \in Ids : Expanding(x) /\ Expanding(y) => x \notin Reads(exprs, y)

(***************************************************************************)
(* When everything is evaluated each row of each column is what the        *)
(* expression says of the columns it reads: no row was computed from a     *)
(* value that changed later or had not been written.                       *)
(***************************************************************************)
Denotes(x, w) ==
  evaluations[x][w] = IF exprs[x].alias THEN OperandValue(exprs[x].args[1], evaluations, w)
                                        ELSE Op(x, Arguments(x, w))
EquationsHold ==
  mode = "compute" /\ phase \in {"scan", "check"} => \A x \in Ids : \A w \in Rows : Denotes(x, w)

(***************************************************************************)
(* The counter of the progress bar, which all threads increase, reaches    *)
(* Count when the evaluation ends.                                         *)
(***************************************************************************)
AllCounted == mode = "compute" /\ phase # "eval" => evaluationsDone = Count

(***************************************************************************)
(* "OK" is printed only when, and always when, every identity is zero at   *)
(* every row: whatever the flags held before afterEvaluationsLoaded, and   *)
(* for columns loaded from a file too.                                     *)
(***************************************************************************)
VerdictExact ==
  outcome \in {"OK", "FAIL"} /\ mode # "skip" =>
    (outcome = "OK" <=>
       \A k \in DOMAIN Identities : \A w \in Rows : evaluations[Identities[k]][w] = Zero)

(***************************************************************************)
(* The row reported for a failed identity is the first at which it fails.  *)
(***************************************************************************)
FirstRowReported ==
  phase = "check" /\ mode # "skip" =>
    \A x \in Ids : ~isZero[x] =>
      /\ evaluations[x][firstNonZero[x]] # Zero
      /\ \A w \in Rows : w < firstNonZero[x] => evaluations[x][w] = Zero
=============================================================================
