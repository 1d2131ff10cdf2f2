-------------------------- MODULE Evaluate_proofs --------------------------
(***************************************************************************)
(* Proofs about module Evaluate: given sound plans, for every number of    *)
(* expressions, rows and threads, every field and all operations, the      *)
(* threads neither race nor abort, the columns satisfy the equations of    *)
(* the expressions, and the verdict is exact.                              *)
(***************************************************************************)
EXTENDS Evaluate, SequenceTheorems, TLAPS, FiniteSetTheorems, WellFoundedInduction

(***************************************************************************)
(* Operands of a program.                                                  *)
(***************************************************************************)
LEMMA OperandFacts ==
  ASSUME NEW p, IsProgram(p), NEW x \in Ids
  PROVE  /\ p[x] \in [alias : BOOLEAN, args : Seq(Operands)]
         /\ Len(p[x].args) \in Nat
         /\ DOMAIN p[x].args = 1 .. Len(p[x].args)
         /\ p[x].alias => DOMAIN p[x].args = {1}
         /\ \A k \in DOMAIN p[x].args :
              /\ p[x].args[k] \in Operands
              /\ IsExp(p[x].args[k]) => p[x].args[k].id \in Ids
         /\ \A y : y \in Reads(p, x) <=>
              \E k \in DOMAIN p[x].args : IsExp(p[x].args[k]) /\ p[x].args[k].id = y
<1> DEFINE a == p[x].args
<1>1. /\ p[x] \in [alias : BOOLEAN, args : Seq(Operands)]
      /\ p[x].alias => Len(a) = 1
      /\ \A k \in DOMAIN a : IsExp(a[k]) => a[k].id \in Ids
  BY DEF IsProgram, Expressions
<1>2. a \in Seq(Operands)
  BY <1>1
<1>3. Reads(p, x) = { a[j].id : j \in { i \in DOMAIN a : i <= Len(a) /\ IsExp(a[i]) } }
  BY DEF Reads, ReadsUpTo
<1> HIDE DEF a
<1>4. Len(a) \in Nat /\ DOMAIN a = 1 .. Len(a) /\ \A k \in DOMAIN a : a[k] \in Operands
  BY <1>2, LenProperties, ElementOfSeq
<1>5. p[x].alias => DOMAIN a = {1}
  BY <1>1, <1>4
<1>6. \A y : y \in Reads(p, x) <=> \E k \in DOMAIN a : IsExp(a[k]) /\ a[k].id = y
  BY <1>3, <1>4
<1> QED
  BY <1>1, <1>4, <1>5, <1>6 DEF a

(***************************************************************************)
(* Rows are counted modulo N.                                              *)
(***************************************************************************)
LEMMA RowFacts ==
  /\ \A a \in Nat : a % N \in Rows
  /\ \A r \in Rows : r % N = r /\ r + 0 = r /\ r \in Nat
  BY ColumnsAssumption DEF Rows

(***************************************************************************)
(* The value of an operand depends on nothing but the column it reads.     *)
(***************************************************************************)
LEMMA SameOperandValue ==
  ASSUME NEW o \in Operands, NEW u, NEW v, NEW w \in Rows,
         IsExp(o) => \A r \in Rows : u[o.id][r] = v[o.id][r]
  PROVE  OperandValue(o, u, w) = OperandValue(o, v, w)
<1>1. w + o.next \in Nat
  BY RowFacts DEF Operands
<1>2. (w + o.next) % N \in Rows
  BY <1>1, RowFacts
<1>3. o.type \in {"CM", "NUMBER", "EXP"}
  BY DEF Operands, OperandTypes
<1> QED
  BY <1>2, <1>3 DEF OperandValue, IsExp

Sound == SoundPlan(exprs, order, group, cpuGroups)

Owns(c, x) == group[x] \in Range(cpuGroups[c])

(***************************************************************************)
(* Which phases a mode goes through, and what they leave behind.           *)
(***************************************************************************)
ModeOK ==
  /\ phase \in {"eval", "alias"} => mode = "compute" /\ scanned = {}
  /\ mode = "skip" => phase = "check"
  /\ phase = "check" /\ mode # "skip" => scanned = Ids

(***************************************************************************)
(* What is evaluated is what the threads have passed.                      *)
(***************************************************************************)
ThreadsOK ==
  phase = "eval" =>
    \A c \in CpuIds : \A k \in DOMAIN order : Owns(c, order[k]) =>
      /\ evaluated[order[k]] <=> k < pos[c]
      /\ k < pos[c] => row[order[k]] = N

(***************************************************************************)
(* A row that is written holds its value, and what it was computed from    *)
(* had been evaluated.                                                     *)
(***************************************************************************)
Computed(x, w) == evaluations[x][w] = Op(x, Arguments(x, w))

WrittenOK ==
  phase = "eval" =>
    \A x \in Ids : ~exprs[x].alias =>
      \A w \in Rows : w < row[x] => CanEval(x) /\ Computed(x, w)

CountedOK ==
  /\ phase = "eval" => evaluationsDone = Cardinality({ x \in Ids : evaluated[x] })
  /\ phase # "eval" /\ mode = "compute" => evaluationsDone = Count

AfterEval ==
  phase # "eval" /\ mode = "compute" =>
    \A x \in Ids : evaluated[x] /\ (~exprs[x].alias => \A w \in Rows : Computed(x, w))

Expanded(x, w) == evaluations[x][w] = OperandValue(exprs[x].args[1], evaluations, w)

ExpandedOK ==
  phase # "eval" /\ mode = "compute" =>
    \A x \in Ids : exprs[x].alias =>
      \A w \in Rows : (phase = "alias" => w < row[x]) => Expanded(x, w)

EvalInv == Sound /\ TypeOK /\ ModeOK /\ ThreadsOK /\ WrittenOK /\ CountedOK /\ AfterEval /\ ExpandedOK

(***************************************************************************)
(* The flags of a scanned expression, and what the check made of them.     *)
(***************************************************************************)
ScanOK ==
  \A x \in scanned :
    /\ isZero[x] <=> NonZeroRows(x) = {}
    /\ ~isZero[x] => /\ firstNonZero[x] \in NonZeroRows(x)
                     /\ \A w \in NonZeroRows(x) : firstNonZero[x] <= w

CheckOK ==
  /\ phase # "check" => index = 1 /\ outcome = "running"
  /\ errorCount = 0 <=> \A k \in 1 .. index - 1 : isZero[Identities[k]]
  /\ outcome # "aborted"
  /\ outcome \in {"OK", "FAIL"} =>
       index > Len(Identities) /\ (outcome = "OK" <=> errorCount = 0)
  /\ outcome # "running" => (outcome = "no identities" <=> Identities = <<>>)

VerdictInv == ScanOK /\ CheckOK
-----------------------------------------------------------------------------
(***************************************************************************)
(* What a sound plan says of the variables.                                *)
(***************************************************************************)
LEMMA PlanFacts ==
  ASSUME Sound
  PROVE  /\ IsProgram(exprs)
         /\ \A x \in Ids : \A y \in Reads(exprs, x) :
              y \in Ids /\ ~exprs[y].alias /\ group[y] = group[x]
         /\ Len(order) \in Nat /\ DOMAIN order = 1 .. Len(order)
         /\ \A k \in DOMAIN order : order[k] \in Ids
         /\ \A i, j \in DOMAIN order : order[i] = order[j] => i = j
         /\ \A x \in Ids : \E k \in DOMAIN order : order[k] = x
         /\ \A k \in DOMAIN order : \A y \in Reads(exprs, order[k]) :
              \E j \in DOMAIN order : j < k /\ order[j] = y
         /\ \A x \in Ids : \E c \in CpuIds : Owns(c, x)
         /\ \A x, y \in Ids, c, d \in CpuIds :
              Owns(c, x) /\ Owns(d, y) /\ group[x] = group[y] => c = d
<1>1. /\ IsProgram(exprs)
      /\ \A x \in Ids : \A y \in Reads(exprs, x) : ~exprs[y].alias
      /\ order \in Seq(Ids)
      /\ \A i, j \in DOMAIN order : order[i] = order[j] => i = j
      /\ \A x \in Ids : \E k \in DOMAIN order : order[k] = x
      /\ \A k \in DOMAIN order : \A y \in Reads(exprs, order[k]) :
           \E j \in 1 .. k - 1 : order[j] = y
  BY DEF Sound, SoundPlan, SoundOrder
<1>2. /\ \A x \in Ids : \A y \in Reads(exprs, x) : group[y] = group[x]
      /\ \A x \in Ids : \E c \in CpuIds : group[x] \in Range(cpuGroups[c])
      /\ \A c, d \in CpuIds : Range(cpuGroups[c]) \cap Range(cpuGroups[d]) # {} => c = d
  BY DEF Sound, SoundPlan, SoundGroups
<1>3. \A x \in Ids : \A y \in Reads(exprs, x) : y \in Ids
  BY <1>1, OperandFacts
<1>4. Len(order) \in Nat /\ DOMAIN order = 1 .. Len(order) /\ \A k \in DOMAIN order : order[k] \in Ids
  BY <1>1, LenProperties, ElementOfSeq
<1>5. \A k \in DOMAIN order : \A j \in 1 .. k - 1 : j \in DOMAIN order /\ j < k
  BY <1>4
<1>6. \A k \in DOMAIN order : \A y \in Reads(exprs, order[k]) :
        \E j \in DOMAIN order : j < k /\ order[j] = y
  BY <1>1, <1>5
<1>7. \A x \in Ids : \E c \in CpuIds : Owns(c, x)
  BY <1>2 DEF Owns
<1>8. \A x, y \in Ids, c, d \in CpuIds :
        Owns(c, x) /\ Owns(d, y) /\ group[x] = group[y] => c = d
  BY <1>2 DEF Owns
<1> QED
  BY <1>1, <1>2, <1>3, <1>4, <1>6, <1>7, <1>8

(***************************************************************************)
(* The thread at work and its expression.                                  *)
(***************************************************************************)
LEMMA CurrentFacts ==
  ASSUME Sound, TypeOK, NEW c \in CpuIds, Busy(c)
  PROVE  /\ pos[c] \in DOMAIN order /\ pos[c] \in Nat
         /\ Current(c) \in Ids /\ Current(c) = order[pos[c]]
         /\ Mine(c) <=> Owns(c, Current(c))
         /\ phase = "eval" /\ outcome = "running"
<1>1. pos[c] \in 1 .. Len(order) + 1 /\ pos[c] <= Len(order)
  BY DEF TypeOK, Busy
<1>2. pos[c] \in DOMAIN order /\ pos[c] \in Nat
  BY <1>1, PlanFacts
<1> QED
  BY <1>2, PlanFacts DEF Current, Mine, Owns, Busy, In

(***************************************************************************)
(* One row is written and nothing else.                                    *)
(***************************************************************************)
LEMMA StoreFacts ==
  ASSUME TypeOK, NEW x \in Ids, row[x] < N, NEW value, StoreRow(x, value)
  PROVE  /\ row[x] \in Rows
         /\ row' \in [Ids -> 0 .. N]
         /\ \A y \in Ids : row'[y] = IF y = x THEN row[x] + 1 ELSE row[y]
         /\ evaluations' = [y \in Ids |-> [w \in Rows |-> evaluations'[y][w]]]
         /\ \A y \in Ids : \A w \in Rows :
              evaluations'[y][w] = IF y = x /\ w = row[x] THEN value ELSE evaluations[y][w]
<1>1. row[x] \in 0 .. N /\ N \in Nat /\ row \in [Ids -> 0 .. N]
  BY ColumnsAssumption DEF TypeOK
<1>2. row[x] \in Rows
  BY <1>1 DEF Rows
<1>3. row' = [row EXCEPT ![x] = row[x] + 1] /\ row[x] + 1 \in 0 .. N
  BY <1>1 DEF StoreRow
<1>4. evaluations' = [evaluations EXCEPT ![x] = [evaluations[x] EXCEPT ![row[x]] = value]]
  BY DEF StoreRow
<1>5. evaluations = [y \in Ids |-> [w \in Rows |-> evaluations[y][w]]]
  BY DEF TypeOK
<1>6. DOMAIN evaluations = Ids /\ \A y \in Ids : evaluations[y] = [w \in Rows |-> evaluations[y][w]]
  BY <1>5
<1>7. \A y \in Ids : DOMAIN evaluations[y] = Rows
  BY <1>6
<1>8. \A y \in Ids : evaluations'[y] =
        IF y = x THEN [evaluations[x] EXCEPT ![row[x]] = value] ELSE evaluations[y]
  BY <1>4, <1>6
<1>9. \A y \in Ids : \A w \in Rows :
        evaluations'[y][w] = IF y = x /\ w = row[x] THEN value ELSE evaluations[y][w]
  BY <1>2, <1>7, <1>8
<1>10. \A y \in Ids : evaluations'[y] = [w \in Rows |-> evaluations'[y][w]]
  <2> SUFFICES ASSUME NEW y \in Ids PROVE evaluations'[y] = [w \in Rows |-> evaluations'[y][w]]
    OBVIOUS
  <2>1. CASE y = x
    <3> DEFINE e == evaluations[x]
    <3>1. e = [w \in Rows |-> e[w]] /\ evaluations'[y] = [e EXCEPT ![row[x]] = value]
      BY <1>6, <1>8, <2>1
    <3> HIDE DEF e
    <3>2. evaluations'[y] = [w \in Rows |-> IF w = row[x] THEN value ELSE e[w]]
      BY <3>1
    <3> QED
      BY <3>2
  <2>2. CASE y # x
    BY <1>6, <1>8, <2>2
  <2> QED
    BY <2>1, <2>2
<1>11. evaluations' = [y \in Ids |-> [w \in Rows |-> evaluations'[y][w]]]
  <2>1. evaluations' = [y \in Ids |-> evaluations'[y]]
    BY <1>4, <1>6
  <2> QED
    BY <1>10, <2>1
<1> QED
  BY <1>1, <1>2, <1>3, <1>9, <1>11

(***************************************************************************)
(* What is computed from columns that do not change does not change.       *)
(***************************************************************************)
LEMMA SameArguments ==
  ASSUME IsProgram(exprs), exprs' = exprs, NEW x \in Ids, NEW w \in Rows,
         \A y \in Reads(exprs, x) : \A r \in Rows : evaluations'[y][r] = evaluations[y][r]
  PROVE  /\ Arguments(x, w)' = Arguments(x, w)
         /\ \A k \in DOMAIN exprs[x].args :
              OperandValue(exprs[x].args[k], evaluations, w)' =
                OperandValue(exprs[x].args[k], evaluations, w)
<1>1. ASSUME NEW k \in DOMAIN exprs[x].args
      PROVE  OperandValue(exprs[x].args[k], evaluations', w) =
               OperandValue(exprs[x].args[k], evaluations, w)
  <2>1. exprs[x].args[k] \in Operands
    BY OperandFacts
  <2>2. IsExp(exprs[x].args[k]) => exprs[x].args[k].id \in Reads(exprs, x)
    BY OperandFacts
  <2> QED
    BY <2>1, <2>2, SameOperandValue
<1> QED
  BY <1>1 DEF Arguments
-----------------------------------------------------------------------------
(***************************************************************************)
(* The number of evaluated expressions.                                    *)
(***************************************************************************)
LEMMA EvaluatedCount ==
  ASSUME NEW S \in SUBSET Ids
  PROVE  /\ Cardinality(S) \in 0 .. Count
         /\ S = Ids => Cardinality(S) = Count
         /\ \A x \in Ids : x \notin S =>
              /\ Cardinality(S \cup {x}) = Cardinality(S) + 1
              /\ Cardinality(S) + 1 \in 0 .. Count
<1>1. IsFiniteSet(Ids) /\ Cardinality(Ids) = Count /\ Count \in Nat
  BY CountAssumption, FS_Interval DEF Ids
<1>2. \A T \in SUBSET Ids : IsFiniteSet(T) /\ Cardinality(T) \in Nat /\ Cardinality(T) <= Count
  BY <1>1, FS_Subset, FS_CardinalityType
<1>3. ASSUME NEW x \in Ids, x \notin S
      PROVE  /\ Cardinality(S \cup {x}) = Cardinality(S) + 1
             /\ Cardinality(S) + 1 \in 0 .. Count
  <2>1. Cardinality(S \cup {x}) = Cardinality(S) + 1
    BY <1>2, <1>3, FS_AddElement
  <2>2. S \cup {x} \in SUBSET Ids
    BY <1>3
  <2>3. Cardinality(S \cup {x}) \in Nat /\ Cardinality(S \cup {x}) <= Count
    BY <1>2, <2>2
  <2> QED
    BY <1>1, <2>1, <2>3
<1> QED
  BY <1>1, <1>2, <1>3

LEMMA StartInv == Sound /\ Start => EvalInv /\ VerdictInv
<1> SUFFICES ASSUME Sound, Start PROVE EvalInv /\ VerdictInv
  OBVIOUS
<1>1. Sound
  OBVIOUS
<1>2. /\ mode \in Modes /\ Modes \subseteq {"compute", "load", "skip"}
      /\ evaluations = [x \in Ids |-> [w \in Rows |-> evaluations[x][w]]]
      /\ evaluated = [x \in Ids |-> FALSE] /\ row = [x \in Ids |-> 0]
      /\ isZero = [x \in Ids |-> TRUE] /\ firstNonZero = [x \in Ids |-> 0]
      /\ pos = [c \in CpuIds |-> 1] /\ scanned = {} /\ index = 1 /\ errorCount = 0
      /\ evaluationsDone = 0 /\ outcome = "running"
  BY EvaluateAssumption DEF Start
<1>3. /\ mode = "compute" => phase = "eval"
      /\ mode = "load" => phase = "scan"
      /\ mode = "skip" => phase = "check"
      /\ phase \in {"eval", "scan", "check"}
      /\ phase = "eval" => mode = "compute"
      /\ phase = "check" => mode = "skip"
  BY <1>2 DEF Start
<1>4. 0 \in Rows /\ 0 \in 0 .. N /\ 0 \in 0 .. Count
  BY ColumnsAssumption, CountAssumption DEF Rows
<1>5. Len(order) \in Nat /\ Len(Identities) \in Nat
  BY <1>1, PlanFacts, EvaluateAssumption, LenProperties
<1>6. TypeOK
  BY <1>2, <1>3, <1>4, <1>5 DEF TypeOK
<1>7. ModeOK
  BY <1>2, <1>3 DEF ModeOK
<1>8. ThreadsOK
  BY <1>1, <1>2, PlanFacts DEF ThreadsOK
<1>9. WrittenOK
  BY <1>2 DEF WrittenOK, Rows
<1>10. CountedOK
  <2>1. { x \in Ids : evaluated[x] } = {}
    BY <1>2
  <2> QED
    BY <1>2, <1>3, <2>1, FS_EmptySet DEF CountedOK
<1>11. AfterEval /\ ExpandedOK
  BY <1>3 DEF AfterEval, ExpandedOK
<1>12. VerdictInv
  BY <1>2 DEF VerdictInv, ScanOK, CheckOK
<1> QED
  BY <1>1, <1>6, <1>7, <1>8, <1>9, <1>10, <1>11, <1>12 DEF EvalInv

LEMMA InitInv == Init => EvalInv /\ VerdictInv
<1>1. ASSUME Init PROVE Sound /\ Start
  <2>1. PICK p \in Plans : /\ exprs = p.exprs
                           /\ order = p.order
                           /\ group = p.group
                           /\ cpuGroups = p.cpuGroups
    BY <1>1 DEF Init
  <2>2. SoundPlan(p.exprs, p.order, p.group, p.cpuGroups)
    BY PlansAssumption
  <2> QED
    BY <1>1, <2>1, <2>2 DEF Sound, Init
<1> QED
  BY <1>1, StartInv

(***************************************************************************)
(* The threads in the order.                                               *)
(***************************************************************************)
LEMMA SkipExpressionStep ==
  ASSUME EvalInv, VerdictInv, NEW c \in CpuIds, SkipExpression(c)
  PROVE  EvalInv' /\ VerdictInv'
<1> USE DEF SkipExpression
<1>1. Sound /\ TypeOK /\ Busy(c) /\ ~Mine(c)
  BY DEF EvalInv
<1>2. /\ pos[c] \in DOMAIN order /\ pos[c] \in Nat /\ ~Owns(c, order[pos[c]])
      /\ phase = "eval" /\ outcome = "running"
  BY <1>1, CurrentFacts
<1>3. UNCHANGED <<plan, data, phase, row, scanned, index, errorCount, outcome>>
  OBVIOUS
<1>4. \A d \in CpuIds : pos'[d] = IF d = c THEN pos[c] + 1 ELSE pos[d]
  BY <1>1 DEF TypeOK
<1>5. TypeOK'
  <2>1. pos' \in [CpuIds -> 1 .. Len(order) + 1]
    BY <1>1, <1>2, PlanFacts DEF TypeOK
  <2> QED
    BY <1>1, <1>3, <2>1 DEF TypeOK, plan, data
<1>6. ThreadsOK'
  <2> SUFFICES ASSUME NEW d \in CpuIds, NEW k \in DOMAIN order, Owns(d, order[k])
               PROVE  /\ evaluated[order[k]] <=> k < pos'[d]
                      /\ k < pos'[d] => row[order[k]] = N
    BY <1>3 DEF ThreadsOK, Owns, plan, data
  <2>1. /\ evaluated[order[k]] <=> k < pos[d]
        /\ k < pos[d] => row[order[k]] = N
    BY <1>2 DEF EvalInv, ThreadsOK
  <2>2. d = c => k # pos[c]
    BY <1>2
  <2>3. k \in Nat
    BY <1>1, PlanFacts
  <2> QED
    BY <1>2, <1>4, <2>1, <2>2, <2>3
<1>7. Sound' /\ ModeOK' /\ CountedOK' /\ AfterEval' /\ ExpandedOK'
  BY <1>2, <1>3 DEF EvalInv, Sound, ModeOK, CountedOK, AfterEval, ExpandedOK, plan, data
<1>8. WrittenOK'
  BY <1>3 DEF EvalInv, WrittenOK, CanEval, Readable, Computed, Arguments, plan, data
<1>9. ScanOK' /\ CheckOK'
  <2>1. ScanOK'
    BY <1>3 DEF VerdictInv, ScanOK, NonZeroRows, plan, data
  <2>2. CheckOK'
    BY <1>3 DEF VerdictInv, CheckOK, plan, data
  <2> QED
    BY <2>1, <2>2
<1> QED
  BY <1>5, <1>6, <1>7, <1>8, <1>9 DEF EvalInv, VerdictInv

(***************************************************************************)
(* The check in getEvaluation passes: what the current expression reads is *)
(* before it in the order and of the same thread.                          *)
(***************************************************************************)
LEMMA NoAbortEval ==
  ASSUME EvalInv, NEW c \in CpuIds, Busy(c), Mine(c)
  PROVE  CanEval(Current(c))
<1>1. Sound /\ TypeOK
  BY DEF EvalInv
<1>2. PICK x \in Ids : x = Current(c)
  BY <1>1, CurrentFacts
<1>3. /\ pos[c] \in DOMAIN order /\ Owns(c, x) /\ x = order[pos[c]] /\ phase = "eval"
  BY <1>1, <1>2, CurrentFacts
<1>4. ASSUME NEW y \in Reads(exprs, x) PROVE Readable(x, y)
  <2>1. PICK j \in DOMAIN order : j < pos[c] /\ order[j] = y
    BY <1>1, <1>3, PlanFacts
  <2>2. group[y] = group[x]
    BY <1>1, PlanFacts
  <2>3. Owns(c, y)
    BY <1>3, <2>2 DEF Owns
  <2>4. evaluated[y]
    BY <1>3, <2>1, <2>3 DEF EvalInv, ThreadsOK
  <2> QED
    BY <2>2, <2>4 DEF Readable
<1> QED
  BY <1>2, <1>4 DEF CanEval

LEMMA EvalRowStep ==
  ASSUME EvalInv, VerdictInv, NEW c \in CpuIds, EvalRow(c)
  PROVE  EvalInv' /\ VerdictInv'
<1>1. Sound /\ TypeOK /\ Busy(c) /\ Mine(c)
  BY DEF EvalInv, EvalRow
<1>2. PICK x \in Ids : x = Current(c)
  BY <1>1, CurrentFacts
<1>3. /\ pos[c] \in DOMAIN order /\ pos[c] \in Nat /\ Owns(c, x) /\ x = order[pos[c]]
      /\ phase = "eval" /\ outcome = "running"
  BY <1>1, <1>2, CurrentFacts
<1>4. PICK w \in Rows : w = row[x]
  <2>1. row[x] < N
    BY <1>2 DEF EvalRow
  <2>2. row[x] \in 0 .. N
    BY <1>1 DEF TypeOK
  <2>3. row[x] \in Rows
    BY <2>1, <2>2, ColumnsAssumption DEF Rows
  <2> QED
    BY <2>3
<1>5. /\ row[x] < N
      /\ CanEval(x)
      /\ StoreRow(x, Eval(x, w))
      /\ isZero' = [isZero EXCEPT ![x] = @ /\ (exprs[x].alias \/ Eval(x, w) = Zero)]
      /\ UNCHANGED <<plan, evaluated, firstNonZero, evaluationsDone,
                     phase, pos, scanned, index, errorCount, outcome>>
  <2>1. CanEval(x) /\ row[x] < N
    BY <1>1, <1>2, NoAbortEval DEF EvalRow
  <2> QED
    BY <1>2, <1>4, <2>1 DEF EvalRow
<1>6. /\ row' \in [Ids -> 0 .. N]
      /\ \A y \in Ids : row'[y] = IF y = x THEN w + 1 ELSE row[y]
      /\ evaluations' = [y \in Ids |-> [u \in Rows |-> evaluations'[y][u]]]
      /\ \A y \in Ids : \A u \in Rows :
           evaluations'[y][u] = IF y = x /\ u = w THEN Eval(x, w) ELSE evaluations[y][u]
  BY <1>1, <1>4, <1>5, StoreFacts
<1>7. UNCHANGED <<exprs, order, group, cpuGroups, mode>>
  BY <1>5 DEF plan
<1>8. ~evaluated[x]
  BY <1>3 DEF EvalInv, ThreadsOK
<1>9. \A y \in Ids : CanEval(y) => x \notin Reads(exprs, y)
  BY <1>8 DEF CanEval, Readable
<1>10. TypeOK'
  <2>1. isZero' \in [Ids -> BOOLEAN]
    BY <1>1, <1>5 DEF TypeOK
  <2> QED
    BY <1>1, <1>5, <1>6, <1>7, <2>1 DEF TypeOK
<1>11. ThreadsOK'
  <2> SUFFICES ASSUME NEW d \in CpuIds, NEW k \in DOMAIN order, Owns(d, order[k])
               PROVE  /\ evaluated[order[k]] <=> k < pos[d]
                      /\ k < pos[d] => row'[order[k]] = N
    BY <1>5, <1>7 DEF ThreadsOK, Owns
  <2>1. /\ evaluated[order[k]] <=> k < pos[d]
        /\ k < pos[d] => row[order[k]] = N
        /\ order[k] \in Ids
    BY <1>1, <1>3, PlanFacts DEF EvalInv, ThreadsOK
  <2> QED
    BY <1>6, <1>8, <2>1
<1>12. WrittenOK'
  <2> SUFFICES ASSUME NEW y \in Ids, ~exprs[y].alias, NEW u \in Rows, u < row'[y]
               PROVE  CanEval(y)' /\ Computed(y, u)'
    BY <1>7 DEF WrittenOK
  <2>1. u < row[y] \/ (y = x /\ u = w)
    <3>1. w \in Nat /\ u \in Nat
      BY RowFacts
    <3>2. CASE y = x
      <4>1. row'[x] = w + 1
        BY <1>6
      <4>2. u < w + 1
        BY <3>2, <4>1
      <4>3. u < w \/ u = w
        BY <3>1, <4>2
      <4> QED
        BY <1>4, <3>2, <4>3
    <3>3. CASE y # x
      BY <1>6, <3>3
    <3> QED
      BY <3>2, <3>3
  <2>2. CanEval(y)
    <3>1. CASE u < row[y]
      BY <1>3, <3>1 DEF EvalInv, WrittenOK
    <3>2. CASE y = x
      BY <1>5, <3>2
    <3> QED
      BY <2>1, <3>1, <3>2
  <2>3. CanEval(y)'
    BY <1>5, <1>7, <2>2 DEF CanEval, Readable
  <2>4. \A z \in Reads(exprs, y) : \A r \in Rows : evaluations'[z][r] = evaluations[z][r]
    BY <1>1, <1>6, <1>9, <2>2, PlanFacts
  <2>5. Arguments(y, u)' = Arguments(y, u)
    BY <1>1, <1>7, <2>4, PlanFacts, SameArguments
  <2>6. evaluations'[y][u] = Op(y, Arguments(y, u))
    <3>1. CASE y = x /\ u = w
      BY <1>6, <3>1 DEF Eval
    <3>2. CASE ~(y = x /\ u = w)
      <4>1. Computed(y, u)
        BY <1>3, <2>1, <3>2 DEF EvalInv, WrittenOK
      <4> QED
        BY <1>6, <3>2, <4>1 DEF Computed
    <3> QED
      BY <3>1, <3>2
  <2> QED
    BY <2>3, <2>5, <2>6 DEF Computed
<1>13. Sound' /\ ModeOK' /\ CountedOK' /\ AfterEval' /\ ExpandedOK'
  BY <1>3, <1>5, <1>7 DEF EvalInv, Sound, ModeOK, CountedOK, AfterEval, ExpandedOK
<1>14. VerdictInv'
  <2>1. scanned = {} /\ index = 1
    BY <1>3 DEF EvalInv, ModeOK, VerdictInv, CheckOK
  <2>2. ScanOK'
    BY <1>5, <2>1 DEF ScanOK
  <2>3. errorCount' = 0 /\ index' = 1 /\ outcome' = "running"
    BY <1>3, <1>5, <2>1 DEF VerdictInv, CheckOK
  <2>4. \A k \in 1 .. index' - 1 : FALSE
    BY <2>3
  <2>5. CheckOK'
    BY <2>3, <2>4 DEF CheckOK
  <2> QED
    BY <2>2, <2>5 DEF VerdictInv
<1> QED
  BY <1>10, <1>11, <1>12, <1>13, <1>14 DEF EvalInv

LEMMA EndExpressionStep ==
  ASSUME EvalInv, VerdictInv, NEW c \in CpuIds, EndExpression(c)
  PROVE  EvalInv' /\ VerdictInv'
<1>1. Sound /\ TypeOK /\ Busy(c) /\ Mine(c)
  BY DEF EvalInv, EndExpression
<1>2. PICK x \in Ids : x = Current(c)
  BY <1>1, CurrentFacts
<1>3. /\ pos[c] \in DOMAIN order /\ pos[c] \in Nat /\ Owns(c, x) /\ x = order[pos[c]]
      /\ phase = "eval" /\ outcome = "running"
  BY <1>1, <1>2, CurrentFacts
<1>4. /\ row[x] = N
      /\ evaluated' = [evaluated EXCEPT ![x] = TRUE]
      /\ evaluationsDone' = evaluationsDone + 1
      /\ pos' = [pos EXCEPT ![c] = pos[c] + 1]
      /\ UNCHANGED <<plan, evaluations, isZero, firstNonZero,
                     phase, row, scanned, index, errorCount, outcome>>
  BY <1>2 DEF EndExpression
<1>5. UNCHANGED <<exprs, order, group, cpuGroups, mode>>
  BY <1>4 DEF plan
<1>6. /\ evaluated' \in [Ids -> BOOLEAN]
      /\ \A y \in Ids : evaluated'[y] <=> y = x \/ evaluated[y]
      /\ pos' \in [CpuIds -> 1 .. Len(order) + 1]
      /\ \A d \in CpuIds : pos'[d] = IF d = c THEN pos[c] + 1 ELSE pos[d]
  <2>1. pos[c] + 1 \in 1 .. Len(order) + 1
    BY <1>1, <1>3, PlanFacts
  <2> QED
    BY <1>1, <1>4, <2>1 DEF TypeOK
<1>7. ~evaluated[x]
  BY <1>3 DEF EvalInv, ThreadsOK
<1>8. /\ evaluationsDone' = Cardinality({ y \in Ids : evaluated'[y] })
      /\ evaluationsDone' \in 0 .. Count
  <2> DEFINE S == { y \in Ids : evaluated[y] }
  <2>1. { y \in Ids : evaluated'[y] } = S \cup {x}
    BY <1>6
  <2>2. S \in SUBSET Ids /\ x \notin S
    BY <1>7
  <2>3. evaluationsDone = Cardinality(S)
    BY <1>3 DEF EvalInv, CountedOK
  <2> HIDE DEF S
  <2>4. Cardinality(S \cup {x}) = Cardinality(S) + 1 /\ Cardinality(S) + 1 \in 0 .. Count
    BY <2>2, EvaluatedCount
  <2> QED
    BY <1>4, <2>1, <2>3, <2>4
<1>9. TypeOK'
  BY <1>1, <1>4, <1>5, <1>6, <1>8 DEF TypeOK
<1>10. ThreadsOK'
  <2> SUFFICES ASSUME NEW d \in CpuIds, NEW k \in DOMAIN order, Owns(d, order[k])
               PROVE  /\ evaluated'[order[k]] <=> k < pos'[d]
                      /\ k < pos'[d] => row[order[k]] = N
    BY <1>4, <1>5 DEF ThreadsOK, Owns
  <2>1. /\ evaluated[order[k]] <=> k < pos[d]
        /\ k < pos[d] => row[order[k]] = N
        /\ order[k] \in Ids /\ k \in Nat
    BY <1>1, <1>3, PlanFacts DEF EvalInv, ThreadsOK
  <2>2. CASE d = c
    <3>1. order[k] = x <=> k = pos[c]
      BY <1>1, <1>3, PlanFacts
    <3>2. pos'[d] = pos[c] + 1
      BY <1>6, <2>2
    <3>3. k < pos[c] + 1 <=> k < pos[c] \/ k = pos[c]
      BY <1>3, <2>1
    <3> QED
      BY <1>4, <1>6, <2>1, <2>2, <3>1, <3>2, <3>3
  <2>3. CASE d # c
    <3>1. order[k] # x
      BY <1>1, <1>3, <2>1, <2>3, PlanFacts
    <3> QED
      BY <1>6, <2>1, <2>3, <3>1
  <2> QED
    BY <2>2, <2>3
<1>11. WrittenOK'
  <2> SUFFICES ASSUME NEW y \in Ids, ~exprs[y].alias, NEW u \in Rows, u < row[y]
               PROVE  CanEval(y)' /\ Computed(y, u)'
    BY <1>4, <1>5 DEF WrittenOK
  <2>1. CanEval(y) /\ Computed(y, u)
    BY <1>3 DEF EvalInv, WrittenOK
  <2>2. \A z \in Reads(exprs, y) : z \in Ids
    BY <1>1, PlanFacts
  <2>3. CanEval(y)'
    BY <1>5, <1>6, <2>1, <2>2 DEF CanEval, Readable
  <2>4. Computed(y, u)'
    BY <1>4, <1>5, <2>1 DEF Computed, Arguments
  <2> QED
    BY <2>3, <2>4
<1>12. Sound' /\ ModeOK' /\ CountedOK' /\ AfterEval' /\ ExpandedOK'
  BY <1>3, <1>4, <1>5, <1>8 DEF EvalInv, Sound, ModeOK, CountedOK, AfterEval, ExpandedOK
<1>13. VerdictInv'
  BY <1>4 DEF VerdictInv, ScanOK, CheckOK, NonZeroRows
<1> QED
  BY <1>9, <1>10, <1>11, <1>12, <1>13 DEF EvalInv

LEMMA JoinEvalStep == EvalInv /\ VerdictInv /\ JoinEval => EvalInv' /\ VerdictInv'
<1> SUFFICES ASSUME EvalInv, VerdictInv, JoinEval PROVE EvalInv' /\ VerdictInv'
  OBVIOUS
<1>1. /\ phase = "eval" /\ outcome = "running" /\ phase' = "alias"
      /\ \A c \in CpuIds : pos[c] > Len(order)
      /\ row' = [x \in Ids |-> 0]
      /\ UNCHANGED <<exprs, order, group, cpuGroups, mode, evaluations, evaluated, isZero,
                     firstNonZero, evaluationsDone, pos, scanned, index, errorCount, outcome>>
  BY DEF JoinEval, In, plan, data
<1>2. Sound /\ TypeOK
  BY DEF EvalInv
<1>3. ASSUME NEW x \in Ids
      PROVE  evaluated[x] /\ (~exprs[x].alias => \A w \in Rows : Computed(x, w))
  <2>1. PICK k \in DOMAIN order : order[k] = x
    BY <1>2, PlanFacts
  <2>2. PICK c \in CpuIds : Owns(c, x)
    BY <1>2, PlanFacts
  <2>3. k < pos[c]
    <3>1. Len(order) \in Nat /\ k \in 1 .. Len(order)
      BY <1>2, PlanFacts
    <3>2. pos[c] \in 1 .. Len(order) + 1 /\ pos[c] > Len(order)
      BY <1>1, <1>2 DEF TypeOK
    <3> QED
      BY <3>1, <3>2
  <2>4. evaluated[x] /\ row[x] = N
    BY <1>1, <2>1, <2>2, <2>3 DEF EvalInv, ThreadsOK
  <2>5. \A w \in Rows : w < N
    BY ColumnsAssumption DEF Rows
  <2> QED
    BY <1>1, <2>4, <2>5 DEF EvalInv, WrittenOK
<1>4. TypeOK'
  BY <1>1, <1>2, ColumnsAssumption DEF TypeOK
<1>5. CountedOK'
  <2>1. { x \in Ids : evaluated[x] } = Ids
    BY <1>3
  <2>2. Cardinality(Ids) = Count
    BY EvaluatedCount
  <2> QED
    BY <1>1, <2>1, <2>2 DEF EvalInv, CountedOK
<1>6. AfterEval'
  BY <1>1, <1>3 DEF AfterEval, Computed, Arguments
<1>7. ExpandedOK'
  BY <1>1 DEF ExpandedOK, Rows
<1>8. Sound' /\ ModeOK' /\ ThreadsOK' /\ WrittenOK'
  BY <1>1 DEF EvalInv, Sound, ModeOK, ThreadsOK, WrittenOK
<1>9. VerdictInv'
  BY <1>1 DEF VerdictInv, ScanOK, CheckOK, NonZeroRows
<1> QED
  BY <1>4, <1>5, <1>6, <1>7, <1>8, <1>9 DEF EvalInv
-----------------------------------------------------------------------------
(***************************************************************************)
(* The expansion of the aliases: it only writes columns that nothing       *)
(* reads.                                                                  *)
(***************************************************************************)
LEMMA ExpandRowStep ==
  ASSUME EvalInv, VerdictInv, NEW x \in Ids, ExpandRow(x)
  PROVE  EvalInv' /\ VerdictInv'
<1>1. /\ Sound /\ TypeOK /\ phase = "alias" /\ outcome = "running"
      /\ exprs[x].alias /\ row[x] < N /\ mode = "compute" /\ scanned = {}
  BY DEF EvalInv, ModeOK, ExpandRow, Expanding, In
<1>2. PICK w \in Rows : w = row[x]
  <2>1. row[x] \in 0 .. N
    BY <1>1 DEF TypeOK
  <2>2. row[x] \in Rows
    BY <1>1, <2>1, ColumnsAssumption DEF Rows
  <2> QED
    BY <2>2
<1>3. CanEval(x)
  <2>1. \A y \in Reads(exprs, x) : y \in Ids /\ group[y] = group[x]
    BY <1>1, PlanFacts
  <2>2. \A y \in Ids : evaluated[y]
    BY <1>1 DEF EvalInv, AfterEval
  <2> QED
    BY <2>1, <2>2 DEF CanEval, Readable
<1>4. /\ StoreRow(x, OperandValue(exprs[x].args[1], evaluations, w))
      /\ UNCHANGED <<plan, evaluated, isZero, firstNonZero, evaluationsDone,
                     phase, pos, scanned, index, errorCount, outcome>>
  BY <1>2, <1>3 DEF ExpandRow
<1>5. /\ row' \in [Ids -> 0 .. N]
      /\ \A y \in Ids : row'[y] = IF y = x THEN w + 1 ELSE row[y]
      /\ evaluations' = [y \in Ids |-> [u \in Rows |-> evaluations'[y][u]]]
      /\ \A y \in Ids : \A u \in Rows :
           evaluations'[y][u] = IF y = x /\ u = w THEN OperandValue(exprs[x].args[1], evaluations, w)
                                ELSE evaluations[y][u]
  BY <1>1, <1>2, <1>4, StoreFacts
<1>6. UNCHANGED <<exprs, order, group, cpuGroups, mode>>
  BY <1>4 DEF plan
<1>7. \A y \in Ids : \A z \in Reads(exprs, y) : \A r \in Rows : evaluations'[z][r] = evaluations[z][r]
  BY <1>1, <1>5, PlanFacts
<1>8. \A y \in Ids : \A u \in Rows :
        /\ Arguments(y, u)' = Arguments(y, u)
        /\ \A k \in DOMAIN exprs[y].args :
             OperandValue(exprs[y].args[k], evaluations, u)' =
               OperandValue(exprs[y].args[k], evaluations, u)
  BY <1>1, <1>6, <1>7, PlanFacts, SameArguments
<1>9. TypeOK'
  BY <1>1, <1>4, <1>5, <1>6 DEF TypeOK
<1>10. AfterEval'
  <2> SUFFICES ASSUME NEW y \in Ids
               PROVE  evaluated[y] /\ (~exprs[y].alias => \A u \in Rows : Computed(y, u)')
    BY <1>4, <1>6 DEF AfterEval
  <2>1. evaluated[y] /\ (~exprs[y].alias => \A u \in Rows : Computed(y, u))
    BY <1>1 DEF EvalInv, AfterEval
  <2> QED
    BY <1>1, <1>5, <1>8, <2>1 DEF Computed
<1>11. ExpandedOK'
  <2> SUFFICES ASSUME NEW y \in Ids, exprs[y].alias, NEW u \in Rows, u < row'[y]
               PROVE  Expanded(y, u)'
    BY <1>1, <1>4, <1>6 DEF ExpandedOK
  <2>1. 1 \in DOMAIN exprs[y].args
    BY <1>1, PlanFacts, OperandFacts
  <2>2. OperandValue(exprs[y].args[1], evaluations, u)' = OperandValue(exprs[y].args[1], evaluations, u)
    BY <1>8, <2>1
  <2>3. evaluations'[y][u] = OperandValue(exprs[y].args[1], evaluations, u)
    <3>1. CASE y = x /\ u = w
      BY <1>5, <3>1
    <3>2. CASE y = x /\ u # w
      <4>1. u \in Nat /\ w \in Nat
        BY RowFacts
      <4>2. u < w + 1
        BY <1>5, <3>2
      <4>3. u < row[y]
        BY <1>2, <3>2, <4>1, <4>2
      <4>4. Expanded(y, u)
        BY <1>1, <4>3 DEF EvalInv, ExpandedOK
      <4> QED
        BY <1>5, <3>2, <4>4 DEF Expanded
    <3>3. CASE y # x
      <4>1. u < row[y]
        BY <1>5, <3>3
      <4>2. Expanded(y, u)
        BY <1>1, <4>1 DEF EvalInv, ExpandedOK
      <4> QED
        BY <1>5, <3>3, <4>2 DEF Expanded
    <3> QED
      BY <3>1, <3>2, <3>3
  <2> QED
    BY <1>6, <2>2, <2>3 DEF Expanded
<1>12. Sound' /\ ModeOK' /\ ThreadsOK' /\ WrittenOK' /\ CountedOK'
  BY <1>1, <1>4, <1>6 DEF EvalInv, Sound, ModeOK, ThreadsOK, WrittenOK, CountedOK
<1>13. VerdictInv'
  <2>1. index = 1
    BY <1>1 DEF VerdictInv, CheckOK
  <2> QED
    BY <1>1, <1>4, <2>1 DEF VerdictInv, ScanOK, CheckOK
<1> QED
  BY <1>9, <1>10, <1>11, <1>12, <1>13 DEF EvalInv

LEMMA JoinExpandStep == EvalInv /\ VerdictInv /\ JoinExpand => EvalInv' /\ VerdictInv'
<1> SUFFICES ASSUME EvalInv, VerdictInv, JoinExpand PROVE EvalInv' /\ VerdictInv'
  OBVIOUS
<1>1. /\ phase = "alias" /\ outcome = "running" /\ phase' = "scan" /\ mode = "compute"
      /\ \A x \in Ids : exprs[x].alias => row[x] = N
      /\ UNCHANGED <<exprs, order, group, cpuGroups, mode, evaluations, evaluated, isZero,
                     firstNonZero, evaluationsDone, pos, row, scanned, index, errorCount, outcome>>
  BY DEF EvalInv, ModeOK, JoinExpand, In, plan, data
<1>2. TypeOK'
  BY <1>1 DEF EvalInv, TypeOK
<1>3. AfterEval'
  BY <1>1 DEF EvalInv, AfterEval, Computed, Arguments
<1>4. ExpandedOK'
  <2>1. \A w \in Rows : w < N
    BY ColumnsAssumption DEF Rows
  <2>2. \A x \in Ids : exprs[x].alias => \A w \in Rows : Expanded(x, w)
    BY <1>1, <2>1 DEF EvalInv, ExpandedOK
  <2> QED
    BY <1>1, <2>2 DEF ExpandedOK, Expanded
<1>5. Sound' /\ ModeOK' /\ ThreadsOK' /\ WrittenOK' /\ CountedOK'
  BY <1>1 DEF EvalInv, Sound, ModeOK, ThreadsOK, WrittenOK, CountedOK
<1>6. VerdictInv'
  BY <1>1 DEF VerdictInv, ScanOK, CheckOK, NonZeroRows
<1> QED
  BY <1>2, <1>3, <1>4, <1>5, <1>6 DEF EvalInv
-----------------------------------------------------------------------------
(***************************************************************************)
(* The least of a set of rows.                                             *)
(***************************************************************************)
LEMMA FirstFacts ==
  ASSUME NEW R \in SUBSET Rows, R # {}
  PROVE  First(R) \in R /\ \A w \in R : First(R) <= w
<1>1. R \in SUBSET Nat
  BY RowFacts
<1> DEFINE L == { s \in Nat \X Nat : s[1] < s[2] }
<1>2. IsWellFoundedOn(L, Nat)
  BY NatLessThanWellFounded DEF OpToRel
<1>3. \A r, w \in R : ~ (<<w, r>> \in L) => r <= w
  <2> SUFFICES ASSUME NEW r \in R, NEW w \in R, ~ (<<w, r>> \in L) PROVE r <= w
    OBVIOUS
  <2>1. r \in Nat /\ w \in Nat
    BY <1>1
  <2>2. ~ (w < r)
    BY <2>1
  <2> QED
    BY <2>1, <2>2
<1> HIDE DEF L
<1>4. \E r \in R : \A w \in R : ~ (<<w, r>> \in L)
  BY <1>1, <1>2, WFMin, Zenon
<1>5. \E r \in R : \A w \in R : r <= w
  BY <1>3, <1>4
<1> QED
  BY <1>5 DEF First

LEMMA ScanStep ==
  ASSUME EvalInv, VerdictInv, NEW x \in Ids, Scan(x)
  PROVE  EvalInv' /\ VerdictInv'
<1>1. /\ phase = "scan" /\ outcome = "running" /\ x \notin scanned
      /\ isZero' = [isZero EXCEPT ![x] = (NonZeroRows(x) = {})]
      /\ firstNonZero' =
           [firstNonZero EXCEPT ![x] = IF NonZeroRows(x) = {} THEN 0 ELSE First(NonZeroRows(x))]
      /\ evaluated' = [evaluated EXCEPT ![x] = TRUE]
      /\ scanned' = scanned \cup {x}
      /\ UNCHANGED <<exprs, order, group, cpuGroups, mode, evaluations, evaluationsDone,
                     phase, pos, row, index, errorCount, outcome>>
  BY DEF Scan, In, plan
<1>2. NonZeroRows(x) \in SUBSET Rows
  BY DEF NonZeroRows
<1>3. NonZeroRows(x) # {} =>
        /\ First(NonZeroRows(x)) \in NonZeroRows(x)
        /\ \A w \in NonZeroRows(x) : First(NonZeroRows(x)) <= w
  BY <1>2, FirstFacts
<1>4. 0 \in Rows
  BY ColumnsAssumption DEF Rows
<1>5. TypeOK'
  <2>1. firstNonZero' \in [Ids -> Rows]
    <3> DEFINE r == IF NonZeroRows(x) = {} THEN 0 ELSE First(NonZeroRows(x))
    <3>1. r \in Rows /\ firstNonZero' = [firstNonZero EXCEPT ![x] = r]
      BY <1>1, <1>2, <1>3, <1>4
    <3> HIDE DEF r
    <3> QED
      BY <3>1 DEF EvalInv, TypeOK
  <2>2. isZero' \in [Ids -> BOOLEAN] /\ evaluated' \in [Ids -> BOOLEAN] /\ scanned' \subseteq Ids
    BY <1>1 DEF EvalInv, TypeOK
  <2> QED
    BY <1>1, <2>1, <2>2 DEF EvalInv, TypeOK
<1>6. AfterEval'
  <2>1. \A y \in Ids : evaluated[y] => evaluated'[y]
    BY <1>1 DEF EvalInv, TypeOK
  <2> QED
    BY <1>1, <2>1 DEF EvalInv, AfterEval, Computed, Arguments
<1>7. Sound' /\ ModeOK' /\ ThreadsOK' /\ WrittenOK' /\ CountedOK' /\ ExpandedOK'
  BY <1>1 DEF EvalInv, Sound, ModeOK, ThreadsOK, WrittenOK, CountedOK, ExpandedOK, Expanded
<1>8. ScanOK'
  <2> SUFFICES ASSUME NEW y \in scanned'
               PROVE  /\ isZero'[y] <=> NonZeroRows(y) = {}
                      /\ ~isZero'[y] => /\ firstNonZero'[y] \in NonZeroRows(y)
                                        /\ \A w \in NonZeroRows(y) : firstNonZero'[y] <= w
    BY <1>1 DEF ScanOK, NonZeroRows
  <2>1. x \in DOMAIN isZero /\ x \in DOMAIN firstNonZero
    BY DEF EvalInv, TypeOK
  <2>2. CASE y = x
    BY <1>1, <1>3, <2>1, <2>2
  <2>3. CASE y # x
    <3>1. y \in scanned /\ isZero'[y] = isZero[y] /\ firstNonZero'[y] = firstNonZero[y]
      BY <1>1, <2>3 DEF EvalInv, TypeOK
    <3> QED
      BY <3>1 DEF VerdictInv, ScanOK
  <2> QED
    BY <2>2, <2>3
<1>9. CheckOK'
  <2>1. index = 1 /\ phase # "check"
    BY <1>1 DEF VerdictInv, CheckOK
  <2> QED
    BY <1>1, <2>1 DEF VerdictInv, CheckOK
<1> QED
  BY <1>5, <1>6, <1>7, <1>8, <1>9 DEF EvalInv, VerdictInv

LEMMA JoinScanStep == EvalInv /\ VerdictInv /\ JoinScan => EvalInv' /\ VerdictInv'
<1> SUFFICES ASSUME EvalInv, VerdictInv, JoinScan PROVE EvalInv' /\ VerdictInv'
  OBVIOUS
<1>1. /\ phase = "scan" /\ outcome = "running" /\ phase' = "check" /\ scanned = Ids
      /\ UNCHANGED <<exprs, order, group, cpuGroups, mode, evaluations, evaluated, isZero,
                     firstNonZero, evaluationsDone, pos, row, scanned, index, errorCount, outcome>>
  BY DEF JoinScan, In, plan, data
<1>2. TypeOK'
  BY <1>1 DEF EvalInv, TypeOK
<1>3. AfterEval' /\ ExpandedOK'
  BY <1>1 DEF EvalInv, AfterEval, Computed, Arguments, ExpandedOK, Expanded
<1>4. Sound' /\ ModeOK' /\ ThreadsOK' /\ WrittenOK' /\ CountedOK'
  BY <1>1 DEF EvalInv, Sound, ModeOK, ThreadsOK, WrittenOK, CountedOK
<1>5. VerdictInv'
  BY <1>1 DEF VerdictInv, ScanOK, CheckOK, NonZeroRows
<1> QED
  BY <1>2, <1>3, <1>4, <1>5 DEF EvalInv
-----------------------------------------------------------------------------
(***************************************************************************)
(* Neither the check nor the report touches what was evaluated.            *)
(***************************************************************************)
LEMMA EvalUnchanged ==
  ASSUME EvalInv, ScanOK, UNCHANGED <<plan, data, phase, pos, row, scanned>>
  PROVE  /\ Sound' /\ ModeOK' /\ ThreadsOK' /\ WrittenOK' /\ CountedOK' /\ AfterEval' /\ ExpandedOK'
         /\ ScanOK'
<1>1. UNCHANGED <<exprs, order, group, cpuGroups, mode, evaluations, evaluated, isZero,
                  firstNonZero, evaluationsDone, phase, pos, row, scanned>>
  BY DEF plan, data
<1>2. Sound' /\ ModeOK' /\ ThreadsOK' /\ CountedOK'
  BY <1>1 DEF EvalInv, Sound, ModeOK, ThreadsOK, CountedOK, Owns
<1>3. WrittenOK' /\ AfterEval' /\ ExpandedOK'
  BY <1>1 DEF EvalInv, WrittenOK, CanEval, Readable, AfterEval, Computed, Arguments, ExpandedOK, Expanded
<1>4. ScanOK'
  BY <1>1 DEF ScanOK, NonZeroRows
<1> QED
  BY <1>2, <1>3, <1>4

LEMMA IdentityFacts ==
  /\ Len(Identities) \in Nat /\ DOMAIN Identities = 1 .. Len(Identities)
  /\ \A k \in DOMAIN Identities : Identities[k] \in Ids
  BY EvaluateAssumption, LenProperties, ElementOfSeq

LEMMA CheckIdentityStep == EvalInv /\ VerdictInv /\ CheckIdentity => EvalInv' /\ VerdictInv'
<1> SUFFICES ASSUME EvalInv, VerdictInv, CheckIdentity PROVE EvalInv' /\ VerdictInv'
  OBVIOUS
<1>1. /\ phase = "check" /\ outcome = "running" /\ index <= Len(Identities)
      /\ errorCount' = IF isZero[Identities[index]] THEN errorCount ELSE errorCount + 1
      /\ index' = index + 1
      /\ UNCHANGED <<plan, data, phase, pos, row, scanned, outcome>>
  BY DEF CheckIdentity, In
<1>2. UNCHANGED <<exprs, order, group, cpuGroups, mode, evaluations, evaluated, isZero,
                  firstNonZero, evaluationsDone, phase, pos, row, scanned>>
  BY <1>1 DEF plan, data
<1>3. index \in 1 .. Len(Identities) + 1 /\ errorCount \in 0 .. index - 1 /\ Len(Identities) \in Nat
  BY IdentityFacts DEF EvalInv, TypeOK
<1>4. index' \in 1 .. Len(Identities) + 1 /\ errorCount' \in 0 .. index' - 1
  BY <1>1, <1>3
<1>5. TypeOK'
  BY <1>1, <1>2, <1>4 DEF EvalInv, TypeOK
<1>6. errorCount' = 0 <=> \A k \in 1 .. index' - 1 : isZero[Identities[k]]
  <2>1. errorCount = 0 <=> \A k \in 1 .. index - 1 : isZero[Identities[k]]
    BY DEF VerdictInv, CheckOK
  <2>2. index \in 1 .. index' - 1
    BY <1>1, <1>3
  <2>3. \A k \in 1 .. index' - 1 : k = index \/ k \in 1 .. index - 1
    BY <1>1, <1>3
  <2>4. \A k \in 1 .. index - 1 : k \in 1 .. index' - 1
    BY <1>1, <1>3
  <2>5. CASE isZero[Identities[index]]
    <3>1. errorCount' = errorCount
      BY <1>1, <2>5
    <3> QED
      BY <2>1, <2>3, <2>4, <2>5, <3>1
  <2>6. CASE ~isZero[Identities[index]]
    <3>1. errorCount' = errorCount + 1
      BY <1>1, <2>6
    <3>2. errorCount' # 0
      BY <1>3, <3>1
    <3> QED
      BY <2>2, <2>6, <3>2
  <2> QED
    BY <2>5, <2>6
<1>7. CheckOK'
  BY <1>1, <1>2, <1>6 DEF CheckOK
<1> QED
  BY <1>1, <1>5, <1>7, EvalUnchanged DEF EvalInv, VerdictInv

LEMMA ReportStep == EvalInv /\ VerdictInv /\ Report => EvalInv' /\ VerdictInv'
<1> SUFFICES ASSUME EvalInv, VerdictInv, Report PROVE EvalInv' /\ VerdictInv'
  OBVIOUS
<1>1. /\ phase = "check" /\ index > Len(Identities) /\ outcome' = Verdict
      /\ UNCHANGED <<plan, data, phase, pos, row, scanned, index, errorCount>>
  BY DEF Report, In
<1>2. UNCHANGED <<exprs, order, group, cpuGroups, mode, evaluations, evaluated, isZero,
                  firstNonZero, evaluationsDone, phase, pos, row, scanned>>
  BY <1>1 DEF plan, data
<1>3. /\ outcome' \in {"no identities", "OK", "FAIL"}
      /\ outcome' \in {"OK", "FAIL"} => (outcome' = "OK" <=> errorCount = 0)
      /\ outcome' = "no identities" <=> Identities = <<>>
  BY <1>1 DEF Verdict
<1>4. TypeOK'
  BY <1>1, <1>2, <1>3 DEF EvalInv, TypeOK
<1>5. CheckOK'
  BY <1>1, <1>2, <1>3 DEF VerdictInv, CheckOK
<1> QED
  BY <1>1, <1>4, <1>5, EvalUnchanged DEF EvalInv, VerdictInv
-----------------------------------------------------------------------------
LEMMA InvStep == EvalInv /\ VerdictInv /\ [Next]_vars => EvalInv' /\ VerdictInv'
<1> SUFFICES ASSUME EvalInv, VerdictInv, [Next]_vars PROVE EvalInv' /\ VerdictInv'
  OBVIOUS
<1>1. ASSUME NEW c \in CpuIds, CpuStep(c) PROVE EvalInv' /\ VerdictInv'
  BY <1>1, SkipExpressionStep, EvalRowStep, EndExpressionStep DEF CpuStep
<1>2. ASSUME NEW x \in Ids, TaskStep(x) PROVE EvalInv' /\ VerdictInv'
  BY <1>2, ExpandRowStep, ScanStep DEF TaskStep
<1>3. ASSUME JoinEval \/ JoinExpand \/ JoinScan PROVE EvalInv' /\ VerdictInv'
  BY <1>3, JoinEvalStep, JoinExpandStep, JoinScanStep
<1>4. ASSUME CheckIdentity \/ Report PROVE EvalInv' /\ VerdictInv'
  BY <1>4, CheckIdentityStep, ReportStep
<1>5. CASE UNCHANGED vars
  <2>1. UNCHANGED <<plan, data, phase, pos, row, scanned, index, errorCount, outcome>>
    BY <1>5 DEF vars, control
  <2>2. UNCHANGED <<exprs, order, group, cpuGroups, mode, evaluations, evaluated, isZero,
                    firstNonZero, evaluationsDone>>
    BY <2>1 DEF plan, data
  <2>3. TypeOK'
    BY <2>1, <2>2 DEF EvalInv, TypeOK
  <2>4. CheckOK'
    BY <2>1, <2>2 DEF VerdictInv, CheckOK
  <2> QED
    BY <2>1, <2>3, <2>4, EvalUnchanged DEF EvalInv, VerdictInv
<1> QED
  BY <1>1, <1>2, <1>3, <1>4, <1>5 DEF Next, Stop

(***************************************************************************)
(* What the invariants say when the verdict is out.                        *)
(***************************************************************************)
LEMMA EquationsFacts ==
  ASSUME EvalInv, mode = "compute", phase \in {"scan", "check"}, NEW x \in Ids, NEW w \in Rows
  PROVE  Denotes(x, w)
<1>1. CASE exprs[x].alias
  BY <1>1 DEF EvalInv, ExpandedOK, Expanded, Denotes
<1>2. CASE ~exprs[x].alias
  BY <1>2 DEF EvalInv, AfterEval, Computed, Denotes
<1> QED
  BY <1>1, <1>2

LEMMA VerdictFacts ==
  ASSUME EvalInv, VerdictInv, outcome \in {"OK", "FAIL"}, mode # "skip"
  PROVE  outcome = "OK" <=>
           \A k \in DOMAIN Identities : \A w \in Rows : evaluations[Identities[k]][w] = Zero
<1>1. index > Len(Identities) /\ (outcome = "OK" <=> errorCount = 0)
  BY DEF VerdictInv, CheckOK
<1>2. phase = "check" /\ scanned = Ids
  BY DEF EvalInv, ModeOK, VerdictInv, CheckOK
<1>3. index \in Nat /\ index <= Len(Identities) + 1 /\ Len(Identities) \in Nat
  <2>1. index \in 1 .. Len(Identities) + 1
    BY DEF EvalInv, TypeOK
  <2> QED
    BY <2>1, IdentityFacts
<1>4. DOMAIN Identities = 1 .. index - 1
  BY <1>1, <1>3, IdentityFacts
<1>5. errorCount = 0 <=> \A k \in DOMAIN Identities : isZero[Identities[k]]
  BY <1>4 DEF VerdictInv, CheckOK
<1>6. \A x \in Ids : isZero[x] <=> \A w \in Rows : evaluations[x][w] = Zero
  BY <1>2 DEF VerdictInv, ScanOK, NonZeroRows
<1> QED
  BY <1>1, <1>5, <1>6, IdentityFacts

LEMMA Invariants == Spec => [](EvalInv /\ VerdictInv)
  BY InitInv, InvStep, PTL DEF Spec

(***************************************************************************)
(* The columns stay tables of N rows, the loop variables stay within their *)
(* loops and the counters within their bounds.                             *)
(***************************************************************************)
THEOREM TypeCorrect == Spec => []TypeOK
<1>1. EvalInv => TypeOK
  BY DEF EvalInv
<1> QED
  BY <1>1, Invariants, PTL

(***************************************************************************)
(* The checks of getEvaluation pass under every interleaving of any number *)
(* of threads: no thread reads another group, or an expression that is not *)
(* evaluated.                                                              *)
(***************************************************************************)
THEOREM EvaluationNeverAborts == Spec => []NeverAborts
<1>1. VerdictInv => NeverAborts
  BY DEF VerdictInv, CheckOK, NeverAborts
<1> QED
  BY <1>1, Invariants, PTL

(***************************************************************************)
(* No thread reads or writes a column that another thread is writing.      *)
(***************************************************************************)
THEOREM ThreadsDoNotRace == Spec => []NoRace
<1>1. ASSUME EvalInv PROVE NoRace
  <2>1. Sound /\ TypeOK
    BY <1>1 DEF EvalInv
  <2>2. ASSUME NEW c \in CpuIds, NEW d \in CpuIds, c # d, NEW x \in Writes(c), NEW y \in Writes(d)
        PROVE  x # y /\ x \notin Reads(exprs, y)
    <3>1. Busy(c) /\ Mine(c) /\ x = Current(c) /\ Busy(d) /\ Mine(d) /\ y = Current(d)
      BY <2>2 DEF Writes
    <3>2. x \in Ids /\ Owns(c, x) /\ y \in Ids /\ Owns(d, y)
      BY <2>1, <3>1, CurrentFacts
    <3>3. group[x] # group[y]
      BY <2>1, <2>2, <3>2, PlanFacts
    <3> QED
      BY <2>1, <3>2, <3>3, PlanFacts
  <2>3. \A x, y \in Ids : Expanding(x) /\ Expanding(y) => x \notin Reads(exprs, y)
    BY <2>1, PlanFacts DEF Expanding
  <2> QED
    BY <2>2, <2>3 DEF NoRace
<1> QED
  BY <1>1, Invariants, PTL

(***************************************************************************)
(* After the evaluation every row of every column is what its expression   *)
(* says of the columns it reads, whatever the number of threads and the    *)
(* order of their steps.                                                   *)
(***************************************************************************)
THEOREM ColumnsSatisfyEquations == Spec => []EquationsHold
<1>1. EvalInv => EquationsHold
  BY EquationsFacts DEF EquationsHold
<1> QED
  BY <1>1, Invariants, PTL

(***************************************************************************)
(* Every expression is evaluated once: the progress counter reaches Count. *)
(***************************************************************************)
THEOREM AllAreCounted == Spec => []AllCounted
<1>1. EvalInv => AllCounted
  BY DEF EvalInv, CountedOK, AllCounted
<1> QED
  BY <1>1, Invariants, PTL

(***************************************************************************)
(* Unless the calculation is skipped, the verdict is "OK" exactly when     *)
(* every identity is zero at every row.                                    *)
(***************************************************************************)
THEOREM VerdictIsExact == Spec => []VerdictExact
<1>1. EvalInv /\ VerdictInv => VerdictExact
  BY VerdictFacts DEF VerdictExact
<1> QED
  BY <1>1, Invariants, PTL

(***************************************************************************)
(* The row reported for an expression that is not zero is the first row at *)
(* which it is not.                                                        *)
(***************************************************************************)
THEOREM ReportedRowIsFirst == Spec => []FirstRowReported
<1>1. ASSUME EvalInv, VerdictInv PROVE FirstRowReported
  <2> SUFFICES ASSUME phase = "check", mode # "skip", NEW x \in Ids, ~isZero[x]
               PROVE  /\ evaluations[x][firstNonZero[x]] # Zero
                      /\ \A w \in Rows : w < firstNonZero[x] => evaluations[x][w] = Zero
    BY DEF FirstRowReported
  <2>1. /\ firstNonZero[x] \in NonZeroRows(x)
        /\ \A w \in NonZeroRows(x) : firstNonZero[x] <= w
    BY <1>1 DEF EvalInv, ModeOK, VerdictInv, ScanOK
  <2>2. firstNonZero[x] \in Nat /\ \A w \in Rows : w \in Nat
    BY <2>1, RowFacts DEF NonZeroRows
  <2>3. \A w \in Rows : w < firstNonZero[x] => w \notin NonZeroRows(x)
    BY <2>1, <2>2
  <2> QED
    BY <2>1, <2>3 DEF NonZeroRows
<1> QED
  BY <1>1, Invariants, PTL
=============================================================================
