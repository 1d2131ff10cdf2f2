-------------------------- MODULE Pipeline_proofs --------------------------
(***************************************************************************)
(* Proofs about module Pipeline: for every number of expressions, rows and *)
(* threads, every field and set of operations and every acyclic program,   *)
(* the components hand over what the next one needs, the columns are those *)
(* of the program that was parsed, and the verdict is the one of module    *)
(* Verifier.                                                               *)
(*                                                                         *)
(* The invariants of the components, and that their steps preserve them,   *)
(* are taken from their own proof modules, instantiated here with the      *)
(* variables of Pipeline.                                                  *)
(*                                                                         *)
(* The last part is about module Session, the runs of this engine that     *)
(* follow each other over one file of evaluations.                         *)
(***************************************************************************)
EXTENDS Pipeline, Session, SequenceTheorems, TLAPS, WellFoundedInduction

\* What compile lets pass, which is what Reduce assumes of its programs.
AcceptedPrograms == { p \in Programs : R!IsCompiled(p) }

CP == INSTANCE Compile_proofs WITH calls <- compileCalls, index <- compileIndex, outcome <- compileOutcome
RP == INSTANCE Reduce_proofs WITH Programs <- AcceptedPrograms, Values <- {}
GP == INSTANCE Groups_proofs WITH Graphs <- [Ids -> Seq(Ids)], calls <- groupCalls, phase <- groupPhase
EP == INSTANCE Evaluate_proofs WITH Plans <- {}, Modes <- {"compute"}
-----------------------------------------------------------------------------
(***************************************************************************)
(* Every instance has its own copy of the operators of Program and Columns:*)
(* they are the same operators.                                            *)
(***************************************************************************)
LEMMA SameIds ==
  /\ CP!Ids = Ids /\ RP!Ids = Ids /\ GP!Ids = Ids /\ EP!Ids = Ids
  /\ R!Ids = Ids /\ C!Ids = Ids /\ G!Ids = Ids /\ E!Ids = Ids
  /\ Promise!Ids = Ids
  BY DEF Ids, Promise!Ids, CP!Ids, RP!Ids, GP!Ids, EP!Ids, R!Ids, C!Ids, G!Ids, E!Ids

LEMMA SamePrograms ==
  ASSUME NEW p
  PROVE  /\ CP!IsProgram(p) <=> IsProgram(p)
         /\ RP!IsProgram(p) <=> IsProgram(p)
         /\ R!IsProgram(p) <=> IsProgram(p)
         /\ E!IsProgram(p) <=> IsProgram(p)
         /\ EP!IsProgram(p) <=> IsProgram(p)
<1>1. /\ CP!Expressions = Expressions /\ RP!Expressions = Expressions
      /\ R!Expressions = Expressions /\ E!Expressions = Expressions
      /\ EP!Expressions = Expressions
  BY DEF Expressions, Operands, OperandTypes,
     CP!Expressions, CP!Operands, CP!OperandTypes, RP!Expressions, RP!Operands, RP!OperandTypes,
     R!Expressions, R!Operands, R!OperandTypes, E!Expressions, E!Operands, E!OperandTypes,
     EP!Expressions, EP!Operands, EP!OperandTypes
<1> QED
  BY <1>1, SameIds DEF IsProgram, IsExp, CP!IsProgram, CP!IsExp, RP!IsProgram, RP!IsExp,
     R!IsProgram, R!IsExp, E!IsProgram, E!IsExp, EP!IsProgram, EP!IsExp

LEMMA SameReads ==
  ASSUME NEW p, NEW x
  PROVE  /\ CP!Reads(p, x) = Reads(p, x)
         /\ RP!Reads(p, x) = Reads(p, x)
         /\ R!Reads(p, x) = Reads(p, x)
         /\ E!Reads(p, x) = Reads(p, x)
         /\ EP!Reads(p, x) = Reads(p, x)
  BY DEF Reads, ReadsUpTo, IsExp, CP!Reads, CP!ReadsUpTo, CP!IsExp,
     RP!Reads, RP!ReadsUpTo, RP!IsExp, R!Reads, R!ReadsUpTo, R!IsExp,
     E!Reads, E!ReadsUpTo, E!IsExp, EP!Reads, EP!ReadsUpTo, EP!IsExp

LEMMA SameAcyclic ==
  ASSUME NEW p
  PROVE  (CP!Acyclic(p) <=> Acyclic(p)) /\ (RP!Acyclic(p) <=> Acyclic(p))
  BY SameIds, SameReads DEF Acyclic, Ranks, CP!Acyclic, CP!Ranks, RP!Acyclic, RP!Ranks

(***************************************************************************)
(* What the components assume of their constants holds of Pipeline's.      *)
(***************************************************************************)
LEMMA Assumptions ==
  /\ CP!CountAssumption /\ CP!ProgramsAssumption
  /\ RP!CountAssumption /\ RP!ColumnsAssumption /\ RP!ReduceAssumption
  /\ GP!CountAssumption /\ GP!GroupsAssumption
  /\ EP!CountAssumption /\ EP!ColumnsAssumption /\ EP!EvaluateAssumption /\ EP!PlansAssumption
<1>1. RP!ReduceAssumption
  BY PipelineAssumption, SameIds, SamePrograms, SameAcyclic
  DEF RP!ReduceAssumption, AcceptedPrograms, R!IsCompiled, RP!IsCompiled, RP!IsExp, R!IsExp
<1>2. EP!EvaluateAssumption
  BY PipelineAssumption, SameIds DEF EP!EvaluateAssumption, EP!Rows, Rows
<1> QED
  BY <1>1, <1>2, CountAssumption, ColumnsAssumption, PipelineAssumption, SameIds, SamePrograms
  DEF CP!CountAssumption, CP!ProgramsAssumption, RP!CountAssumption, RP!ColumnsAssumption,
      GP!CountAssumption, GP!GroupsAssumption,
      EP!CountAssumption, EP!ColumnsAssumption, EP!PlansAssumption

(***************************************************************************)
(* What Evaluate_proofs says of operands.                                  *)
(***************************************************************************)
LEMMA OperandFacts ==
  ASSUME NEW p, IsProgram(p), NEW x \in Ids
  PROVE  /\ p[x] \in [alias : BOOLEAN, args : Seq(Operands)]
         /\ Len(p[x].args) \in Nat
         /\ DOMAIN p[x].args = 1 .. Len(p[x].args)
         /\ p[x].alias => DOMAIN p[x].args = {1}
         /\ \A k \in DOMAIN p[x].args :
              /\ p[x].args[k] \in Operands
              /\ IsExp(p[x].args[k]) => p[x].args[k].id \in Ids
         /\ \A y : y \in Reads(p, x) <=>
              \E k \in DOMAIN p[x].args : IsExp(p[x].args[k]) /\ p[x].args[k].id = y
<1>1. EP!Operands = Operands /\ \A o : EP!IsExp(o) <=> IsExp(o)
  BY DEF Operands, OperandTypes, IsExp, EP!Operands, EP!OperandTypes, EP!IsExp
<1>2. EP!IsProgram(p) /\ x \in EP!Ids
  BY SameIds, SamePrograms
<1>3. /\ p[x] \in [alias : BOOLEAN, args : Seq(EP!Operands)]
      /\ Len(p[x].args) \in Nat
      /\ DOMAIN p[x].args = 1 .. Len(p[x].args)
      /\ p[x].alias => DOMAIN p[x].args = {1}
      /\ \A k \in DOMAIN p[x].args :
           /\ p[x].args[k] \in EP!Operands
           /\ EP!IsExp(p[x].args[k]) => p[x].args[k].id \in EP!Ids
      /\ \A y : y \in EP!Reads(p, x) <=>
           \E k \in DOMAIN p[x].args : EP!IsExp(p[x].args[k]) /\ p[x].args[k].id = y
  BY <1>2, Assumptions, EP!OperandFacts
<1> QED
  BY <1>1, <1>3, SameIds, SameReads
-----------------------------------------------------------------------------
(***************************************************************************)
(* The inductive steps of the components.                                  *)
(***************************************************************************)
LEMMA CompileInvStep ==
  CP!BaseInv /\ CP!RankInv /\ CP!AcceptInv /\ [CP!Next]_(CP!vars) =>
    (CP!BaseInv /\ CP!RankInv /\ CP!AcceptInv)'
  BY Assumptions, CP!InvStep

LEMMA ReduceInvStep == RP!ReduceInv /\ [RP!Next]_(RP!vars) => RP!ReduceInv'
  BY Assumptions, RP!InvStep

LEMMA GroupsInvStep == GP!SetInv /\ GP!DealInv /\ [GP!Next]_(GP!vars) => GP!SetInv' /\ GP!DealInv'
  BY Assumptions, GP!InvStep

LEMMA EvaluateInvStep ==
  EP!EvalInv /\ EP!VerdictInv /\ [EP!Next]_(EP!vars) => EP!EvalInv' /\ EP!VerdictInv'
  BY Assumptions, EP!InvStep
-----------------------------------------------------------------------------
(***************************************************************************)
(* The components of Pipeline, and the instances that the proofs are about,*)
(* take the same steps.                                                    *)
(***************************************************************************)
LEMMA SameCompile ==
  /\ C!Init <=> CP!Init
  /\ C!Next <=> CP!Next
  /\ C!Loaded <=> CP!Loaded
<1>1. C!Init <=> CP!Init
  BY DEF C!Init, CP!Init, C!Ids, CP!Ids
<1>2. C!CompileNext <=> CP!CompileNext
  BY DEF C!CompileNext, CP!CompileNext, C!Call, CP!Call
<1>3. C!ReadOperand <=> CP!ReadOperand
  BY DEF C!ReadOperand, CP!ReadOperand, C!Compiling, CP!Compiling, C!Operand,
     CP!Operand, C!NotAllowed, CP!NotAllowed, C!Add, CP!Add, C!Range,
     CP!Range, C!Top, CP!Top, C!IsExp, CP!IsExp
<1>4. C!EndCompile <=> CP!EndCompile
  BY DEF C!EndCompile, CP!EndCompile, C!Compiling, CP!Compiling, C!Top,
     CP!Top
<1>5. C!VisitDependency <=> CP!VisitDependency
  BY DEF C!VisitDependency, CP!VisitDependency, C!Call, CP!Call, C!Visiting,
     CP!Visiting, C!Top, CP!Top
<1>6. C!MergeDependency <=> CP!MergeDependency
  BY DEF C!MergeDependency, CP!MergeDependency, C!Add, CP!Add, C!Range,
     CP!Range, C!Visiting, CP!Visiting, C!Top, CP!Top
<1>7. C!Return <=> CP!Return
  BY DEF C!Return, CP!Return, C!Add, CP!Add, C!Range, CP!Range, C!Visiting,
     CP!Visiting, C!Top, CP!Top
<1>8. C!Loaded <=> CP!Loaded
  BY DEF C!Loaded, CP!Loaded
<1>9. C!Stop <=> CP!Stop
  BY DEF C!Stop, CP!Stop, C!Finished, CP!Finished, C!Loaded, CP!Loaded,
     C!vars, CP!vars
<1> QED
  BY <1>1, <1>2, <1>3, <1>4, <1>5, <1>6, <1>7, <1>8, <1>9 DEF C!Next, CP!Next

LEMMA SameReduce ==
  /\ R!Next <=> RP!Next
  /\ R!Reduced <=> RP!Reduced
<1>1. R!NotAnAlias <=> RP!NotAnAlias
  BY DEF R!NotAnAlias, RP!NotAnAlias
<1>2. R!PickAlias <=> RP!PickAlias
  BY DEF R!PickAlias, RP!PickAlias
<1>3. R!FollowChain <=> RP!FollowChain
  BY DEF R!FollowChain, RP!FollowChain, R!AliasOf, RP!AliasOf,
     R!AliasOfExpression, RP!AliasOfExpression, R!IsExp, RP!IsExp
<1>4. R!Replace <=> RP!Replace
  BY DEF R!Replace, RP!Replace, R!AliasOf, RP!AliasOf, R!AliasOfExpression,
     RP!AliasOfExpression, R!IsExp, RP!IsExp, R!ChainEnd, RP!ChainEnd,
     R!ReplaceAll, RP!ReplaceAll, R!ReplaceIn, RP!ReplaceIn,
     R!ReplaceOperand, RP!ReplaceOperand, R!Ids, RP!Ids
<1>5. R!Reduced <=> RP!Reduced
  BY DEF R!Reduced, RP!Reduced
<1>6. R!Stop <=> RP!Stop
  BY DEF R!Stop, RP!Stop, R!Reduced, RP!Reduced, R!vars, RP!vars
<1> QED
  BY <1>1, <1>2, <1>3, <1>4, <1>5, <1>6 DEF R!Next, RP!Next

LEMMA SameGroups ==
  /\ G!Start <=> GP!Start
  /\ G!Next <=> GP!Next
  /\ G!Done <=> GP!Done
<1>1. G!Start <=> GP!Start
  BY DEF G!Start, GP!Start, G!Ids, GP!Ids, G!CpuIds, GP!CpuIds
<1>2. G!SkipRoot <=> GP!SkipRoot
  BY DEF G!SkipRoot, GP!SkipRoot, G!AtRoot, GP!AtRoot
<1>3. G!CallRoot <=> GP!CallRoot
  BY DEF G!CallRoot, GP!CallRoot, G!AtRoot, GP!AtRoot
<1>4. G!MergeDependency <=> GP!MergeDependency
  BY DEF G!MergeDependency, GP!MergeDependency, G!HasDependency,
     GP!HasDependency, G!Dependency, GP!Dependency, G!InOtherGroup,
     GP!InOtherGroup, G!MergeGroup, GP!MergeGroup, G!Advanced, GP!Advanced,
     G!Top, GP!Top, G!Ids, GP!Ids
<1>5. G!DescendDependency <=> GP!DescendDependency
  BY DEF G!DescendDependency, GP!DescendDependency, G!HasDependency,
     GP!HasDependency, G!Dependency, GP!Dependency, G!InOtherGroup,
     GP!InOtherGroup, G!Advanced, GP!Advanced, G!Top, GP!Top
<1>6. G!SetGroup <=> GP!SetGroup
  BY DEF G!SetGroup, GP!SetGroup, G!Top, GP!Top
<1>7. G!SortGroups <=> GP!SortGroups
  BY DEF G!SortGroups, GP!SortGroups, G!IsSorted, GP!IsSorted, G!GroupSize,
     GP!GroupSize, G!Members, GP!Members, G!Cardinality, GP!Cardinality,
     G!Range, GP!Range, G!Ids, GP!Ids
<1>8. G!AssignGroup <=> GP!AssignGroup
  BY DEF G!AssignGroup, GP!AssignGroup, G!Assigning, GP!Assigning,
     G!CpuGroupSize, GP!CpuGroupSize, G!CpuGroupSizeTarget,
     GP!CpuGroupSizeTarget, G!NextCpu, GP!NextCpu, G!Cardinality,
     GP!Cardinality, G!Range, GP!Range, G!Ids, GP!Ids
<1>9. G!SkipFullCpu <=> GP!SkipFullCpu
  BY DEF G!SkipFullCpu, GP!SkipFullCpu, G!Assigning, GP!Assigning,
     G!CpuGroupSize, GP!CpuGroupSize, G!CpuGroupSizeTarget,
     GP!CpuGroupSizeTarget, G!NextCpu, GP!NextCpu, G!Cardinality,
     GP!Cardinality, G!Range, GP!Range, G!Ids, GP!Ids
<1>10. G!Finish <=> GP!Finish
  BY DEF G!Finish, GP!Finish
<1>11. G!Done <=> GP!Done
  BY DEF G!Done, GP!Done
<1>12. G!Stop <=> GP!Stop
  BY DEF G!Stop, GP!Stop, G!Done, GP!Done, G!vars, GP!vars
<1> QED
  BY <1>1, <1>2, <1>3, <1>4, <1>5, <1>6, <1>7, <1>8, <1>9, <1>10, <1>11,
     <1>12 DEF G!Next, GP!Next

LEMMA SameEvaluate ==
  /\ E!Start <=> EP!Start
  /\ E!Next <=> EP!Next
  /\ E!Finished <=> EP!Finished
<1>1. E!Start <=> EP!Start
  BY DEF E!Start, EP!Start, E!CpuIds, EP!CpuIds, E!Rows, EP!Rows, E!Ids,
     EP!Ids
<1>2. E!JoinEval <=> EP!JoinEval
  BY DEF E!JoinEval, EP!JoinEval, E!In, EP!In, E!CpuIds, EP!CpuIds, E!plan,
     EP!plan, E!data, EP!data, E!Ids, EP!Ids
<1>3. E!JoinExpand <=> EP!JoinExpand
  BY DEF E!JoinExpand, EP!JoinExpand, E!In, EP!In, E!plan, EP!plan, E!data,
     EP!data, E!Ids, EP!Ids
<1>4. E!JoinScan <=> EP!JoinScan
  BY DEF E!JoinScan, EP!JoinScan, E!In, EP!In, E!plan, EP!plan, E!data,
     EP!data, E!Ids, EP!Ids
<1>5. E!CheckIdentity <=> EP!CheckIdentity
  BY DEF E!CheckIdentity, EP!CheckIdentity, E!In, EP!In, E!plan, EP!plan,
     E!data, EP!data
<1>6. E!Report <=> EP!Report
  BY DEF E!Report, EP!Report, E!In, EP!In, E!Verdict, EP!Verdict, E!plan,
     EP!plan, E!data, EP!data
<1>7. E!Finished <=> EP!Finished
  BY DEF E!Finished, EP!Finished
<1>8. E!Stop <=> EP!Stop
  BY DEF E!Stop, EP!Stop, E!Finished, EP!Finished, E!vars, EP!vars,
     E!control, EP!control, E!plan, EP!plan, E!data, EP!data
<1>9. ASSUME NEW c PROVE E!CpuStep(c) <=> EP!CpuStep(c)
  <2>1. \A x : E!CanEval(x) <=> EP!CanEval(x)
    BY DEF E!CanEval, EP!CanEval, E!Readable, EP!Readable, E!Reads, EP!Reads,
       E!ReadsUpTo, EP!ReadsUpTo, E!IsExp, EP!IsExp
  <2>2. \A x, w : E!Eval(x, w) = EP!Eval(x, w)
    BY DEF E!Eval, EP!Eval, E!Arguments, EP!Arguments, E!OperandValue,
       EP!OperandValue
  <2>3. (E!Busy(c) <=> EP!Busy(c)) /\ (E!Mine(c) <=> EP!Mine(c)) /\ E!Current(c) = EP!Current(c)
    BY DEF E!Busy, EP!Busy, E!Mine, EP!Mine, E!Current, EP!Current, E!In,
       EP!In, E!Range, EP!Range
  <2>4. E!SkipExpression(c) <=> EP!SkipExpression(c)
    BY <2>3 DEF E!SkipExpression, EP!SkipExpression, E!plan, EP!plan, E!data, EP!data
  <2>5. E!EndExpression(c) <=> EP!EndExpression(c)
    BY <2>3 DEF E!EndExpression, EP!EndExpression, E!plan, EP!plan
  <2>6. E!EvalRow(c) <=> EP!EvalRow(c)
    <3>1. \A x, v : E!StoreRow(x, v) <=> EP!StoreRow(x, v)
      BY DEF E!StoreRow, EP!StoreRow
    <3>2. E!Abort <=> EP!Abort
      BY DEF E!Abort, EP!Abort, E!data, EP!data
    <3> QED
      BY <2>1, <2>2, <2>3, <3>1, <3>2 DEF E!EvalRow, EP!EvalRow, E!plan, EP!plan
  <2> QED
    BY <2>4, <2>5, <2>6 DEF E!CpuStep, EP!CpuStep
<1>10. ASSUME NEW x PROVE E!TaskStep(x) <=> EP!TaskStep(x)
  <2>1. E!ExpandRow(x) <=> EP!ExpandRow(x)
    BY DEF E!ExpandRow, EP!ExpandRow, E!Expanding, EP!Expanding, E!CanEval,
       EP!CanEval, E!Readable, EP!Readable, E!Reads, EP!Reads, E!ReadsUpTo,
       EP!ReadsUpTo, E!IsExp, EP!IsExp, E!OperandValue, EP!OperandValue,
       E!StoreRow, EP!StoreRow, E!Abort, EP!Abort, E!In, EP!In, E!plan,
       EP!plan, E!data, EP!data
  <2>2. E!Scan(x) <=> EP!Scan(x)
    BY DEF E!Scan, EP!Scan, E!NonZeroRows, EP!NonZeroRows, E!First, EP!First,
       E!Rows, EP!Rows, E!In, EP!In, E!plan, EP!plan
  <2> QED
    BY <2>1, <2>2 DEF E!TaskStep, EP!TaskStep
<1> QED
  BY <1>1, <1>2, <1>3, <1>4, <1>5, <1>6, <1>7, <1>8, <1>9, <1>10
  DEF E!Next, EP!Next, E!CpuIds, EP!CpuIds, E!Ids, EP!Ids
-----------------------------------------------------------------------------
CompileInv == CP!BaseInv /\ CP!RankInv /\ CP!AcceptInv
GroupsInv == GP!SetInv /\ GP!DealInv
EvaluateInv == EP!EvalInv /\ EP!VerdictInv

(***************************************************************************)
(* What each component finds when its stage begins.                        *)
(***************************************************************************)
LEMMA ProgramFacts ==
  ASSUME CompileInv
  PROVE  program \in Programs /\ IsProgram(program) /\ Acyclic(program)
  BY PipelineAssumption DEF CompileInv, CP!BaseInv, CP!TypeOK

LEMMA ReduceStarts ==
  ASSUME CompileInv, C!Loaded, exprs = program, aliasId = 0, target = 0, pc = "pick"
  PROVE  RP!ReduceInv
<1>1. \A x \in Ids : \A k \in DOMAIN program[x].args : CP!Allowed(x, k)
  BY Assumptions, CP!LoadedFacts, SameIds, SameCompile DEF CompileInv
<1>2. ASSUME NEW x \in Ids, program[x].alias, IsExp(program[x].args[1])
      PROVE  program[x].args[1].next = 0
  <2>1. 1 \in DOMAIN program[x].args /\ program[x].args[1] \in Operands
    BY <1>2, ProgramFacts, OperandFacts
  <2>2. ~(program[x].args[1].next = 1)
    BY <1>1, <1>2, <2>1 DEF CP!Allowed, CP!NotAllowed, CP!IsExp, IsExp
  <2> QED
    BY <2>1, <2>2 DEF Operands
<1>3. R!IsCompiled(program)
  BY <1>2, ProgramFacts, SamePrograms, SameIds DEF R!IsCompiled, R!IsExp, IsExp
<1>4. RP!Init
  BY <1>3, ProgramFacts DEF RP!Init, AcceptedPrograms
<1> QED
  BY <1>4, Assumptions, RP!StartInv

LEMMA GroupsStart ==
  ASSUME CompileInv, G!Start
  PROVE  GroupsInv
<1>1. GP!Init
  BY SameGroups, SameIds DEF GP!Init, CompileInv, CP!BaseInv, CP!TypeOK
<1> QED
  BY <1>1, Assumptions, GP!InitInv DEF GroupsInv
-----------------------------------------------------------------------------
LEMMA SameRange ==
  ASSUME NEW s
  PROVE  CP!Range(s) = Range(s) /\ GP!Range(s) = Range(s) /\ E!Range(s) = Range(s)
  BY DEF Range, CP!Range, GP!Range, E!Range

(***************************************************************************)
(* y is before x: the order in which the expressions are evaluated is a    *)
(* transitive relation that the reads of the program lie in, and so do the *)
(* reads after the reduction (Reduce_proofs, ReachInv).                    *)
(***************************************************************************)
Before == { e \in Ids \X Ids :
              \A k \in DOMAIN order : order[k] = e[1] => \E j \in 1 .. k - 1 : order[j] = e[2] }

LEMMA OrderIsSound ==
  ASSUME CompileInv, C!Loaded, RP!ReduceInv
  PROVE  E!SoundOrder(exprs, order)
<1>1. /\ order \in Seq(Ids)
      /\ DOMAIN order = 1 .. Len(order) /\ Len(order) \in Nat
  <2>1. order \in Seq(Ids)
    BY SameIds DEF CompileInv, CP!BaseInv, CP!TypeOK
  <2> QED
    BY <2>1, LenProperties
<1>2. /\ \A i, j \in DOMAIN order : order[i] = order[j] => i = j
      /\ Range(order) = Ids
  BY Assumptions, CP!CompleteFacts, SameCompile, SameIds, SameRange DEF CP!OrderComplete, CompileInv
<1>3. \A k \in DOMAIN order : \A y \in Reads(program, order[k]) : \E j \in 1 .. k - 1 : order[j] = y
  BY Assumptions, CP!TopologicalFacts, ProgramFacts, SameAcyclic, SameReads
  DEF CP!Topological, CompileInv
<1>4. RP!Within(Before)
  <2>1. ASSUME NEW x \in Ids, NEW y \in Ids, NEW z \in Ids, <<x, y>> \in Before, <<y, z>> \in Before
        PROVE  <<x, z>> \in Before
    <3>1. ASSUME NEW k \in DOMAIN order, order[k] = x PROVE \E j \in 1 .. k - 1 : order[j] = z
      <4>1. PICK j \in 1 .. k - 1 : order[j] = y
        BY <2>1, <3>1 DEF Before
      <4>2. j \in DOMAIN order /\ k \in Nat /\ j \in Nat /\ j < k
        BY <1>1
      <4>3. PICK i \in 1 .. j - 1 : order[i] = z
        BY <2>1, <4>1, <4>2 DEF Before
      <4> QED
        BY <4>2, <4>3
    <3> QED
      BY <3>1 DEF Before
  <2>2. ASSUME NEW x \in Ids, NEW y \in Reads(program, x) PROVE <<x, y>> \in Before
    <3>1. y \in Ids
      BY <2>2, ProgramFacts, OperandFacts
    <3> QED
      BY <1>3, <3>1 DEF Before
  <2> QED
    BY <2>1, <2>2, SameIds, SameReads DEF RP!Within
<1>5. \A x \in Ids : \A y \in Reads(exprs, x) : <<x, y>> \in Before
  <2>1. Before \in SUBSET (Ids \X Ids)
    BY DEF Before
  <2> QED
    BY <1>4, <2>1, SameIds, SameReads DEF RP!ReduceInv, RP!ReachInv
<1>6. \A k \in DOMAIN order : \A y \in Reads(exprs, order[k]) : \E j \in 1 .. k - 1 : order[j] = y
  <2> SUFFICES ASSUME NEW k \in DOMAIN order, NEW y \in Reads(exprs, order[k])
               PROVE  \E j \in 1 .. k - 1 : order[j] = y
    OBVIOUS
  <2>1. order[k] \in Ids
    BY <1>1
  <2>2. <<order[k], y>> \in Before
    BY <1>5, <2>1
  <2> QED
    BY <2>2 DEF Before
<1>7. \A x \in Ids : \E k \in DOMAIN order : order[k] = x
  BY <1>2 DEF Range
<1> QED
  BY <1>1, <1>2, <1>6, <1>7, SameIds, SameReads DEF E!SoundOrder

(***************************************************************************)
(* To be in the same group is another such relation.                       *)
(***************************************************************************)
Together == { e \in Ids \X Ids : group[e[1]] = group[e[2]] }

LEMMA GroupsAreSound ==
  ASSUME CompileInv, C!Loaded, RP!ReduceInv, GroupsInv, G!Done
  PROVE  E!SoundGroups(exprs, group, cpuGroups)
<1>0. groupPhase = "done" /\ GP!Done
  BY SameGroups DEF G!Done
<1>1. /\ \A x \in Ids : group[x] # GROUP_NONE
      /\ \A x \in Ids : \A k \in DOMAIN deps[x] : group[deps[x][k]] = group[x]
  BY <1>0, Assumptions, GP!ClosedFacts, SameIds DEF GP!GroupsClosed, GroupsInv
<1>2. /\ group \in [Ids -> Nat]
      /\ cpuGroups \in [E!CpuIds -> Seq(Nat)]
  <2>1. /\ group \in [Ids -> (0 .. gid) \cup {GROUP_NONE}] /\ gid \in 0 .. id
        /\ cpuGroups \in [GP!CpuIds -> Seq(Nat)]
    BY SameIds DEF GroupsInv, GP!SetInv, GP!TypeOK
  <2>2. \A x \in Ids : group[x] \in Nat
    BY <1>1, <2>1
  <2> QED
    BY <2>1, <2>2 DEF E!CpuIds, GP!CpuIds
<1>3. \A x \in Ids : Range(deps[x]) = Reads(program, x)
  BY Assumptions, CP!LoadedFacts, SameIds, SameRange, SameReads, SameCompile DEF CompileInv
<1>4. RP!Within(Together)
  <2>1. ASSUME NEW x \in Ids, NEW y \in Reads(program, x) PROVE <<x, y>> \in Together
    <3>1. y \in Ids
      BY <2>1, ProgramFacts, OperandFacts
    <3>2. PICK k \in DOMAIN deps[x] : deps[x][k] = y
      BY <1>3 DEF Range
    <3> QED
      BY <1>1, <3>1, <3>2 DEF Together
  <2>2. \A x, y, z \in Ids : <<x, y>> \in Together /\ <<y, z>> \in Together => <<x, z>> \in Together
    BY DEF Together
  <2> QED
    BY <2>1, <2>2, SameIds, SameReads DEF RP!Within
<1>5. \A x \in Ids : \A y \in Reads(exprs, x) : group[y] = group[x]
  <2>1. Together \in SUBSET (Ids \X Ids)
    BY DEF Together
  <2>2. \A x \in Ids : \A y \in Reads(exprs, x) : <<x, y>> \in Together
    BY <1>4, <2>1, SameIds, SameReads DEF RP!ReduceInv, RP!ReachInv
  <2> QED
    BY <2>2 DEF Together
<1>6. \A x \in Ids : \E c \in E!CpuIds : group[x] \in Range(cpuGroups[c])
  BY <1>0, Assumptions, GP!DealtFacts, SameIds, SameRange
  DEF GP!OneCpuEach, GroupsInv, E!CpuIds, GP!CpuIds
<1>7. \A c, d \in E!CpuIds : Range(cpuGroups[c]) \cap Range(cpuGroups[d]) # {} => c = d
  BY SameRange DEF GroupsInv, GP!DealInv, GP!DealtOK, E!CpuIds, GP!CpuIds
<1> QED
  BY <1>2, <1>5, <1>6, <1>7, SameIds, SameReads, SameRange DEF E!SoundGroups

(***************************************************************************)
(* A plan that the three components have made is sound.                    *)
(***************************************************************************)
LEMMA SamePlan == E!SoundPlan(exprs, order, group, cpuGroups) <=> EP!Sound
<1>1. E!SoundOrder(exprs, order) <=> EP!SoundOrder(exprs, order)
  BY SameReads, SameIds DEF E!SoundOrder, EP!SoundOrder
<1>2. E!SoundGroups(exprs, group, cpuGroups) <=> EP!SoundGroups(exprs, group, cpuGroups)
  BY DEF E!SoundGroups, EP!SoundGroups, E!CpuIds, EP!CpuIds, E!Range, EP!Range, E!Reads, EP!Reads,
     E!ReadsUpTo, EP!ReadsUpTo, E!IsExp, EP!IsExp, E!Ids, EP!Ids
<1> QED
  BY <1>1, <1>2, SamePrograms, SameReads, SameIds DEF EP!Sound, E!SoundPlan, EP!SoundPlan

LEMMA PlanFacts ==
  ASSUME CompileInv, C!Loaded, RP!ReduceInv, R!Reduced, GroupsInv, G!Done
  PROVE  E!SoundPlan(exprs, order, group, cpuGroups)
<1>1. E!IsProgram(exprs)
  BY SamePrograms DEF RP!ReduceInv, RP!TypeOK
<1>2. \A x \in Ids : \A y \in Reads(exprs, x) : ~exprs[y].alias
  BY Assumptions, RP!UnreadFacts, SameReduce, SameIds, SameReads DEF RP!NoAliasOperand
<1> QED
  BY <1>1, <1>2, OrderIsSound, GroupsAreSound, SameIds, SameReads DEF E!SoundPlan
-----------------------------------------------------------------------------
(***************************************************************************)
(* Each component finds what the ones before have left, and has not begun  *)
(* before its stage.                                                       *)
(***************************************************************************)
StageInv ==
  /\ stage \in {"compile", "reduce", "groups", "evaluate"}
  /\ stage = "compile" => exprs = program /\ aliasId = 0 /\ target = 0 /\ pc = "pick"
  /\ stage # "compile" => C!Loaded /\ RP!ReduceInv
  /\ stage \in {"compile", "reduce"} => G!Start
  /\ stage \in {"groups", "evaluate"} => R!Reduced /\ GroupsInv
  /\ stage # "evaluate" => E!Start
  /\ stage = "evaluate" => G!Done /\ EvaluateInv

PipelineInv == CompileInv /\ StageInv

(***************************************************************************)
(* What a step leaves alone.                                               *)
(***************************************************************************)
LEMMA CompileKept ==
  ASSUME UNCHANGED <<program, deps, order, compileVars>>
  PROVE  (CompileInv => CompileInv') /\ (C!Loaded => C!Loaded')
<1>1. UNCHANGED CP!vars
  BY DEF compileVars, CP!vars
<1> QED
  BY <1>1, CompileInvStep DEF CompileInv, C!Loaded, compileVars

LEMMA ReduceKept ==
  ASSUME UNCHANGED <<program, exprs, reduceVars>>
  PROVE  (RP!ReduceInv => RP!ReduceInv') /\ (R!Reduced => R!Reduced')
<1>1. UNCHANGED RP!vars
  BY DEF reduceVars, RP!vars
<1> QED
  BY <1>1, ReduceInvStep DEF R!Reduced, reduceVars

LEMMA GroupsKept ==
  ASSUME UNCHANGED <<deps, group, cpuGroups, groupVars>>
  PROVE  (G!Start => G!Start') /\ (GroupsInv => GroupsInv') /\ (G!Done => G!Done')
<1>1. UNCHANGED GP!vars
  BY DEF groupVars, GP!vars
<1> QED
  BY <1>1, GroupsInvStep DEF G!Start, GroupsInv, G!Done, groupVars

LEMMA StartKept ==
  ASSUME UNCHANGED evaluateVars
  PROVE  E!Start => E!Start'
  BY DEF E!Start, evaluateVars

LEMMA EvaluateKept ==
  ASSUME UNCHANGED <<exprs, order, group, cpuGroups, evaluateVars>>
  PROVE  EvaluateInv => EvaluateInv'
<1>1. UNCHANGED EP!vars
  BY DEF evaluateVars, EP!vars, EP!plan, EP!data, EP!control
<1> QED
  BY <1>1, EvaluateInvStep DEF EvaluateInv

(***************************************************************************)
(* The invariant holds at the start, and each step preserves it.           *)
(***************************************************************************)
LEMMA InitInv == Init => PipelineInv
<1> SUFFICES ASSUME Init PROVE PipelineInv
  OBVIOUS
<1>1. CompileInv
  BY Assumptions, CP!InitInv, SameCompile DEF Init, CompileInv
<1> QED
  BY <1>1 DEF Init, R!Init, PipelineInv, StageInv

LEMMA CompilingStep == PipelineInv /\ Compiling => PipelineInv'
<1> SUFFICES ASSUME PipelineInv, Compiling PROVE PipelineInv'
  OBVIOUS
<1> USE DEF PipelineInv
<1>1. CompileInv'
  BY CompileInvStep, SameCompile DEF Compiling, CompileInv
<1>2. UNCHANGED program
  BY SameCompile DEF Compiling, C!Next, C!CompileNext, C!ReadOperand, C!EndCompile,
     C!VisitDependency, C!MergeDependency, C!Return, C!Stop, C!vars
<1>3. G!Start'
  BY DEF Compiling, StageInv, G!Start, groupVars
<1>4. E!Start'
  BY StartKept DEF Compiling, StageInv
<1> QED
  BY <1>1, <1>2, <1>3, <1>4 DEF Compiling, StageInv, reduceVars

LEMMA ReducingStep == PipelineInv /\ Reducing => PipelineInv'
<1> SUFFICES ASSUME PipelineInv, Reducing PROVE PipelineInv'
  OBVIOUS
<1> USE DEF PipelineInv
<1>1. RP!ReduceInv'
  BY ReduceInvStep, SameReduce DEF Reducing, StageInv
<1>2. UNCHANGED program
  BY DEF Reducing, R!Next, R!NotAnAlias, R!PickAlias, R!FollowChain, R!Replace, R!Stop, R!vars
<1>3. CompileInv' /\ C!Loaded'
  BY <1>2, CompileKept DEF Reducing, StageInv
<1>4. G!Start' /\ E!Start'
  BY GroupsKept, StartKept DEF Reducing, StageInv
<1> QED
  BY <1>1, <1>3, <1>4 DEF Reducing, StageInv

LEMMA GroupingStep == PipelineInv /\ Grouping => PipelineInv'
<1> SUFFICES ASSUME PipelineInv, Grouping PROVE PipelineInv'
  OBVIOUS
<1> USE DEF PipelineInv
<1>1. GroupsInv'
  BY GroupsInvStep, SameGroups DEF Grouping, StageInv, GroupsInv
<1>2. UNCHANGED deps
  BY DEF Grouping, G!Next, G!SkipRoot, G!CallRoot, G!MergeDependency, G!DescendDependency,
     G!SetGroup, G!SortGroups, G!AssignGroup, G!SkipFullCpu, G!Finish, G!Stop, G!vars
<1>3. CompileInv' /\ C!Loaded'
  BY <1>2, CompileKept DEF Grouping, StageInv
<1>4. RP!ReduceInv' /\ R!Reduced' /\ E!Start'
  BY ReduceKept, StartKept DEF Grouping, StageInv
<1> QED
  BY <1>1, <1>3, <1>4 DEF Grouping, StageInv

LEMMA EvaluatingStep == PipelineInv /\ Evaluating => PipelineInv'
<1> SUFFICES ASSUME PipelineInv, Evaluating PROVE PipelineInv'
  OBVIOUS
<1> USE DEF PipelineInv
<1>1. EvaluateInv'
  BY EvaluateInvStep, SameEvaluate DEF Evaluating, StageInv, EvaluateInv
<1>2. UNCHANGED <<exprs, order, group, cpuGroups>>
  BY DEF Evaluating, E!Next, E!CpuStep, E!TaskStep, E!SkipExpression, E!EvalRow, E!EndExpression,
     E!JoinEval, E!ExpandRow, E!JoinExpand, E!Scan, E!JoinScan, E!CheckIdentity, E!Report,
     E!Stop, E!vars, E!plan
<1>3. CompileInv' /\ C!Loaded'
  BY <1>2, CompileKept DEF Evaluating, StageInv
<1>4. RP!ReduceInv' /\ R!Reduced'
  BY <1>2, ReduceKept DEF Evaluating, StageInv
<1>5. GroupsInv' /\ G!Done'
  BY <1>2, GroupsKept DEF Evaluating, StageInv
<1> QED
  BY <1>1, <1>3, <1>4, <1>5 DEF Evaluating, StageInv

LEMMA Kept ==
  ASSUME PipelineInv, UNCHANGED <<compileVars, reduceVars, groupVars, evaluateVars, shared>>
  PROVE  /\ CompileInv'
         /\ C!Loaded => C!Loaded'
         /\ RP!ReduceInv => RP!ReduceInv'
         /\ R!Reduced => R!Reduced'
         /\ G!Start => G!Start'
         /\ GroupsInv => GroupsInv'
         /\ G!Done => G!Done'
         /\ E!Start => E!Start'
         /\ EvaluateInv => EvaluateInv'
<1>1. UNCHANGED <<program, deps, order, exprs, group, cpuGroups>>
  BY DEF shared
<1> QED
  BY <1>1, CompileKept, ReduceKept, GroupsKept, StartKept, EvaluateKept DEF PipelineInv

LEMMA EnterStep ==
  ASSUME PipelineInv,
         \/ Enter("compile", C!Loaded, "reduce")
         \/ Enter("reduce", R!Reduced, "groups")
         \/ Enter("groups", G!Done, "evaluate")
  PROVE  PipelineInv'
<1>1. CASE Enter("compile", C!Loaded, "reduce")
  <2>1. RP!ReduceInv
    BY <1>1, ReduceStarts DEF Enter, PipelineInv, StageInv
  <2> QED
    BY <1>1, <2>1, Kept DEF Enter, PipelineInv, StageInv
<1>2. CASE Enter("reduce", R!Reduced, "groups")
  <2>1. GroupsInv
    BY <1>2, GroupsStart DEF Enter, PipelineInv, StageInv
  <2> QED
    BY <1>2, <2>1, Kept DEF Enter, PipelineInv, StageInv
<1>3. CASE Enter("groups", G!Done, "evaluate")
  <2>1. E!SoundPlan(exprs, order, group, cpuGroups)
    BY <1>3, PlanFacts DEF Enter, PipelineInv, StageInv
  <2>2. EP!Sound /\ EP!Start
    BY <1>3, <2>1, SamePlan, SameEvaluate DEF Enter, PipelineInv, StageInv
  <2>3. EvaluateInv
    BY <2>2, Assumptions, EP!StartInv DEF EvaluateInv
  <2> QED
    BY <1>3, <2>3, Kept DEF Enter, PipelineInv, StageInv
<1> QED
  BY <1>1, <1>2, <1>3

LEMMA InvStep == PipelineInv /\ [Next]_vars => PipelineInv'
<1> SUFFICES ASSUME PipelineInv, [Next]_vars PROVE PipelineInv'
  OBVIOUS
<1>1. CASE UNCHANGED vars \/ Stop
  <2>1. UNCHANGED <<compileVars, reduceVars, groupVars, evaluateVars, shared>> /\ UNCHANGED stage
    BY <1>1 DEF vars, Stop
  <2>2. UNCHANGED <<exprs, program, aliasId, target, pc>>
    BY <2>1 DEF reduceVars, shared
  <2> QED
    BY <2>1, <2>2, Kept DEF PipelineInv, StageInv
<1> QED
  BY <1>1, CompilingStep, ReducingStep, GroupingStep, EvaluatingStep, EnterStep DEF Next

LEMMA Invariants == Spec => []PipelineInv
  BY InitInv, InvStep, PTL DEF Spec

(***************************************************************************)
(* The order and the groups, computed from the dependencies before the     *)
(* reduction, are sound for the operands after it: what an operand reads   *)
(* now was read through a chain of aliases, and both are transitive.       *)
(***************************************************************************)
THEOREM PlansAreSound == Spec => []PlanIsSound
<1>1. PipelineInv => PlanIsSound
  BY SamePlan DEF PipelineInv, StageInv, EvaluateInv, EP!EvalInv, PlanIsSound
<1> QED
  BY <1>1, Invariants, PTL
-----------------------------------------------------------------------------
(***************************************************************************)
(* The evaluation of the reduced program and the meaning of the parsed one.*)
(***************************************************************************)
LEMMA SameOperandValues ==
  ASSUME NEW o, NEW v, NEW w
  PROVE  /\ RP!OperandValue(o, v, w) = OperandValue(o, v, w)
         /\ EP!OperandValue(o, v, w) = OperandValue(o, v, w)
  BY DEF OperandValue, RP!OperandValue, EP!OperandValue

LEMMA SameRows == RP!Rows = Rows /\ EP!Rows = Rows /\ Promise!Rows = Rows
  BY DEF Rows, RP!Rows, EP!Rows, Promise!Rows

LEMMA SameOperandValue ==
  ASSUME NEW o \in Operands, NEW u, NEW v, NEW w \in Rows,
         IsExp(o) => \A r \in Rows : u[o.id][r] = v[o.id][r]
  PROVE  OperandValue(o, u, w) = OperandValue(o, v, w)
<1>1. EP!Operands = Operands /\ (EP!IsExp(o) <=> IsExp(o)) /\ EP!Rows = Rows
  BY SameRows DEF Operands, OperandTypes, IsExp, EP!Operands, EP!OperandTypes, EP!IsExp
<1>2. EP!OperandValue(o, u, w) = EP!OperandValue(o, v, w)
  BY <1>1, Assumptions, EP!SameOperandValue
<1> QED
  BY <1>2, SameOperandValues

LEMMA FinishedFacts ==
  ASSUME PipelineInv, E!Finished
  PROVE  /\ stage = "evaluate" /\ mode = "compute" /\ phase = "check"
         /\ outcome \in {"OK", "FAIL", "no identities"}
<1>1. stage = "evaluate" /\ EvaluateInv
  BY DEF PipelineInv, StageInv, E!Start, E!Finished
<1> QED
  BY <1>1 DEF EvaluateInv, EP!EvalInv, EP!TypeOK, EP!VerdictInv, EP!CheckOK, E!Finished

(***************************************************************************)
(* The columns satisfy the equations of the program as it was parsed.      *)
(***************************************************************************)
LEMMA MeansFacts ==
  ASSUME PipelineInv, E!Finished, R!NoShiftedAlias(program), NEW x \in Ids, NEW w \in Rows
  PROVE  Means(x, w)
<1>1. EvaluateInv /\ RP!ReduceInv
  BY FinishedFacts DEF PipelineInv, StageInv
<1>2. \A y \in Ids : \A u \in Rows :
        evaluations[y][u] = IF exprs[y].alias THEN OperandValue(exprs[y].args[1], evaluations, u)
                                              ELSE Op(y, EP!Arguments(y, u))
  <2> SUFFICES ASSUME NEW y \in Ids, NEW u \in Rows
               PROVE  evaluations[y][u] = IF exprs[y].alias
                        THEN OperandValue(exprs[y].args[1], evaluations, u) ELSE Op(y, EP!Arguments(y, u))
    OBVIOUS
  <2>1. EP!EvalInv /\ mode = "compute" /\ phase \in {"scan", "check"} /\ y \in EP!Ids /\ u \in EP!Rows
    BY <1>1, FinishedFacts, SameIds, SameRows DEF EvaluateInv
  <2>2. EP!Denotes(y, u)
    BY <2>1, Assumptions, EP!EquationsFacts
  <2> QED
    BY <2>2, SameOperandValues DEF EP!Denotes
<1>3. \A y \in Ids : exprs[y].alias => RP!AliasHolds(y, evaluations)
  BY <1>2, SameRows, SameOperandValues DEF RP!AliasHolds, RP!AliasOf
<1>4. RP!NoShiftedAlias(program)
  BY SameIds DEF RP!NoShiftedAlias, R!NoShiftedAlias
<1>5. \A k \in DOMAIN exprs[x].args :
        OperandValue(exprs[x].args[k], evaluations, w) = OperandValue(program[x].args[k], evaluations, w)
  BY <1>1, <1>3, <1>4, SameIds, SameRows, SameOperandValues DEF RP!ReduceInv, RP!BackInv
<1>6. exprs[x].alias = program[x].alias /\ DOMAIN exprs[x].args = DOMAIN program[x].args
  BY <1>1, SameIds DEF RP!ReduceInv, RP!TypeOK
<1>7. EP!Arguments(x, w) =
        [k \in DOMAIN program[x].args |-> OperandValue(program[x].args[k], evaluations, w)]
  BY <1>5, <1>6, SameOperandValues DEF EP!Arguments
<1>8. program[x].alias => 1 \in DOMAIN program[x].args
  BY ProgramFacts, OperandFacts DEF PipelineInv
<1> QED
  BY <1>2, <1>5, <1>6, <1>7, <1>8 DEF Means

(***************************************************************************)
(* The engine computes what the PIL program means, for every program,      *)
(* number of rows and of threads, and interleaving.                        *)
(***************************************************************************)
THEOREM ProgramIsEvaluated == Spec => []ProgramEvaluated
<1>1. PipelineInv => ProgramEvaluated
  BY MeansFacts, FinishedFacts DEF ProgramEvaluated
<1> QED
  BY <1>1, Invariants, PTL
-----------------------------------------------------------------------------
(***************************************************************************)
(* One row of an expression where the expressions have the values v, and   *)
(* the table of all rows.                                                  *)
(***************************************************************************)
RowValue(p, v, x, w) ==
  LET a == [k \in DOMAIN p[x].args |-> OperandValue(p[x].args[k], v, w)]
  IN IF p[x].alias THEN a[1] ELSE Op(x, a)

Table(p, v) == [x \in Ids |-> [w \in Rows |-> RowValue(p, v, x, w)]]

(***************************************************************************)
(* No two valuations of an acyclic program satisfy its equations: take the *)
(* expression of the lowest rank where they differ.                        *)
(***************************************************************************)
LEMMA OneValuation ==
  ASSUME NEW p, IsProgram(p), Acyclic(p), NEW u, NEW v, u = Table(p, u), v = Table(p, v)
  PROVE  u = v
<1>1. PICK rank \in [Ids -> Ids] : Ranks(p, rank)
  BY DEF Acyclic
<1>2. /\ \A x \in Ids : u[x] = [w \in Rows |-> RowValue(p, u, x, w)]
      /\ \A x \in Ids : v[x] = [w \in Rows |-> RowValue(p, v, x, w)]
  BY DEF Table
<1>3. u = [x \in Ids |-> u[x]] /\ v = [x \in Ids |-> v[x]]
  BY DEF Table
<1> DEFINE Differ == { x \in Ids : u[x] # v[x] }
           S == { rank[x] : x \in Differ }
<1> SUFFICES ASSUME Differ # {} PROVE FALSE
  BY <1>3
<1>4. S # {} /\ S \in SUBSET Nat
  BY <1>1, CountAssumption DEF Ids
<1>5. PICK m \in S : \A y \in S : ~(<<y, m>> \in OpToRel(<, Nat))
  BY <1>4, NatLessThanWellFounded, WFMin
<1>6. PICK x \in Differ : rank[x] = m
  BY <1>5
<1>7. \A y \in Ids : rank[y] < m => u[y] = v[y]
  <2> SUFFICES ASSUME NEW y \in Ids, rank[y] < m, y \in Differ PROVE FALSE
    OBVIOUS
  <2>1. rank[y] \in S /\ rank[y] \in Nat /\ m \in Nat
    BY <1>4, <1>5
  <2> QED
    BY <1>5, <2>1 DEF OpToRel
<1> HIDE DEF S
<1>8. ASSUME NEW w \in Rows PROVE RowValue(p, u, x, w) = RowValue(p, v, x, w)
  <2>1. ASSUME NEW k \in DOMAIN p[x].args
        PROVE  OperandValue(p[x].args[k], u, w) = OperandValue(p[x].args[k], v, w)
    <3>1. /\ p[x].args[k] \in Operands
          /\ IsExp(p[x].args[k]) => p[x].args[k].id \in Ids /\ p[x].args[k].id \in Reads(p, x)
      BY OperandFacts
    <3>2. IsExp(p[x].args[k]) => u[p[x].args[k].id] = v[p[x].args[k].id]
      BY <1>1, <1>6, <1>7, <3>1 DEF Ranks
    <3> QED
      BY <3>1, <3>2, SameOperandValue
  <2>2. p[x].alias => 1 \in DOMAIN p[x].args
    BY OperandFacts
  <2> QED
    BY <2>1, <2>2 DEF RowValue
<1>9. u[x] = v[x]
  BY <1>2, <1>8
<1> QED
  BY <1>6, <1>9

(***************************************************************************)
(* The columns are the values that Verifier gives to the program.          *)
(***************************************************************************)
LEMMA ValueFacts ==
  ASSUME NEW p, IsProgram(p), NEW v, v = Table(p, v)
  PROVE  Promise!Value(p) = Table(p, Promise!Value(p))
<1> DEFINE Step(u, x, w) ==
             LET a == [k \in DOMAIN p[x].args |->
                         LET o == p[x].args[k]
                         IN IF Promise!IsExp(o) THEN u[o.id][(w + o.next) % N]
                                                ELSE Promise!OperandValue(o, <<>>, w)]
             IN IF p[x].alias THEN a[1] ELSE Op(x, a)
           Steps(u) == [x \in Promise!Ids |-> [w \in Promise!Rows |-> Step(u, x, w)]]
<1>1. Promise!Value(p) = CHOOSE u : u = Steps(u)
  BY DEF Promise!Value
<1>2. ASSUME NEW u, NEW x \in Ids, NEW w \in Rows PROVE Step(u, x, w) = RowValue(p, u, x, w)
  <2>1. ASSUME NEW o \in Operands
        PROVE  OperandValue(o, u, w) = IF Promise!IsExp(o) THEN u[o.id][(w + o.next) % N]
                                       ELSE Promise!OperandValue(o, <<>>, w)
    BY DEF OperandValue, Promise!OperandValue, Promise!IsExp, Operands, OperandTypes
  <2>2. \A k \in DOMAIN p[x].args : p[x].args[k] \in Operands
    BY OperandFacts
  <2> DEFINE a == p[x].args
  <2>3. [k \in DOMAIN a |-> OperandValue(a[k], u, w)] =
          [k \in DOMAIN a |-> IF Promise!IsExp(a[k]) THEN u[a[k].id][(w + a[k].next) % N]
                                                    ELSE Promise!OperandValue(a[k], <<>>, w)]
    BY <2>1, <2>2
  <2> QED
    BY <2>3, Zenon DEF RowValue
<1> HIDE DEF Step
<1>3. \A u : Steps(u) = Table(p, u)
  BY <1>2, SameIds, SameRows DEF Table
<1> HIDE DEF Steps
<1> QED
  BY <1>1, <1>3

LEMMA ColumnsAreValues ==
  ASSUME PipelineInv, E!Finished, R!NoShiftedAlias(program)
  PROVE  Promise!Value(program) = evaluations
<1>1. \A x \in Ids : \A w \in Rows : evaluations[x][w] = RowValue(program, evaluations, x, w)
  BY MeansFacts DEF Means, RowValue
<1>2. evaluations = [x \in Ids |-> [w \in Rows |-> evaluations[x][w]]]
  BY FinishedFacts, SameIds, SameRows
  DEF PipelineInv, StageInv, EvaluateInv, EP!EvalInv, EP!TypeOK
<1>3. evaluations = Table(program, evaluations)
  BY <1>1, <1>2 DEF Table
<1>4. IsProgram(program) /\ Acyclic(program)
  BY ProgramFacts DEF PipelineInv
<1> QED
  BY <1>3, <1>4, ValueFacts, OneValuation

(***************************************************************************)
(* Whatever verdict is out is one that Verifier allows.                    *)
(***************************************************************************)
VerdictOK == Verdict # "none" => Verdict \in Promise!Verdicts(program)

(***************************************************************************)
(* What the two kinds of aliases of the next row come to.                  *)
(***************************************************************************)
LEMMA ShiftFacts ==
  ASSUME PipelineInv
  PROVE  /\ stage # "compile" => ~Promise!ShiftedAlias(program, "EXP")
         /\ ~Promise!ShiftedAlias(program, "CM") => R!NoShiftedAlias(program)
<1>1. \A x \in Ids : program[x].alias => program[x].args[1] \in Operands
  BY ProgramFacts, OperandFacts DEF PipelineInv
<1>2. ~Promise!ShiftedAlias(program, "CM") => R!NoShiftedAlias(program)
  BY <1>1, SameIds DEF Promise!ShiftedAlias, R!NoShiftedAlias, Operands
<1>3. stage # "compile" => R!IsCompiled(program)
  BY DEF PipelineInv, StageInv, RP!ReduceInv, RP!TypeOK, AcceptedPrograms
<1> QED
  BY <1>2, <1>3, SameIds DEF Promise!ShiftedAlias, R!IsCompiled, R!IsExp

LEMMA RejectedFacts ==
  ASSUME PipelineInv, compileOutcome = "rejected"
  PROVE  Promise!ShiftedAlias(program, "EXP")
<1>1. PICK x \in Ids : \E k \in DOMAIN program[x].args : ~CP!Allowed(x, k)
  BY SameIds DEF PipelineInv, CompileInv, CP!AcceptInv
<1>2. PICK k \in DOMAIN program[x].args : ~CP!Allowed(x, k)
  BY <1>1
<1>3. program[x].alias /\ program[x].args[k].next = 1 /\ program[x].args[k].type = "EXP"
  BY <1>2 DEF CP!Allowed, CP!NotAllowed, CP!IsExp
<1>4. k = 1
  BY <1>3, ProgramFacts, OperandFacts DEF PipelineInv
<1> QED
  BY <1>3, <1>4, SameIds DEF Promise!ShiftedAlias

LEMMA VerdictFacts == PipelineInv => VerdictOK
<1> SUFFICES ASSUME PipelineInv, Verdict # "none" PROVE Verdict \in Promise!Verdicts(program)
  BY DEF VerdictOK
<1>1. CASE compileOutcome = "rejected"
  BY <1>1, RejectedFacts DEF Verdict, Promise!Verdicts
<1>2. CASE compileOutcome # "rejected"
  <2>1. E!Finished /\ Verdict = outcome
    BY <1>2 DEF Verdict
  <2>2. /\ stage = "evaluate" /\ mode = "compute" /\ EvaluateInv
        /\ outcome \in {"OK", "FAIL", "no identities"}
    BY <2>1, FinishedFacts DEF PipelineInv, StageInv
  <2>3. outcome = "no identities" <=> Identities = <<>>
    BY <2>2 DEF EvaluateInv, EP!VerdictInv, EP!CheckOK
  <2>4. ~Promise!ShiftedAlias(program, "EXP")
    BY <2>2, ShiftFacts
  <2>5. CASE Identities = <<>> \/ Promise!ShiftedAlias(program, "CM")
    BY <2>1, <2>2, <2>3, <2>4, <2>5 DEF Promise!Verdicts
  <2>6. CASE Identities # <<>> /\ ~Promise!ShiftedAlias(program, "CM")
    <3>1. Promise!Value(program) = evaluations
      BY <2>1, <2>6, ShiftFacts, ColumnsAreValues
    <3>2. outcome \in {"OK", "FAIL"}
      BY <2>2, <2>3, <2>6
    <3>3. outcome = "OK" <=>
            \A k \in DOMAIN Identities : \A w \in Rows : evaluations[Identities[k]][w] = Zero
      BY <2>2, <3>2, Assumptions, EP!VerdictFacts, SameRows DEF EvaluateInv
    <3>4. outcome = "OK" <=> Promise!Holds(program)
      BY <3>1, <3>3, SameRows DEF Promise!Holds
    <3> QED
      BY <2>1, <2>4, <2>6, <3>2, <3>4 DEF Promise!Verdicts
  <2> QED
    BY <2>5, <2>6
<1> QED
  BY <1>1, <1>2

LEMMA DecideStep == PipelineInv /\ [Next]_vars /\ VerdictOK' => [Promise!Decide]_(Promise!vars)
<1> SUFFICES ASSUME PipelineInv, [Next]_vars, VerdictOK', ~UNCHANGED Promise!vars
             PROVE  Promise!Decide
  OBVIOUS
<1>1. compileOutcome \in {"running", "rejected"}
  BY DEF PipelineInv, CompileInv, CP!BaseInv, CP!TypeOK
<1>2. stage # "compile" => compileOutcome = "running"
  BY DEF PipelineInv, StageInv, C!Loaded
<1>3. stage # "evaluate" => ~E!Finished
  BY DEF PipelineInv, StageInv, E!Start, E!Finished
<1>4. CASE Compiling
  <2>1. UNCHANGED program
    BY <1>4 DEF Compiling, C!Next, C!CompileNext, C!ReadOperand, C!EndCompile,
       C!VisitDependency, C!MergeDependency, C!Return, C!Stop, C!vars
  <2>2. Verdict = "none"
    BY <1>1, <1>3, <1>4 DEF Compiling, C!Finished, Verdict
  <2> QED
    BY <2>1, <2>2 DEF Promise!Decide, Promise!vars, VerdictOK
<1>5. CASE Evaluating
  <2>1. UNCHANGED program
    BY <1>5 DEF Evaluating
  <2>2. Verdict = "none"
    BY <1>2, <1>5 DEF Evaluating, Verdict
  <2> QED
    BY <2>1, <2>2 DEF Promise!Decide, Promise!vars, VerdictOK
<1>6. CASE Reducing
  BY <1>6 DEF Reducing, R!Next, R!NotAnAlias, R!PickAlias, R!FollowChain, R!Replace, R!Stop, R!vars,
     compileVars, evaluateVars, Promise!vars, Verdict, E!Finished
<1>7. CASE \/ UNCHANGED vars \/ Stop \/ Grouping
           \/ Enter("compile", C!Loaded, "reduce")
           \/ Enter("reduce", R!Reduced, "groups")
           \/ Enter("groups", G!Done, "evaluate")
  BY <1>7 DEF Stop, Grouping, Enter, vars, shared, compileVars, evaluateVars, Promise!vars,
     Verdict, E!Finished
<1> QED
  BY <1>4, <1>5, <1>6, <1>7 DEF Next

(***************************************************************************)
(* The engine gives one verdict, once, and it is the one that the program  *)
(* and the columns determine: the safety part of ImplementsVerifier, for   *)
(* every set of acyclic programs, number of rows and threads, field and    *)
(* operations.  (That a verdict does come is checked, not proved.)         *)
(***************************************************************************)
THEOREM VerdictIsDetermined == Spec => Promise!Init /\ [][Promise!Decide]_(Promise!vars)
<1>1. Init => Promise!Init
  BY DEF Init, C!Init, E!Start, Promise!Init, Verdict, E!Finished
<1> QED
  BY <1>1, Invariants, VerdictFacts, DecideStep, PTL DEF Spec
-----------------------------------------------------------------------------
(***************************************************************************)
(* The runs of module Session, of which Pipeline is a single one.          *)
(***************************************************************************)

(***************************************************************************)
(* A run that loads has a file to load.                                    *)
(***************************************************************************)
LoadInv == runPc = "map" /\ options.load => file # NoFile

(***************************************************************************)
(* The cells that are not todo hold what the program evaluates to; a run   *)
(* that saves has them in the file.                                        *)
(***************************************************************************)
RunEvaluated ==
  \A x \in RunIds \ todo, w \in RunRows :
    runEvaluations[Cell(x, w)] = Truth[runProgram][input][Cell(x, w)]

EvalInv ==
  /\ runPc = "eval" => ~options.load
  /\ runPc \in {"eval", "check"} /\ ~options.load => RunEvaluated
  /\ runPc \in {"eval", "check"} /\ options.save => file = runEvaluations /\ saved = Saving

(***************************************************************************)
(* What has been passed when the checks are reached.                       *)
(***************************************************************************)
CheckInv ==
  runPc = "check" =>
    /\ options.load => file \in Cells /\ runEvaluations = Sized(file)
    /\ ~options.load => todo = {} /\ (options.verify # "none" => ~Unverifiable /\ Same)

SilentInv == runPc # "off" => verdict = "none"

VerdictInv == SavedFileIsTrue /\ VerdictTrue /\ VerifyExact

SessionInv == TypeOK /\ LoadInv /\ EvalInv /\ CheckInv /\ SilentInv /\ VerdictInv
-----------------------------------------------------------------------------
(***************************************************************************)
(* The cells of a program.                                                 *)
(***************************************************************************)
LEMMA SizeFacts ==
  ASSUME NEW p \in RunPrograms
  PROVE  Counts[p] \in Nat \ {0} /\ Length * Counts[p] \in Nat \ {0}
<1>1. Counts[p] \in Nat /\ Counts[p] > 0 /\ Length \in Nat /\ Length > 0
  BY SessionAssumption
<1>2. \A m, n \in Nat : m > 0 /\ n > 0 => m * n \in Nat /\ m * n > 0
  OBVIOUS
<1> QED
  BY <1>1, <1>2

LEMMA TableFacts ==
  ASSUME NEW n \in Nat, NEW f \in [1 .. n -> 0 .. 1]
  PROVE  f \in Seq(0 .. 1) /\ Len(f) = n /\ DOMAIN f = 1 .. n
<1>1. f \in Seq(0 .. 1)
  BY SeqDef
<1>2. Len(f) \in Nat /\ DOMAIN f = 1 .. Len(f)
  BY <1>1, LenProperties
<1>3. DOMAIN f = 1 .. n
  OBVIOUS
<1>4. Len(f) = n
  BY <1>2, <1>3
<1> QED
  BY <1>1, <1>3, <1>4

LEMMA CellFacts ==
  ASSUME NEW f \in Cells
  PROVE  f \in Seq(0 .. 1) /\ Len(f) \in Nat \ {0} /\ f \in [1 .. Len(f) -> 0 .. 1] /\ f # NoFile
<1>1. PICK p \in RunPrograms : f \in [1 .. Length * Counts[p] -> 0 .. 1]
  BY DEF Cells
<1>2. Length * Counts[p] \in Nat \ {0}
  BY SizeFacts
<1>3. f \in Seq(0 .. 1) /\ Len(f) = Length * Counts[p]
  BY <1>1, <1>2, TableFacts
<1> QED
  BY <1>1, <1>2, <1>3, SessionAssumption

(***************************************************************************)
(* Each cell belongs to one expression and one row.                        *)
(***************************************************************************)
LEMMA Positive ==
  ASSUME NEW a \in Nat, NEW b \in Nat PROVE a * b \in Nat
OBVIOUS

LEMMA Product ==
  ASSUME NEW a \in Nat, NEW b \in Nat, NEW c \in Nat, a <= b
  PROVE  c * a <= c * b /\ a * c <= b * c /\ a * c = c * a
<1>1. PICK d \in Nat : b = a + d
  <2>1. b - a \in Nat /\ b = a + (b - a)
    OBVIOUS
  <2> QED
    BY <2>1
<1>2. c * b = c * a + c * d /\ c * d \in Nat
  BY <1>1
<1> QED
  BY <1>2

LEMMA Division ==
  ASSUME NEW m \in Nat \ {0}, NEW q \in Nat, NEW r \in 0 .. m - 1
  PROVE  (r + m * q) \div m = q /\ (r + m * q) % m = r
<1> DEFINE a == r + m * q
<1>1. a \in Nat /\ a = m * (a \div m) + (a % m) /\ a % m \in 0 .. m - 1 /\ a \div m \in Nat
  BY Positive
<1>2. a \div m <= q
  <2>1. SUFFICES ASSUME a \div m >= q + 1 PROVE FALSE
    BY <1>1
  <2>2. m * (q + 1) <= m * (a \div m) /\ m * (q + 1) = m * q + m
    BY <1>1, <2>1, Product
  <2> QED
    BY <1>1, <2>2, Positive
<1>3. q <= a \div m
  <2>1. SUFFICES ASSUME q >= (a \div m) + 1 PROVE FALSE
    BY <1>1
  <2>2. m * ((a \div m) + 1) <= m * q /\ m * ((a \div m) + 1) = m * (a \div m) + m
    BY <1>1, <2>1, Product
  <2> QED
    BY <1>1, <2>2, Positive
<1>4. a \div m = q
  BY <1>1, <1>2, <1>3
<1> QED
  BY <1>1, <1>4, Positive

LEMMA Between ==
  ASSUME NEW m \in Nat \ {0}, NEW n \in Nat \ {0}, NEW q \in 0 .. n - 1, NEW r \in 0 .. m - 1
  PROVE  1 + m * q + r \in 1 .. m * n /\ m * n = n * m
<1>1. m * (q + 1) <= m * n /\ m * (q + 1) = m * q + m /\ m * q \in Nat /\ m * n \in Nat
  BY Product, Positive
<1> QED
  BY <1>1, Product

LEMMA Split ==
  ASSUME NEW m \in Nat \ {0}, NEW n \in Nat \ {0}, NEW c \in 1 .. m * n
  PROVE  /\ (c - 1) \div m \in 0 .. n - 1 /\ (c - 1) % m \in 0 .. m - 1
         /\ c = 1 + m * ((c - 1) \div m) + ((c - 1) % m)
<1> DEFINE a == c - 1
           q == a \div m
<1>1. a \in Nat /\ a < m * n /\ m * n \in Nat
  BY Positive
<1>2. a = m * q + (a % m) /\ a % m \in 0 .. m - 1 /\ q \in Nat
  BY <1>1
<1>3. q <= n - 1
  <2>1. SUFFICES ASSUME q >= n PROVE FALSE
    BY <1>2
  <2>2. m * n <= m * q
    BY <1>2, <2>1, Product
  <2> QED
    BY <1>1, <1>2, <2>2, Positive
<1> QED
  BY <1>2, <1>3

LEMMA CellsOfProgram ==
  ASSUME NEW p \in RunPrograms, runProgram = p
  PROVE  /\ Size \in Nat \ {0} /\ Counts[p] \in Nat \ {0}
         /\ \A x \in RunIds, w \in RunRows :
              /\ Cell(x, w) \in 1 .. Size
              /\ Cell(x, w) = 1 + x * Length + w
              /\ \A y \in RunIds, v \in RunRows : Cell(x, w) = Cell(y, v) => x = y /\ w = v
         /\ \A c \in 1 .. Size : \E x \in RunIds, w \in RunRows : c = Cell(x, w)
<1>1. Size \in Nat \ {0} /\ Counts[p] \in Nat \ {0} /\ Length \in Nat \ {0}
  BY SizeFacts, SessionAssumption DEF Size
<1>2. ASSUME NEW x \in RunIds, NEW w \in RunRows
      PROVE  Cell(x, w) \in 1 .. Size /\ Cell(x, w) = 1 + x * Length + w
  <2>1. x \in 0 .. Counts[p] - 1 /\ w \in 0 .. Length - 1 /\ x \in Nat /\ x <= x
    BY <1>1 DEF RunIds, RunRows
  <2> QED
    BY <1>1, <2>1, Between, Product DEF Cell, Size
<1>3. ASSUME NEW x \in RunIds, NEW w \in RunRows, NEW y \in RunIds, NEW v \in RunRows,
             Cell(x, w) = Cell(y, v)
      PROVE  x = y /\ w = v
  <2>1. x \in Nat /\ y \in Nat /\ w \in 0 .. Length - 1 /\ v \in 0 .. Length - 1
    BY <1>1 DEF RunIds, RunRows
  <2>2. Length * x \in Nat /\ Length * y \in Nat
    BY <1>1, <2>1, Positive
  <2>3. w + Length * x = v + Length * y
    BY <1>1, <1>3, <2>1, <2>2 DEF Cell
  <2>4. (w + Length * x) \div Length = x /\ (v + Length * y) \div Length = y
    BY <1>1, <2>1, Division
  <2>5. (w + Length * x) % Length = w /\ (v + Length * y) % Length = v
    BY <1>1, <2>1, Division
  <2> QED
    BY <2>3, <2>4, <2>5
<1>4. ASSUME NEW c \in 1 .. Size PROVE \E x \in RunIds, w \in RunRows : c = Cell(x, w)
  <2>1. /\ (c - 1) \div Length \in 0 .. Counts[p] - 1 /\ (c - 1) % Length \in 0 .. Length - 1
        /\ c = 1 + Length * ((c - 1) \div Length) + ((c - 1) % Length)
    BY <1>1, Split DEF Size
  <2> QED
    BY <1>1, <2>1 DEF RunIds, RunRows, Cell
<1> QED
  BY <1>1, <1>2, <1>3, <1>4

(***************************************************************************)
(* A mapping has the size of the program, whatever was in the file.        *)
(***************************************************************************)
LEMMA SizedFacts ==
  ASSUME NEW p \in RunPrograms, runProgram = p, NEW data \in Seq(0 .. 1)
  PROVE  Sized(data) \in [1 .. Size -> 0 .. 1] /\ Sized(data) \in Cells /\ Len(Sized(data)) = Size
<1>1. Size \in Nat \ {0}
  BY CellsOfProgram
<1>2. Len(data) \in Nat /\ DOMAIN data = 1 .. Len(data)
  BY LenProperties
<1>3. \A c \in 1 .. Size : At(data, c) \in 0 .. 1
  BY <1>1, <1>2, ElementOfSeq DEF At
<1>4. Sized(data) \in [1 .. Size -> 0 .. 1]
  BY <1>3 DEF Sized
<1>5. Sized(data) \in Cells
  BY <1>4 DEF Cells, Size
<1> QED
  BY <1>1, <1>4, <1>5, TableFacts

LEMMA SizedOfSameSize ==
  ASSUME NEW p \in RunPrograms, runProgram = p, NEW data \in [1 .. Size -> 0 .. 1]
  PROVE  Sized(data) = data /\ Len(data) = Size /\ \A c \in 1 .. Size : At(data, c) = data[c]
<1>1. Size \in Nat \ {0}
  BY CellsOfProgram
<1>2. Len(data) = Size
  BY <1>1, TableFacts
<1>3. \A c \in 1 .. Size : At(data, c) = data[c]
  BY <1>1, <1>2 DEF At
<1>4. Sized(data) = [c \in 1 .. Size |-> data[c]]
  BY <1>3 DEF Sized
<1> QED
  BY <1>2, <1>3, <1>4

(***************************************************************************)
(* Evaluating an expression stores its cells and no others.                *)
(***************************************************************************)
LEMMA EvaluateFacts ==
  ASSUME TypeOK, runPc = "eval", NEW x \in RunIds, Evaluate(x)
  PROVE  /\ runEvaluations \in [1 .. Size -> 0 .. 1]
         /\ runEvaluations' \in [1 .. Size -> 0 .. 1]
         /\ \A w \in RunRows : runEvaluations'[Cell(x, w)] = Truth[runProgram][input][Cell(x, w)]
         /\ \A y \in RunIds \ {x}, w \in RunRows : runEvaluations'[Cell(y, w)] = runEvaluations[Cell(y, w)]
<1> DEFINE T == Truth[runProgram][input]
<1>1. runProgram \in RunPrograms /\ input \in Inputs /\ Size \in Nat \ {0}
  BY CellsOfProgram DEF TypeOK
<1>2. T \in [1 .. Size -> 0 .. 1]
  BY <1>1, SessionAssumption DEF Size
<1>3. runEvaluations \in [1 .. Size -> 0 .. 1]
  <2>1. Len(runEvaluations) = Size /\ runEvaluations \in Cells \cup {<<>>}
    BY DEF TypeOK
  <2>2. runEvaluations # <<>>
    BY <1>1, <2>1, EmptySeq
  <2> QED
    BY <2>1, <2>2, CellFacts
<1>4. runEvaluations' =
        [c \in 1 .. Size |-> IF \E w \in RunRows : c = Cell(x, w) THEN T[c] ELSE runEvaluations[c]]
  BY <1>3 DEF Evaluate
<1> HIDE DEF T
<1>5. runEvaluations' \in [1 .. Size -> 0 .. 1]
  BY <1>2, <1>3, <1>4
<1>6. \A w \in RunRows : runEvaluations'[Cell(x, w)] = T[Cell(x, w)]
  BY <1>1, <1>4, CellsOfProgram
<1>7. ASSUME NEW y \in RunIds \ {x}, NEW w \in RunRows
      PROVE  runEvaluations'[Cell(y, w)] = runEvaluations[Cell(y, w)]
  <2>1. Cell(y, w) \in 1 .. Size /\ ~ \E v \in RunRows : Cell(y, w) = Cell(x, v)
    BY <1>1, CellsOfProgram
  <2> QED
    BY <1>4, <2>1
<1> QED
  BY <1>3, <1>5, <1>6, <1>7 DEF T
-----------------------------------------------------------------------------
(***************************************************************************)
(* Type correctness, action by action.                                     *)
(***************************************************************************)
LEMMA InitType == SessionInit => TypeOK
<1> SUFFICES ASSUME SessionInit PROVE TypeOK
  OBVIOUS
<1>1. runEvaluations \in Cells
  <2>1. <<>> \in Seq(0 .. 1)
    OBVIOUS
  <2> QED
    BY <2>1, SizedFacts DEF SessionInit
<1>2. options \in Options /\ ~(options.load /\ options.save)
  BY DEF SessionInit, Options
<1> QED
  BY <1>1, <1>2 DEF SessionInit, TypeOK

LEMMA LeaveType ==
  ASSUME TypeOK, Leave, UNCHANGED <<file, saved>>,
         verdict' \in {"none", "OK", "FAIL", "differs"}
  PROVE  TypeOK'
  BY DEF TypeOK, Leave, RunIds, Size

(***************************************************************************)
(* What the file maps to.                                                  *)
(***************************************************************************)
LEMMA MappedFile ==
  ASSUME TypeOK
  PROVE  /\ (IF file = NoFile THEN <<>> ELSE file) \in Seq(0 .. 1)
         /\ file # NoFile => file \in Cells /\ file \in Seq(0 .. 1)
  BY CellFacts DEF TypeOK

LEMMA TypeStep == TypeOK /\ LoadInv /\ [SessionNext]_sessionVars => TypeOK' /\ LoadInv'
<1> SUFFICES ASSUME TypeOK, LoadInv, [SessionNext]_sessionVars PROVE TypeOK' /\ LoadInv'
  OBVIOUS
<1>1. CASE UNCHANGED sessionVars
  BY <1>1 DEF sessionVars, run, TypeOK, RunIds, Size, LoadInv
<1>2. ASSUME NEW o \in Options, NEW p \in RunPrograms, NEW i \in Inputs, Start(o, p, i)
      PROVE  TypeOK' /\ LoadInv'
  BY <1>2 DEF TypeOK, Start, Accepted, RunIds, LoadInv
<1>3. CASE Refuse
  BY <1>3, LeaveType DEF Refuse, TypeOK, LoadInv, Leave
<1>4. CASE MapToSave
  <2>1. Size' = Size /\ RunIds' = RunIds
    BY <1>4 DEF MapToSave, Size, RunIds
  <2>2. file' \in Cells /\ Len(file') = Size
    <3>1. runProgram \in RunPrograms
      BY DEF TypeOK
    <3> QED
      BY <1>4, <3>1, MappedFile, SizedFacts DEF MapToSave
  <2>3. saved' \in [program : RunPrograms, input : Inputs, complete : BOOLEAN]
    BY <1>4 DEF MapToSave, Saving, TypeOK
  <2> QED
    BY <1>4, <2>1, <2>2, <2>3 DEF MapToSave, TypeOK, LoadInv
<1>5. CASE MapToLoad
  <2>1. Size' = Size /\ RunIds' = RunIds
    BY <1>5 DEF MapToLoad, Size, RunIds
  <2>2. runProgram \in RunPrograms /\ file \in Seq(0 .. 1)
    BY <1>5, MappedFile DEF TypeOK, LoadInv, MapToLoad
  <2>3. runEvaluations' \in Cells /\ Len(runEvaluations') = Size
    BY <1>5, <2>2, SizedFacts DEF MapToLoad
  <2> QED
    BY <1>5, <2>1, <2>3 DEF MapToLoad, TypeOK, LoadInv
<1>6. CASE LoadFault
  BY <1>6, LeaveType DEF LoadFault, TypeOK, LoadInv, Leave
<1>7. CASE Allocate
  <2>1. Size' = Size /\ RunIds' = RunIds /\ Size \in Nat \ {0}
    BY <1>7, CellsOfProgram DEF Allocate, Size, RunIds, TypeOK
  <2>2. runEvaluations' \in [1 .. Size -> 0 .. 1]
    BY <1>7 DEF Allocate
  <2>3. runEvaluations' \in Cells /\ Len(runEvaluations') = Size
    <3>1. runProgram \in RunPrograms /\ Size = Length * Counts[runProgram]
      BY DEF TypeOK, Size
    <3>2. runEvaluations' \in Cells
      BY <2>2, <3>1 DEF Cells
    <3> QED
      BY <2>1, <2>2, <3>2, TableFacts
  <2> QED
    BY <1>7, <2>1, <2>3 DEF Allocate, TypeOK, LoadInv
<1>8. ASSUME NEW x \in RunIds, Evaluate(x) PROVE TypeOK' /\ LoadInv'
  <2>1. Size' = Size /\ RunIds' = RunIds /\ Size \in Nat \ {0}
    BY <1>8, CellsOfProgram DEF Evaluate, run, Size, RunIds, TypeOK
  <2>2. runEvaluations' \in [1 .. Size -> 0 .. 1]
    BY <1>8, EvaluateFacts DEF Evaluate
  <2>3. runEvaluations' \in Cells /\ Len(runEvaluations') = Size
    <3>1. runProgram \in RunPrograms /\ Size = Length * Counts[runProgram]
      BY DEF TypeOK, Size
    <3>2. runEvaluations' \in Cells
      BY <2>2, <3>1 DEF Cells
    <3> QED
      BY <2>1, <2>2, <3>2, TableFacts
  <2>4. file' \in Cells \cup {NoFile} /\ todo' \subseteq RunIds
    BY <1>8, <2>3 DEF Evaluate, TypeOK
  <2>5. UNCHANGED <<dump, runPc, options, runProgram, input, existed, verdict, saved>> /\ runPc = "eval"
    BY <1>8 DEF Evaluate, run
  <2> QED
    BY <2>1, <2>3, <2>4, <2>5 DEF TypeOK, LoadInv
<1>9. CASE EndEval
  BY <1>9 DEF EndEval, TypeOK, RunIds, Size, LoadInv
<1>10. CASE VerifyFault
  BY <1>10, LeaveType DEF VerifyFault, TypeOK, LoadInv, Leave
<1>11. CASE FailVerify
  BY <1>11, LeaveType DEF FailVerify, TypeOK, LoadInv, Leave
<1>12. CASE Finish
  BY <1>12 DEF Finish, Leave, Outcome, TypeOK, RunIds, Size, LoadInv
<1>13. CASE Kill
  BY <1>13, LeaveType DEF Kill, TypeOK, LoadInv, Leave
<1> QED
  BY <1>1, <1>2, <1>3, <1>4, <1>5, <1>6, <1>7, <1>8, <1>9, <1>10, <1>11, <1>12, <1>13
  DEF SessionNext, Engine

(***************************************************************************)
(* The variables of a session stay in their sets, and a run that loads has *)
(* a file: no other run can take it away meanwhile.                        *)
(***************************************************************************)
THEOREM SessionTypeOK == SessionSpec => []TypeOK
<1>1. SessionInit => TypeOK /\ LoadInv
  BY InitType DEF SessionInit, LoadInv
<1> QED
  BY <1>1, TypeStep, PTL DEF SessionSpec
-----------------------------------------------------------------------------
(***************************************************************************)
(* When nothing is todo, everything has been evaluated.                    *)
(***************************************************************************)
LEMMA AllEvaluated ==
  ASSUME TypeOK, EvalInv, runPc \in {"eval", "check"}, ~options.load, todo = {}
  PROVE  runEvaluations = Truth[runProgram][input] /\ runEvaluations \in [1 .. Size -> 0 .. 1]
<1> DEFINE T == Truth[runProgram][input]
<1>1. runProgram \in RunPrograms /\ input \in Inputs /\ Size \in Nat \ {0}
  BY CellsOfProgram DEF TypeOK
<1>2. T \in [1 .. Size -> 0 .. 1]
  BY <1>1, SessionAssumption DEF Size
<1>3. runEvaluations \in [1 .. Size -> 0 .. 1]
  <2>1. Len(runEvaluations) = Size /\ runEvaluations \in Cells \cup {<<>>}
    BY DEF TypeOK
  <2>2. runEvaluations # <<>>
    BY <1>1, <2>1, EmptySeq
  <2> QED
    BY <2>1, <2>2, CellFacts
<1>4. \A x \in RunIds, w \in RunRows : runEvaluations[Cell(x, w)] = T[Cell(x, w)]
  BY DEF EvalInv, RunEvaluated
<1> HIDE DEF T
<1>5. \A c \in 1 .. Size : runEvaluations[c] = T[c]
  BY <1>1, <1>4, CellsOfProgram
<1>6. runEvaluations = T
  <2>1. runEvaluations = [c \in 1 .. Size |-> runEvaluations[c]] /\ T = [c \in 1 .. Size |-> T[c]]
    BY <1>2, <1>3
  <2> QED
    BY <1>5, <2>1, Zenon
<1> QED
  BY <1>3, <1>6 DEF T

(***************************************************************************)
(* A cell of the dump is where the other layout has it.                    *)
(***************************************************************************)
LEMMA OmegasFacts ==
  ASSUME NEW p \in RunPrograms, runProgram = p, NEW i \in Inputs,
         NEW x \in RunIds, NEW w \in RunRows
  PROVE  At(ByOmegas(p, i), 1 + (x + Counts[p] * w)) = Truth[p][i][Cell(x, w)]
<1> DEFINE n == Counts[p]
           D == ByOmegas(p, i)
           o == 1 + (x + n * w)
<1>1. n \in Nat \ {0} /\ Length \in Nat \ {0} /\ x \in 0 .. n - 1 /\ w \in 0 .. Length - 1 /\ w \in Nat
  BY SizeFacts, SessionAssumption DEF RunIds, RunRows
<1>2. o \in 1 .. Length * n /\ Length * n \in Nat /\ n * w \in Nat
  <2>1. n * w \in Nat /\ Length * n \in Nat /\ x \in Nat
    BY <1>1, Positive
  <2>2. 1 + n * w + x \in 1 .. n * Length /\ n * Length = Length * n
    BY <1>1, Between
  <2>3. o = 1 + n * w + x
    BY <2>1
  <2> QED
    BY <2>1, <2>2, <2>3
<1>3. o - 1 = x + n * w
  BY <1>1, <1>2
<1>4. (o - 1) % n = x /\ (o - 1) \div n = w
  BY <1>1, <1>3, Division
<1>5. D = [c \in 1 .. Length * n |-> Truth[p][i][Cell((c - 1) % n, (c - 1) \div n)]]
  BY DEF ByOmegas
<1>6. D[o] = Truth[p][i][Cell(x, w)]
  BY <1>2, <1>4, <1>5
<1>7. Len(D) = Length * n
  <2>1. ASSUME NEW c \in 1 .. Length * n
        PROVE  Truth[p][i][Cell((c - 1) % n, (c - 1) \div n)] \in 0 .. 1
    <3>1. c \in 1 .. n * Length
      BY <1>1, <2>1, Product
    <3>2. (c - 1) % n \in RunIds /\ (c - 1) \div n \in RunRows
      BY <1>1, <3>1, Split DEF RunIds, RunRows
    <3>3. Cell((c - 1) % n, (c - 1) \div n) \in 1 .. Length * n
      BY <3>2, CellsOfProgram DEF Size
    <3> QED
      BY <3>3, SessionAssumption
  <2>2. D \in [1 .. Length * n -> 0 .. 1]
    BY <1>5, <2>1
  <2> QED
    BY <1>2, <2>2, TableFacts
<1> QED
  BY <1>2, <1>6, <1>7 DEF At

(***************************************************************************)
(* What the comparison finds.                                              *)
(***************************************************************************)
LEMMA ComparisonExact ==
  ASSUME TypeOK, EvalInv, SavedFileIsTrue,
         runPc \in {"eval", "check"}, ~options.load, todo = {},
         \/ options.verify = "omegas"
         \/ options.verify = "pols" /\ saved.complete /\ saved.program = runProgram
  PROVE  Same <=> Truth[runProgram][input] = Truth[runProgram][Compared]
<1> DEFINE T == Truth[runProgram][input]
           U == Truth[runProgram][Compared]
<1>1. runProgram \in RunPrograms /\ input \in Inputs /\ Compared \in Inputs /\ Size \in Nat \ {0}
  BY CellsOfProgram DEF TypeOK, Compared
<1>2. T \in [1 .. Size -> 0 .. 1] /\ U \in [1 .. Size -> 0 .. 1]
  BY <1>1, SessionAssumption DEF Size
<1>3. runEvaluations = T
  BY AllEvaluated
<1>4. ASSUME NEW x \in RunIds, NEW w \in RunRows
      PROVE  At(VerifyFile, Offset(x, w)) = U[Cell(x, w)]
  <2>1. CASE options.verify = "omegas"
    BY <1>1, <2>1, OmegasFacts DEF VerifyFile, Offset, Compared, TypeOK
  <2>2. CASE options.verify = "pols"
    <3>1. VerifyFile = U
      BY <2>2 DEF VerifyFile, Compared, SavedFileIsTrue
    <3>2. Offset(x, w) = Cell(x, w) /\ Cell(x, w) \in 1 .. Size
      <4>1. Offset(x, w) = 1 + (x * Length + w)
        BY <2>2 DEF Offset
      <4>2. x \in Nat /\ w \in Nat /\ x * Length \in Nat
        BY <1>1, SizeFacts, SessionAssumption, Positive DEF RunIds, RunRows
      <4>3. Cell(x, w) = 1 + x * Length + w /\ Cell(x, w) \in 1 .. Size
        BY <1>1, CellsOfProgram
      <4> QED
        BY <4>1, <4>2, <4>3
    <3>3. Len(U) = Size
      BY <1>1, <1>2, TableFacts
    <3> QED
      BY <1>1, <3>1, <3>2, <3>3 DEF At
  <2> QED
    BY <2>1, <2>2
<1> HIDE DEF T, U
<1>5. Same <=> \A x \in RunIds, w \in RunRows : T[Cell(x, w)] = U[Cell(x, w)]
  BY <1>3, <1>4 DEF Same
<1>6. (\A x \in RunIds, w \in RunRows : T[Cell(x, w)] = U[Cell(x, w)]) => \A c \in 1 .. Size : T[c] = U[c]
  BY <1>1, CellsOfProgram
<1>7. ASSUME \A c \in 1 .. Size : T[c] = U[c] PROVE T = U
  <2>1. T = [c \in 1 .. Size |-> T[c]] /\ U = [c \in 1 .. Size |-> U[c]]
    BY <1>2
  <2> QED
    BY <1>7, <2>1, Zenon
<1> QED
  BY <1>5, <1>6, <1>7 DEF T, U
-----------------------------------------------------------------------------
(***************************************************************************)
(* A run that ends without a verdict says nothing and leaves the file.     *)
(***************************************************************************)
LEMMA LeaveInv ==
  ASSUME SessionInv, runPc # "off", Leave, UNCHANGED <<file, saved, verdict>>
  PROVE  EvalInv' /\ CheckInv' /\ SilentInv' /\ VerdictInv'
<1>1. runPc' = "off" /\ verdict' = "none"
  BY DEF Leave, SessionInv, SilentInv
<1>2. EvalInv' /\ CheckInv' /\ SilentInv'
  BY <1>1 DEF EvalInv, CheckInv, SilentInv
<1>3. VerdictTrue' /\ VerifyExact'
  BY <1>1 DEF VerdictTrue, VerifyExact
<1>4. SavedFileIsTrue'
  BY DEF SessionInv, VerdictInv, SavedFileIsTrue
<1> QED
  BY <1>2, <1>3, <1>4 DEF VerdictInv

(***************************************************************************)
(* A run that goes on says nothing yet.                                    *)
(***************************************************************************)
LEMMA SilentStep ==
  ASSUME SessionInv, runPc # "off", verdict' = verdict
  PROVE  SilentInv' /\ VerdictTrue' /\ VerifyExact'
<1>1. verdict' = "none"
  BY DEF SessionInv, SilentInv
<1> QED
  BY <1>1 DEF SilentInv, VerdictTrue, VerifyExact

LEMMA EvaluateStep ==
  ASSUME SessionInv, NEW x \in RunIds, Evaluate(x)
  PROVE  EvalInv' /\ CheckInv' /\ SilentInv' /\ VerdictInv'
<1>1. runPc = "eval" /\ runPc' = "eval" /\ ~options.load /\ UNCHANGED run /\ UNCHANGED <<verdict, saved>>
  BY DEF Evaluate, run, SessionInv, EvalInv
<1>2. RunIds' = RunIds /\ options' = options /\ runProgram' = runProgram /\ input' = input
  BY <1>1 DEF run, RunIds
<1>3. RunEvaluated'
  <2>1. \A w \in RunRows : runEvaluations'[Cell(x, w)] = Truth[runProgram][input][Cell(x, w)]
    BY <1>1, EvaluateFacts DEF SessionInv
  <2>2. \A y \in RunIds \ {x}, w \in RunRows : runEvaluations'[Cell(y, w)] = runEvaluations[Cell(y, w)]
    BY <1>1, EvaluateFacts DEF SessionInv
  <2>3. todo' = todo \ {x}
    BY DEF Evaluate
  <2>4. \A y \in RunIds \ todo, w \in RunRows :
          runEvaluations[Cell(y, w)] = Truth[runProgram][input][Cell(y, w)]
    BY <1>1 DEF SessionInv, EvalInv, RunEvaluated
  <2>5. SUFFICES ASSUME NEW y \in RunIds \ todo', NEW w \in RunRows
                 PROVE  runEvaluations'[Cell(y, w)] = Truth[runProgram][input][Cell(y, w)]
    BY <1>2 DEF RunEvaluated, RunRows, Cell
  <2> QED
    BY <2>1, <2>2, <2>3, <2>4, <2>5
<1>4. EvalInv'
  BY <1>1, <1>2, <1>3 DEF EvalInv, SessionInv, Evaluate, Saving
<1>5. SavedFileIsTrue'
  BY <1>1, <1>2 DEF SavedFileIsTrue, SessionInv, VerdictInv, EvalInv, Saving, Evaluate
<1> QED
  BY <1>1, <1>4, <1>5, SilentStep DEF CheckInv, VerdictInv

LEMMA FinishStep ==
  ASSUME SessionInv, Finish
  PROVE  EvalInv' /\ CheckInv' /\ SilentInv' /\ VerdictInv'
<1> USE DEF SessionInv, VerdictInv
<1>1. /\ runPc = "check" /\ runPc' = "off" /\ verdict' = Outcome(runEvaluations)
      /\ UNCHANGED <<file, dump, options, runProgram, input, runEvaluations>>
      /\ saved' = IF options.save THEN [saved EXCEPT !.complete = TRUE] ELSE saved
      /\ saved \in [program : RunPrograms, input : Inputs, complete : BOOLEAN]
      /\ runProgram \in RunPrograms /\ input \in Inputs /\ ~(options.load /\ options.save)
  BY DEF Finish, Leave, TypeOK
<1>2. EvalInv' /\ CheckInv' /\ SilentInv'
  BY <1>1 DEF EvalInv, CheckInv, SilentInv
<1>3. ~options.load => runEvaluations = Truth[runProgram][input] /\ todo = {}
  BY <1>1, AllEvaluated DEF CheckInv
<1>4. options.save => /\ saved' = [program |-> runProgram, input |-> input, complete |-> TRUE]
                      /\ file = Truth[runProgram][input]
  <2>1. SUFFICES ASSUME options.save PROVE /\ saved'.program = runProgram /\ saved'.input = input
                                           /\ saved' \in [program : RunPrograms, input : Inputs, complete : {TRUE}]
                                           /\ file = Truth[runProgram][input]
    OBVIOUS
  <2>2. saved.program = runProgram /\ saved.input = input /\ file = runEvaluations
    BY <1>1, <2>1 DEF EvalInv, Saving
  <2>3. saved' = [saved EXCEPT !.complete = TRUE]
    BY <1>1, <2>1
  <2> QED
    BY <1>1, <1>3, <2>1, <2>2, <2>3
<1>5. SavedFileIsTrue'
  BY <1>1, <1>4 DEF SavedFileIsTrue
<1>6. VerdictTrue'
  <2>1. CASE ~options.load
    BY <1>1, <1>3, <2>1 DEF VerdictTrue
  <2>2. ASSUME options.load, saved' = [program |-> runProgram, input |-> input, complete |-> TRUE]
        PROVE  runEvaluations = Truth[runProgram][input]
    <3>1. file = Truth[runProgram][input] /\ runEvaluations = Sized(file)
      BY <1>1, <2>2 DEF SavedFileIsTrue, CheckInv
    <3>2. Truth[runProgram][input] \in [1 .. Size -> 0 .. 1]
      BY <1>1, SessionAssumption DEF Size
    <3> QED
      BY <1>1, <3>1, <3>2, SizedOfSameSize
  <2> QED
    BY <1>1, <2>1, <2>2 DEF VerdictTrue
<1>7. VerifyExact'
  <2>1. SUFFICES ASSUME ~options.load,
                        \/ options.verify = "omegas"
                        \/ options.verify = "pols" /\ saved'.complete /\ saved'.program = runProgram
                 PROVE  Truth[runProgram][input] = Truth[runProgram][Compared']
    BY <1>1 DEF VerifyExact, Outcome
  <2>2. Same
    BY <1>1, <2>1 DEF CheckInv
  <2>3. CASE options.verify = "omegas"
    BY <1>1, <1>3, <2>1, <2>2, <2>3, ComparisonExact DEF Compared
  <2>4. CASE options.verify = "pols" /\ options.save
    BY <1>1, <1>4, <2>4 DEF Compared
  <2>5. CASE options.verify = "pols" /\ ~options.save
    BY <1>1, <1>3, <2>1, <2>2, <2>5, ComparisonExact DEF Compared
  <2> QED
    BY <2>1, <2>3, <2>4, <2>5
<1> QED
  BY <1>2, <1>5, <1>6, <1>7

LEMMA StartStep ==
  ASSUME SessionInv, NEW o \in Options, NEW p \in RunPrograms, NEW i \in Inputs, Start(o, p, i)
  PROVE  EvalInv' /\ CheckInv' /\ SilentInv' /\ VerdictInv'
<1>1. runPc' = "map" /\ verdict' = "none" /\ UNCHANGED <<file, saved>>
  BY DEF Start
<1>2. SavedFileIsTrue'
  BY <1>1 DEF SessionInv, VerdictInv, SavedFileIsTrue
<1> QED
  BY <1>1, <1>2 DEF EvalInv, CheckInv, SilentInv, VerdictInv, VerdictTrue, VerifyExact

LEMMA MapStep ==
  ASSUME SessionInv, MapToSave \/ MapToLoad \/ Allocate
  PROVE  EvalInv' /\ CheckInv' /\ SilentInv' /\ VerdictInv'
<1> USE DEF SessionInv
<1>1. /\ runPc = "map" /\ UNCHANGED <<options, runProgram, input, verdict>>
      /\ RunIds' = RunIds /\ Size' = Size
  BY DEF MapToSave, MapToLoad, Allocate, RunIds, Size
<1>2. SilentInv' /\ VerdictTrue' /\ VerifyExact'
  BY <1>1, SilentStep DEF MapToSave, MapToLoad, Allocate
<1>3. CASE MapToSave
  <2>1. /\ runPc' = "eval" /\ file' = runEvaluations' /\ todo' = RunIds /\ saved' = Saving /\ options.save
        /\ ~options.load /\ Saving' = Saving
    BY <1>1, <1>3 DEF MapToSave, TypeOK, Saving
  <2>2. RunEvaluated'
    BY <1>1, <2>1 DEF RunEvaluated
  <2>3. SavedFileIsTrue'
    BY <2>1 DEF SavedFileIsTrue, Saving
  <2> QED
    BY <1>1, <1>2, <2>1, <2>2, <2>3 DEF EvalInv, CheckInv, VerdictInv
<1>4. CASE MapToLoad
  <2>1. /\ runPc' = "check" /\ runEvaluations' = Sized(file) /\ options.load /\ ~options.save
        /\ UNCHANGED <<file, saved>>
    BY <1>4 DEF MapToLoad, TypeOK
  <2>2. file \in Cells /\ Sized(file)' = Sized(file)
    BY <1>1, <2>1, MappedFile DEF LoadInv, Sized, At
  <2>3. SavedFileIsTrue'
    BY <2>1 DEF SavedFileIsTrue, VerdictInv
  <2> QED
    BY <1>1, <1>2, <2>1, <2>2, <2>3 DEF EvalInv, CheckInv, VerdictInv
<1>5. CASE Allocate
  <2>1. /\ runPc' = "eval" /\ todo' = RunIds /\ ~options.save /\ ~options.load /\ UNCHANGED <<file, saved>>
    BY <1>5 DEF Allocate
  <2>2. RunEvaluated'
    BY <1>1, <2>1 DEF RunEvaluated
  <2>3. SavedFileIsTrue'
    BY <2>1 DEF SavedFileIsTrue, VerdictInv
  <2> QED
    BY <1>1, <1>2, <2>1, <2>2, <2>3 DEF EvalInv, CheckInv, VerdictInv
<1> QED
  BY <1>3, <1>4, <1>5

LEMMA EndEvalStep ==
  ASSUME SessionInv, EndEval
  PROVE  EvalInv' /\ CheckInv' /\ SilentInv' /\ VerdictInv'
<1> USE DEF SessionInv
<1>1. /\ runPc = "eval" /\ runPc' = "check" /\ todo = {} /\ ~options.load
      /\ options.verify # "none" => ~Unverifiable /\ Same
      /\ UNCHANGED <<file, dump, options, runProgram, input, runEvaluations, todo, verdict, saved>>
  BY DEF EndEval, EvalInv
<1>2. /\ RunIds' = RunIds /\ Size' = Size /\ Saving' = Saving
      /\ Unverifiable' = Unverifiable /\ Same' = Same /\ RunEvaluated' = RunEvaluated
  BY <1>1 DEF RunIds, Size, Saving, Unverifiable, Same, RunEvaluated, VerifyFile, ByOmegas, Offset
<1>3. SavedFileIsTrue'
  BY <1>1 DEF SavedFileIsTrue, VerdictInv
<1> QED
  BY <1>1, <1>2, <1>3, SilentStep DEF EvalInv, CheckInv, VerdictInv

LEMMA FailVerifyStep ==
  ASSUME SessionInv, FailVerify
  PROVE  EvalInv' /\ CheckInv' /\ SilentInv' /\ VerdictInv'
<1> USE DEF SessionInv
<1>1. /\ runPc = "eval" /\ runPc' = "off" /\ todo = {} /\ ~options.load /\ ~Same /\ verdict' = "differs"
      /\ UNCHANGED <<file, dump, options, runProgram, input, saved>>
  BY DEF FailVerify, EvalInv, Leave
<1>2. EvalInv' /\ CheckInv' /\ SilentInv' /\ VerdictTrue' /\ SavedFileIsTrue'
  BY <1>1 DEF EvalInv, CheckInv, SilentInv, VerdictTrue, SavedFileIsTrue, VerdictInv
<1>3. VerifyExact'
  BY <1>1, ComparisonExact DEF VerifyExact, VerdictInv, Compared
<1> QED
  BY <1>2, <1>3 DEF VerdictInv
-----------------------------------------------------------------------------
LEMMA SessionInvInit == SessionInit => SessionInv
<1> SUFFICES ASSUME SessionInit PROVE SessionInv
  OBVIOUS
<1>1. TypeOK
  BY InitType
<1>2. runPc = "off" /\ verdict = "none" /\ ~saved.complete
  BY DEF SessionInit
<1> QED
  BY <1>1, <1>2 DEF SessionInv, LoadInv, EvalInv, CheckInv, SilentInv, VerdictInv,
     SavedFileIsTrue, VerdictTrue, VerifyExact

LEMMA SessionInvStep == SessionInv /\ [SessionNext]_sessionVars => SessionInv'
<1> SUFFICES ASSUME SessionInv, [SessionNext]_sessionVars
             PROVE  EvalInv' /\ CheckInv' /\ SilentInv' /\ VerdictInv'
  <2>1. SessionInv /\ [SessionNext]_sessionVars => TypeOK' /\ LoadInv'
    BY TypeStep DEF SessionInv
  <2> QED
    BY <2>1 DEF SessionInv
<1>1. CASE UNCHANGED sessionVars
  <2>1. UNCHANGED <<file, dump, runPc, options, runProgram, input, runEvaluations, todo, verdict, saved>>
    BY <1>1 DEF sessionVars, run
  <2>2. /\ RunIds' = RunIds /\ Saving' = Saving /\ RunEvaluated' = RunEvaluated /\ Sized(file)' = Sized(file)
        /\ Same' = Same /\ Unverifiable' = Unverifiable /\ Compared' = Compared
    BY <2>1 DEF RunIds, Size, Saving, RunEvaluated, Sized, At, Same, Unverifiable, Compared,
       VerifyFile, ByOmegas, Offset
  <2>3. EvalInv' /\ CheckInv' /\ SilentInv'
    BY <2>1, <2>2 DEF SessionInv, EvalInv, CheckInv, SilentInv
  <2>4. SavedFileIsTrue' /\ VerdictTrue' /\ VerifyExact'
    BY <2>1, <2>2 DEF SessionInv, VerdictInv, SavedFileIsTrue, VerdictTrue, VerifyExact
  <2> QED
    BY <2>3, <2>4 DEF VerdictInv
<1>2. ASSUME NEW o \in Options, NEW p \in RunPrograms, NEW i \in Inputs, Start(o, p, i)
      PROVE  EvalInv' /\ CheckInv' /\ SilentInv' /\ VerdictInv'
  BY <1>2, StartStep
<1>3. CASE Refuse \/ LoadFault \/ VerifyFault \/ Kill
  BY <1>3, LeaveInv DEF Refuse, LoadFault, VerifyFault, Kill
<1>4. CASE MapToSave \/ MapToLoad \/ Allocate
  BY <1>4, MapStep
<1>5. ASSUME NEW x \in RunIds, Evaluate(x) PROVE EvalInv' /\ CheckInv' /\ SilentInv' /\ VerdictInv'
  BY <1>5, EvaluateStep
<1>6. CASE EndEval
  BY <1>6, EndEvalStep
<1>7. CASE FailVerify
  BY <1>7, FailVerifyStep
<1>8. CASE Finish
  BY <1>8, FinishStep
<1> QED
  BY <1>1, <1>2, <1>3, <1>4, <1>5, <1>6, <1>7, <1>8 DEF SessionNext, Engine

LEMMA SessionInvariant == SessionSpec => []SessionInv
  BY SessionInvInit, SessionInvStep, PTL DEF SessionSpec

(***************************************************************************)
(* A file that a finished run has saved holds what that run has evaluated, *)
(* until another run saves: mapFile cuts what is longer, evalAll stores    *)
(* every cell, and nothing else writes.                                    *)
(***************************************************************************)
THEOREM SavedFilesAreTrue == SessionSpec => []SavedFileIsTrue
<1>1. SessionInv => SavedFileIsTrue
  BY DEF SessionInv, VerdictInv
<1> QED
  BY <1>1, SessionInvariant, PTL

(***************************************************************************)
(* The verdict printed is that of the program on the input, for a run that *)
(* evaluates, and for one that loads a finished file of its own program    *)
(* and input.                                                              *)
(***************************************************************************)
THEOREM VerdictsAreTrue == SessionSpec => []VerdictTrue
<1>1. SessionInv => VerdictTrue
  BY DEF SessionInv, VerdictInv
<1> QED
  BY <1>1, SessionInvariant, PTL

(***************************************************************************)
(* verifyExpressionsWithFile stops exactly the runs whose evaluations are  *)
(* not those of the file, in either layout.                                *)
(***************************************************************************)
THEOREM ComparisonsAreExact == SessionSpec => []VerifyExact
<1>1. SessionInv => VerifyExact
  BY DEF SessionInv, VerdictInv
<1> QED
  BY <1>1, SessionInvariant, PTL

(***************************************************************************)
(* Until a run maps the file, it is as the run has found it; and a run     *)
(* that writes has passed the test for a file that was there.              *)
(***************************************************************************)
ExistedInv ==
  /\ runPc = "map" => (existed <=> file # NoFile)
  /\ runPc = "eval" /\ options.save => (existed => options.overwrite)

LEMMA ExistedStep == TypeOK /\ ExistedInv /\ [SessionNext]_sessionVars => ExistedInv'
<1> SUFFICES ASSUME TypeOK, ExistedInv, [SessionNext]_sessionVars PROVE ExistedInv'
  OBVIOUS
<1>1. CASE UNCHANGED sessionVars
  BY <1>1 DEF sessionVars, run, ExistedInv
<1>2. ASSUME NEW o \in Options, NEW p \in RunPrograms, NEW i \in Inputs, Start(o, p, i)
      PROVE  ExistedInv'
  BY <1>2 DEF Start, ExistedInv
<1>3. CASE MapToSave
  BY <1>3 DEF MapToSave, Refused, ExistedInv
<1>4. CASE MapToLoad \/ EndEval
  BY <1>4 DEF MapToLoad, EndEval, ExistedInv
<1>5. CASE Allocate
  BY <1>5 DEF Allocate, ExistedInv
<1>6. ASSUME NEW x \in RunIds, Evaluate(x) PROVE ExistedInv'
  BY <1>6 DEF Evaluate, run, ExistedInv
<1>7. CASE Refuse \/ LoadFault \/ VerifyFault \/ FailVerify \/ Finish \/ Kill
  BY <1>7 DEF Refuse, LoadFault, VerifyFault, FailVerify, Finish, Kill, Leave, ExistedInv
<1> QED
  BY <1>1, <1>2, <1>3, <1>4, <1>5, <1>6, <1>7 DEF SessionNext, Engine

(***************************************************************************)
(* Only the mapping and the stores of a run that saves change the file;    *)
(* a file that was there when the run began, finished or not, is changed   *)
(* only under -o.                                                          *)
(***************************************************************************)
THEOREM ExistingFilesAreKept == SessionSpec => OverwriteNeedsOption
<1>1. SessionInit => ExistedInv
  BY DEF SessionInit, ExistedInv
<1>2. TypeOK /\ ExistedInv /\ [SessionNext]_sessionVars =>
        [file' # file => options.save /\ (existed => options.overwrite)]_sessionVars
  <2>1. SUFFICES ASSUME ExistedInv, SessionNext, file' # file
                 PROVE  options.save /\ (existed => options.overwrite)
    OBVIOUS
  <2>2. CASE MapToSave
    BY <2>1, <2>2 DEF MapToSave, Refused, ExistedInv
  <2>3. ASSUME NEW x \in RunIds, Evaluate(x)
        PROVE  options.save /\ (existed => options.overwrite)
    BY <2>1, <2>3 DEF Evaluate, ExistedInv
  <2>4. MapToSave \/ \E x \in RunIds : Evaluate(x)
    BY <2>1 DEF SessionNext, Engine, Start, Refuse, MapToLoad, LoadFault, Allocate, EndEval,
       VerifyFault, FailVerify, Finish, Kill
  <2> QED
    BY <2>2, <2>3, <2>4
<1> QED
  BY <1>1, <1>2, ExistedStep, SessionTypeOK, PTL DEF SessionSpec, OverwriteNeedsOption
=============================================================================
