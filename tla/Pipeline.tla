------------------------------ MODULE Pipeline ------------------------------
(***************************************************************************)
(* The engine from the parsed program to the verdict on its identities:    *)
(* Compile, Reduce, Groups and Evaluate in the order in which the          *)
(* constructor of Engine runs them, each working on what the ones before   *)
(* left in `Expressions`.  The order and the groups are computed from the  *)
(* dependencies that compile collected; the reduction changes the operands *)
(* afterwards, and the evaluation reads the changed operands.              *)
(***************************************************************************)
EXTENDS Columns, FiniteSets

CONSTANTS
  Programs,     \* the parsed pil["expressions"] considered
  Cpus,         \* number of threads
  GROUP_NONE,   \* the group of no expression
  Contents,     \* what the new evaluations array may hold
  Zero,         \* the field element 0
  Op(_, _),     \* the operations of an expression on operand values
  Identities    \* pil["polIdentities"]

ASSUME PipelineAssumption ==
  /\ \A p \in Programs : IsProgram(p) /\ Acyclic(p)
  /\ Cpus \in Nat \ {0}
  /\ GROUP_NONE \notin Nat
  /\ \A e \in Contents : e = [x \in Ids |-> [w \in Rows |-> e[x][w]]]
  /\ Identities \in Seq(Ids)

VARIABLES
  stage,        \* the component at work
  program, deps, compiled, order, compileCalls, compileIndex, compileOutcome,
  exprs, aliasId, target, pc,
  group, gid, id, groupCalls, groupPhase, bySize, it, icpu, cpuGroups,
  mode, phase, evaluations, evaluated, isZero, firstNonZero, evaluationsDone,
  pos, row, scanned, index, errorCount, outcome

C == INSTANCE Compile WITH calls <- compileCalls, index <- compileIndex, outcome <- compileOutcome
R == INSTANCE Reduce WITH Values <- {}
G == INSTANCE Groups WITH Graphs <- {}, calls <- groupCalls, phase <- groupPhase
E == INSTANCE Evaluate WITH Plans <- {}, Modes <- {"compute"}

compileVars == <<compiled, compileCalls, compileIndex, compileOutcome>>
reduceVars == <<aliasId, target, pc>>
groupVars == <<gid, id, groupCalls, groupPhase, bySize, it, icpu>>
evaluateVars == <<mode, phase, evaluations, evaluated, isZero, firstNonZero, evaluationsDone,
                  pos, row, scanned, index, errorCount, outcome>>
shared == <<program, deps, order, exprs, group, cpuGroups>>
vars == <<stage, compileVars, reduceVars, groupVars, evaluateVars, shared>>

Init ==
  /\ stage = "compile"
  /\ C!Init
  /\ R!Init
  /\ G!Start
  /\ E!Start

(***************************************************************************)
(* One step of the component at work.                                      *)
(***************************************************************************)
Compiling ==
  /\ stage = "compile" /\ ~C!Finished /\ C!Next
  /\ UNCHANGED <<stage, exprs, reduceVars, group, cpuGroups, groupVars, evaluateVars>>

Reducing ==
  /\ stage = "reduce" /\ ~R!Reduced /\ R!Next
  /\ UNCHANGED <<stage, deps, order, compileVars, group, cpuGroups, groupVars, evaluateVars>>

Grouping ==
  /\ stage = "groups" /\ ~G!Done /\ G!Next
  /\ UNCHANGED <<stage, program, order, exprs, compileVars, reduceVars, evaluateVars>>

Evaluating ==
  /\ stage = "evaluate" /\ ~E!Finished /\ E!Next
  /\ UNCHANGED <<stage, program, deps, compileVars, reduceVars, groupVars>>

(***************************************************************************)
(* loadAndCompileExpressions, calculateAllExpressions: one component after *)
(* the other.  An exception of compile leaves the constructor.             *)
(***************************************************************************)
Enter(from, done, to) ==
  /\ stage = from /\ done
  /\ stage' = to
  /\ UNCHANGED <<compileVars, reduceVars, groupVars, evaluateVars, shared>>

Finished == E!Finished \/ compileOutcome = "rejected"
Stop == Finished /\ UNCHANGED vars

Next ==
  \/ Compiling \/ Reducing \/ Grouping \/ Evaluating
  \/ Enter("compile", C!Loaded, "reduce")
  \/ Enter("reduce", R!Reduced, "groups")
  \/ Enter("groups", G!Done, "evaluate")
  \/ Stop

Spec == Init /\ [][Next]_vars
FairSpec == Spec /\ WF_vars(Next)
-----------------------------------------------------------------------------
(***************************************************************************)
(* What the first three components hand over is a plan that Evaluate can   *)
(* rely on.  The order and the groups come from the dependencies before    *)
(* the reduction: they must still be right for the operands after it.      *)
(***************************************************************************)
PlanIsSound ==
  stage = "evaluate" => E!SoundPlan(exprs, order, group, cpuGroups)

(***************************************************************************)
(* The engine computes what the PIL program means: at the end every        *)
(* expression of the program as it was parsed, the aliases included, has   *)
(* at every row the value of its operations on the values of its operands. *)
(* (For programs without an alias of the next row of a column; module      *)
(* Reduce shows what becomes of those.)                                    *)
(***************************************************************************)
Means(x, w) ==
  LET value == [k \in DOMAIN program[x].args |-> OperandValue(program[x].args[k], evaluations, w)]
  IN evaluations[x][w] = IF program[x].alias THEN value[1] ELSE Op(x, value)

ProgramEvaluated ==
  E!Finished /\ R!NoShiftedAlias(program) =>
    /\ outcome # "aborted"
    /\ \A x \in Ids : \A w \in Rows : Means(x, w)

(***************************************************************************)
(* The engine implements module Verifier: whatever the interleaving of the *)
(* threads, it comes to the one verdict that the program and its columns   *)
(* determine, once, and does come to it.  No component waits for another   *)
(* for ever, and no exit(1) of a read that came too early takes its place. *)
(***************************************************************************)
Verdict ==
  IF compileOutcome = "rejected" THEN "rejected" ELSE IF E!Finished THEN outcome ELSE "none"

Promise == INSTANCE Verifier WITH verdict <- Verdict

ImplementsVerifier == Promise!Spec
=============================================================================
