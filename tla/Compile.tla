------------------------------ MODULE Compile ------------------------------
(***************************************************************************)
(* Expressions::loadAndCompile: compile every expression and build         *)
(* `Expressions::dependencies`, the order in which evalAll later evaluates *)
(* them.  compileExpression is recursive; its C++ call stack is the        *)
(* variable calls, the innermost call last.                                *)
(***************************************************************************)
EXTENDS Program

CONSTANT Programs   \* the parsed pil["expressions"] considered

ASSUME ProgramsAssumption == \A p \in Programs : IsProgram(p)

VARIABLES
  program,    \* the JSON program being loaded; it never changes
  deps,       \* Expression::dependencies of each expression
  compiled,   \* Expression::compiled of each expression
  order,      \* Expressions::dependencies
  calls,      \* frames of the active compileExpression calls
  index,      \* the loop variable of loadAndCompile
  outcome     \* "running" until an exception leaves loadAndCompile

vars == <<program, deps, compiled, order, calls, index, outcome>>

(***************************************************************************)
(* A call for expression id: while compile() runs, arg is the next operand *)
(* to read; afterwards idep is the loop variable over its dependencies,    *)
(* and imerge the iterator of Dependencies::merge over them.               *)
(***************************************************************************)
Frames == [id : Ids, arg : Nat \ {0}, idep : Nat \ {0}, imerge : Nat \ {0}]
Top == calls[Len(calls)]
OnStack == { calls[i].id : i \in DOMAIN calls }

\* A seeded fault of Add: what is there already is not looked for.
AddAgain(ds, d) == Append(ds, d)

(***************************************************************************)
(* Dependencies::add (globalDependencies is NULL in every use); one turn   *)
(* of the loop of Dependencies::merge is the same test and push_back.      *)
(***************************************************************************)
Add(ds, d) == IF d \in Range(ds) THEN ds ELSE Append(ds, d)

(***************************************************************************)
(* compileExpression(d) does nothing when d is already compiled.           *)
(***************************************************************************)
Call(stack, d) ==
  IF compiled[d] THEN stack
                 ELSE Append(stack, [id |-> d, arg |-> 1, idep |-> 1, imerge |-> 1])

Init ==
  /\ program \in Programs
  /\ deps = [x \in Ids |-> <<>>]
  /\ compiled = [x \in Ids |-> FALSE]
  /\ order = <<>>
  /\ calls = <<>>
  /\ index = 0
  /\ outcome = "running"

(***************************************************************************)
(* The loop of loadAndCompile.                                             *)
(***************************************************************************)
CompileNext ==
  /\ outcome = "running" /\ calls = <<>> /\ index < Count
  /\ calls' = Call(calls, index)
  /\ index' = index + 1
  /\ UNCHANGED <<program, deps, compiled, order, outcome>>

Compiling == outcome = "running" /\ calls # <<>> /\ ~compiled[Top.id]
Operand == program[Top.id].args[Top.arg]

\* A seeded fault of NotAllowed: an expression that is compiled is not looked at.
NotAllowedUncompiled(e, o) ==
  e.alias /\ o.next = 1 /\ IsExp(o) /\ ~compiled[o.id]

(***************************************************************************)
(* compile() throws on an alias of the next row of another expression;     *)
(* nothing catches the exception and the engine is not built.              *)
(***************************************************************************)
NotAllowed(e, o) == e.alias /\ o.next = 1 /\ IsExp(o)

(***************************************************************************)
(* Expression::compile and recursiveCompile: read one operand, and add the *)
(* expression it reads to the dependencies.                                *)
(***************************************************************************)
ReadOperand ==
  /\ Compiling /\ Top.arg <= Len(program[Top.id].args)
  /\ deps' = IF IsExp(Operand)
               THEN [deps EXCEPT ![Top.id] = Add(@, Operand.id)]
               ELSE deps
  /\ calls' = [calls EXCEPT ![Len(calls)] = [Top EXCEPT !.arg = @ + 1]]
  /\ outcome' = IF NotAllowed(program[Top.id], Operand) THEN "rejected" ELSE outcome
  /\ UNCHANGED <<program, compiled, order, index>>

EndCompile ==
  /\ Compiling /\ Top.arg > Len(program[Top.id].args)
  /\ compiled' = [compiled EXCEPT ![Top.id] = TRUE]
  /\ UNCHANGED <<program, deps, order, calls, index, outcome>>

Visiting == outcome = "running" /\ calls # <<>> /\ compiled[Top.id]

\* Seeded faults of VisitDependency: no recursive call, and a loop variable
\* that is not advanced.
VisitNothing ==
  /\ Visiting /\ Top.idep <= Len(deps[Top.id])
  /\ calls' = [calls EXCEPT ![Len(calls)] = [Top EXCEPT !.idep = @ + 1]]
  /\ UNCHANGED <<program, deps, compiled, order, index, outcome>>

VisitForever ==
  /\ Visiting /\ Top.idep <= Len(deps[Top.id])
  /\ calls' = Call(calls, deps[Top.id][Top.idep])
  /\ UNCHANGED <<program, deps, compiled, order, index, outcome>>

(***************************************************************************)
(* compileExpression: the recursive call for the next dependency.          *)
(***************************************************************************)
VisitDependency ==
  /\ Visiting /\ Top.idep <= Len(deps[Top.id])
  /\ calls' = Call([calls EXCEPT ![Len(calls)] = [Top EXCEPT !.idep = @ + 1]],
                   deps[Top.id][Top.idep])
  /\ UNCHANGED <<program, deps, compiled, order, index, outcome>>

(***************************************************************************)
(* compileExpression: after the loop, the dependencies and the expression  *)
(* itself go to the global order.                                          *)
(***************************************************************************)
MergeDependency ==
  /\ Visiting /\ Top.idep > Len(deps[Top.id]) /\ Top.imerge <= Len(deps[Top.id])
  /\ order' = Add(order, deps[Top.id][Top.imerge])
  /\ calls' = [calls EXCEPT ![Len(calls)] = [Top EXCEPT !.imerge = @ + 1]]
  /\ UNCHANGED <<program, deps, compiled, index, outcome>>

Return ==
  /\ Visiting /\ Top.idep > Len(deps[Top.id]) /\ Top.imerge > Len(deps[Top.id])
  /\ order' = Add(order, Top.id)
  /\ calls' = SubSeq(calls, 1, Len(calls) - 1)
  /\ UNCHANGED <<program, deps, compiled, index, outcome>>

Loaded == outcome = "running" /\ calls = <<>> /\ index = Count
Finished == Loaded \/ outcome = "rejected"

Stop == Finished /\ UNCHANGED vars

Next ==
  \/ CompileNext \/ ReadOperand \/ EndCompile \/ VisitDependency
  \/ MergeDependency \/ Return \/ Stop

Spec == Init /\ [][Next]_vars
FairSpec == Spec /\ WF_vars(Next)
-----------------------------------------------------------------------------
(***************************************************************************)
(* Types: the vectors hold expression ids, the frames lie within the       *)
(* operand and dependency lists they walk.                                 *)
(***************************************************************************)
TypeOK ==
  /\ program \in Programs
  /\ deps \in [Ids -> Seq(Ids)]
  /\ compiled \in [Ids -> BOOLEAN]
  /\ order \in Seq(Ids)
  /\ calls \in Seq(Frames)
  /\ index \in 0 .. Count
  /\ outcome \in {"running", "rejected"}

(***************************************************************************)
(* evalAll walks the order from front to back and reads other expressions  *)
(* by their stored values: every expression that an expression reads must  *)
(* come before it.  compileExpression owes this, whatever the ids are.     *)
(***************************************************************************)
Topological ==
  Acyclic(program) =>
    \A k \in DOMAIN order : \A y \in Reads(program, order[k]) :
      \E j \in 1 .. k - 1 : order[j] = y

(***************************************************************************)
(* No expression is lost and none is evaluated twice: once loaded, the     *)
(* order holds each expression exactly once (the recursion guard, merge    *)
(* and add could each drop or repeat one).  It holds of cyclic programs    *)
(* too.                                                                    *)
(***************************************************************************)
OrderComplete ==
  /\ \A i, j \in DOMAIN order : order[i] = order[j] => i = j
  /\ Loaded => Range(order) = Ids

(***************************************************************************)
(* The compile flag is set before the dependencies are visited, so no      *)
(* expression is ever on the call stack twice and the recursion is at most *)
(* Count deep, whatever cycle the program has.                             *)
(***************************************************************************)
NoReentry == \A i, j \in DOMAIN calls : calls[i].id = calls[j].id => i = j

(***************************************************************************)
(* loadAndCompile throws exactly if some alias in the program is of the    *)
(* next row of an expression, wherever it is and whatever is compiled      *)
(* before it: the expression it names, the program's cycles and the        *)
(* operands that are read first make no difference.                        *)
(***************************************************************************)
RejectionExact ==
  Finished =>
    (outcome = "rejected" <=>
       \E x \in Ids : \E k \in DOMAIN program[x].args :
         program[x].alias /\ IsExp(program[x].args[k]) /\ program[x].args[k].next = 1)

(***************************************************************************)
(* loadAndCompile ends: the recursion terminates on every program.         *)
(***************************************************************************)
Terminates == <>Finished
=============================================================================
