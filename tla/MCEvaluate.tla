----------------------------- MODULE MCEvaluate -----------------------------
(***************************************************************************)
(* Every sound plan of Count expressions over two threads: aliases of a    *)
(* column, a number or an expression, and expressions of one or two        *)
(* operands that read this row or the next; two groups on different        *)
(* threads or on the same one.                                             *)
(***************************************************************************)
EXTENDS Evaluate

MCColumn == [c \in {0} |-> [w \in Rows |-> w % 2]]
MCScalar == [i \in {0} |-> 2]

(***************************************************************************)
(* A field of three elements; the operations of x add its operands.        *)
(***************************************************************************)
MCOp(x, args) == (IF Len(args) = 1 THEN args[1] ELSE args[1] + 2 * args[2]) % 3

Operand(t, i, nx) == [type |-> t, id |-> i, next |-> nx]
Leaves == {Operand("NUMBER", 0, 0), Operand("CM", 0, 1)}
Shapes ==
  { [alias |-> TRUE, args |-> <<o>>] :
      o \in Leaves \cup { Operand("EXP", y, 0) : y \in Ids } }
    \cup { [alias |-> FALSE, args |-> <<Operand("EXP", y, ny), Operand("EXP", z, 0)>>] :
             y \in Ids, ny \in {0, 1}, z \in Ids }
    \cup { [alias |-> FALSE, args |-> <<Operand("CM", 0, 1)>>] }

MCExprs ==
  { p \in [Ids -> Shapes] :
      Acyclic(p) /\ \A x \in Ids : \A y \in Reads(p, x) : ~p[y].alias }
Deals == { <<<<0>>, <<1>>>>, <<<<1, 0>>, <<>>>> }

MCPlans ==
  { p \in [ exprs : MCExprs,
            order : { s \in [1 .. Count -> Ids] : Range(s) = Ids },
            group : { g \in [Ids -> {0, 1}] : g[0] = 0 },
            cpuGroups : { [c \in CpuIds |-> d[c + 1]] : d \in Deals } ] : SoundPlan(p.exprs, p.order, p.group, p.cpuGroups) }

(***************************************************************************)
(* The new array is not initialised, and the file that is loaded may hold  *)
(* anything: zeros, or a column that is not zero from row 1 on.            *)
(***************************************************************************)
MCContents ==
  { [x \in Ids |-> [w \in Rows |-> 0]],
    [x \in Ids |-> [w \in Rows |-> IF x = 0 THEN 0 ELSE w]] }
MCIdentities == <<2, 0>>
=============================================================================
