----------------------------- MODULE MCPipeline -----------------------------
(***************************************************************************)
(* Every acyclic program of Count expressions, numbered in any way: the    *)
(* aliases of a column, of this row of an expression and, to be rejected,  *)
(* of its next row; and the expressions of a column or of two expressions. *)
(***************************************************************************)
EXTENDS Pipeline

MCColumn == [c \in {0} |-> [w \in Rows |-> w % 2]]
MCScalar == <<>>

(***************************************************************************)
(* A field of three elements.  The sum of expression 0 can be zero at      *)
(* every row: of an expression and its next row.                           *)
(***************************************************************************)
MCOp(x, args) ==
  (IF Len(args) = 1 THEN 1 + args[1] ELSE args[1] + (IF x = 0 THEN 1 ELSE 2) * args[2]) % 3

Operand(t, i, nx) == [type |-> t, id |-> i, next |-> nx]
Shapes ==
  { [alias |-> TRUE, args |-> <<Operand("CM", 0, 0)>>],
    [alias |-> FALSE, args |-> <<Operand("CM", 0, 1)>>] }
  \cup { [alias |-> TRUE, args |-> <<Operand("EXP", y, nx)>>] : y \in Ids, nx \in {0, 1} }
  \cup { [alias |-> FALSE, args |-> <<Operand("EXP", y, 1), Operand("EXP", z, 0)>>] :
           y \in Ids, z \in Ids }

MCPrograms == { p \in [Ids -> Shapes] : Acyclic(p) }
MCContents == { [x \in Ids |-> [w \in Rows |-> 2]] }
MCIdentities == <<0>>
=============================================================================
