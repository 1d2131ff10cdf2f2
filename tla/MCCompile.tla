----------------------------- MODULE MCCompile -----------------------------
(***************************************************************************)
(* Every program of Count expressions whose operands are: a column, one    *)
(* expression or two expressions, or an alias of a column or of this or    *)
(* the next row of an expression.  Cyclic programs are among them.         *)
(***************************************************************************)
EXTENDS Compile

Column == [type |-> "CM", id |-> Count, next |-> 0]
Exp(y, nx) == [type |-> "EXP", id |-> y, next |-> nx]

Shapes ==
  { [alias |-> FALSE, args |-> <<Column>>] }
    \cup { [alias |-> FALSE, args |-> <<Exp(y, 0), Exp(z, 0)>>] : y, z \in Ids }
    \cup { [alias |-> TRUE, args |-> <<Exp(y, nx)>>] : y \in Ids, nx \in {0, 1} }

MCPrograms == [Ids -> Shapes]
=============================================================================
