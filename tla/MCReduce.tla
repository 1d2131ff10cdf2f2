------------------------------ MODULE MCReduce ------------------------------
(***************************************************************************)
(* Every compiled program of Count expressions, each an alias (of a        *)
(* number, of this or the next row of a column, of an expression) or two   *)
(* operands.  The column differs between rows, so that a lost next shows.  *)
(***************************************************************************)
EXTENDS Reduce

Operand(t, i, nx) == [type |-> t, id |-> i, next |-> nx]

Aliases(cmNext) ==
  {Operand("NUMBER", 0, 0)} \cup {Operand("CM", 0, nx) : nx \in cmNext}
    \cup {Operand("EXP", y, 0) : y \in Ids}

Shapes(cmNext) ==
  {[alias |-> TRUE, args |-> <<o>>] : o \in Aliases(cmNext)}
    \cup {[alias |-> FALSE, args |-> <<Operand("EXP", y, ny), Operand("EXP", z, 0)>>] :
            y \in Ids, z \in Ids, ny \in {0, 1}}
    \cup {[alias |-> FALSE, args |-> <<Operand("CM", 0, 1), Operand("NUMBER", 0, 0)>>]}

MCPrograms == {p \in [Ids -> Shapes({0})] : Acyclic(p)}
MCShiftedPrograms == {p \in [Ids -> Shapes({0, 1})] : Acyclic(p)}

MCColumn == [c \in {0} |-> [w \in Rows |-> w % 2]]
MCScalar == [i \in {0} |-> 1]
=============================================================================
