------------------------------ MODULE Columns ------------------------------
(***************************************************************************)
(* The values that expressions are made of: the columns mapped from the    *)
(* constant and commitment files, N rows each, and the numbers and         *)
(* publics.                                                                *)
(***************************************************************************)
EXTENDS Program

CONSTANTS
  N,          \* number of rows of every column, Expressions::n
  Column,     \* Column[c][w]: the value of column c at row w
  Scalar      \* Scalar[i]: the value of number or public i

ASSUME ColumnsAssumption == N \in Nat \ {0}

Rows == 0 .. N - 1

(***************************************************************************)
(* OperationValue::eval of operand o at row w, when the expressions have   *)
(* the values v: the row is next(w + o.next), modulo N.                    *)
(***************************************************************************)
OperandValue(o, v, w) ==
  LET r == (w + o.next) % N
  IN CASE o.type = "CM" -> Column[o.id][r]
       [] o.type = "NUMBER" -> Scalar[o.id]
       [] o.type = "EXP" -> v[o.id][r]
=============================================================================
