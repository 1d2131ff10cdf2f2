------------------------------ MODULE Verifier ------------------------------
(***************************************************************************)
(* What the engine promises of a PIL program: a verdict on its identities, *)
(* which is a function of the program and of the columns alone.  The value *)
(* of an expression is defined by recursion over what it reads; orders,    *)
(* groups, threads and substitutions do not appear.                        *)
(***************************************************************************)
EXTENDS Columns

CONSTANTS
  Programs,     \* the parsed programs, without cycles
  Op(_, _),     \* the operations of an expression on operand values
  Zero,
  Identities    \* the expressions that should be zero

VARIABLES program, verdict

vars == <<program, verdict>>

Value(p) ==
  LET value[x \in Ids] ==
        [w \in Rows |->
          LET v == [k \in DOMAIN p[x].args |->
                      LET o == p[x].args[k]
                      IN IF IsExp(o) THEN value[o.id][(w + o.next) % N]
                                     ELSE OperandValue(o, <<>>, w)]
          IN IF p[x].alias THEN v[1] ELSE Op(x, v)]
  IN value

(***************************************************************************)
(* The program is rejected for an alias of the next row of an expression;  *)
(* of one with an alias of the next row of a column, which the code gets   *)
(* wrong (module Reduce), either verdict is accepted.                      *)
(***************************************************************************)
ShiftedAlias(p, type) ==
  \E x \in Ids : p[x].alias /\ p[x].args[1].type = type /\ p[x].args[1].next = 1

Holds(p) == \A k \in DOMAIN Identities : \A w \in Rows : Value(p)[Identities[k]][w] = Zero

Verdicts(p) ==
  IF ShiftedAlias(p, "EXP") THEN {"rejected"}
  ELSE IF Identities = <<>> THEN {"no identities"}
  ELSE IF ShiftedAlias(p, "CM") THEN {"OK", "FAIL"}
  ELSE IF Holds(p) THEN {"OK"} ELSE {"FAIL"}

Init == program \in Programs /\ verdict = "none"

Decide ==
  /\ verdict = "none"
  /\ verdict' \in Verdicts(program)
  /\ UNCHANGED program

Spec == Init /\ [][Decide]_vars /\ WF_vars(Decide)
=============================================================================
