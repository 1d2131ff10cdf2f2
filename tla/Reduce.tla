------------------------------- MODULE Reduce -------------------------------
(***************************************************************************)
(* Expressions::reduceAliasExpressions: every operand that names an alias  *)
(* is replaced, in all expressions, by what the chain of aliases ends in.  *)
(* Afterwards evalAll gives aliases the value zero until expandAlias runs, *)
(* so no operand may name one.                                             *)
(***************************************************************************)
EXTENDS Columns

CONSTANTS
  Programs,   \* the compiled programs considered
  Values      \* field elements

(***************************************************************************)
(* What compile accepts: it throws on an alias of the next row of an       *)
(* expression.                                                             *)
(***************************************************************************)
IsCompiled(p) ==
  /\ IsProgram(p)
  /\ \A x \in Ids : p[x].alias /\ IsExp(p[x].args[1]) => p[x].args[1].next = 0

ASSUME ReduceAssumption ==
  \A p \in Programs : IsCompiled(p) /\ Acyclic(p)

VARIABLES
  program,    \* the expressions as compiled; a history variable
  exprs,      \* the expressions now: the operands of Expression::operations
  aliasId,    \* the loop variable of reduceAliasExpressions
  target,     \* finalAliasId
  pc          \* "pick" an alias, "chase" its chain

vars == <<program, exprs, aliasId, target, pc>>

\* A seeded fault of ReplaceOperand: the type of the operand is not compared.
ReplaceAnyType(o, alias, new) ==
  IF o.id = alias THEN [o EXCEPT !.type = new.type, !.id = new.id] ELSE o

(***************************************************************************)
(* replaceOperationValue(EXP, alias, new) of Expression, and of            *)
(* Expressions for all of them: the type and the value of the operand are  *)
(* replaced, its next flag stays.                                          *)
(***************************************************************************)
ReplaceOperand(o, alias, new) ==
  IF IsExp(o) /\ o.id = alias THEN [o EXCEPT !.type = new.type, !.id = new.id] ELSE o

ReplaceIn(args, alias, new) == [k \in DOMAIN args |-> ReplaceOperand(args[k], alias, new)]

\* A seeded fault of ReplaceAll: the operands of aliases are left alone.
ReplaceInOthers(p, alias, new) ==
  [x \in Ids |-> IF p[x].alias
                   THEN p[x]
                   ELSE [alias |-> FALSE, args |-> ReplaceIn(p[x].args, alias, new)]]

ReplaceAll(p, alias, new) ==
  [x \in Ids |-> [alias |-> p[x].alias, args |-> ReplaceIn(p[x].args, alias, new)]]

Init ==
  /\ program \in Programs
  /\ exprs = program
  /\ aliasId = 0
  /\ target = 0
  /\ pc = "pick"

NotAnAlias ==
  /\ pc = "pick" /\ aliasId < Count /\ ~exprs[aliasId].alias
  /\ aliasId' = aliasId + 1
  /\ UNCHANGED <<program, exprs, target, pc>>

PickAlias ==
  /\ pc = "pick" /\ aliasId < Count /\ exprs[aliasId].alias
  /\ target' = aliasId
  /\ pc' = "chase"
  /\ UNCHANGED <<program, exprs, aliasId>>

AliasOf(x) == exprs[x].args[1]
AliasOfExpression(x) == exprs[x].alias /\ IsExp(AliasOf(x))

FollowChain ==
  /\ pc = "chase" /\ AliasOfExpression(target)
  /\ target' = AliasOf(target).id
  /\ UNCHANGED <<program, exprs, aliasId, pc>>

(***************************************************************************)
(* The end of the chain: the operand of the last alias, or an expression   *)
(* with operations.                                                        *)
(***************************************************************************)
ChainEnd ==
  IF exprs[target].alias THEN AliasOf(target)
                         ELSE [type |-> "EXP", id |-> target, next |-> 0]

Replace ==
  /\ pc = "chase" /\ ~AliasOfExpression(target)
  /\ exprs' = ReplaceAll(exprs, aliasId, ChainEnd)
  /\ aliasId' = aliasId + 1
  /\ pc' = "pick"
  /\ UNCHANGED <<program, target>>

Reduced == pc = "pick" /\ aliasId = Count
Stop == Reduced /\ UNCHANGED vars

Next == NotAnAlias \/ PickAlias \/ FollowChain \/ Replace \/ Stop

Spec == Init /\ [][Next]_vars
-----------------------------------------------------------------------------
Valuations == [Ids -> [Rows -> Values]]

(***************************************************************************)
(* In valuation v every alias of program p has the value of its operand.   *)
(***************************************************************************)
Consistent(p, v) ==
  \A x \in Ids : p[x].alias => \A w \in Rows : v[x][w] = OperandValue(p[x].args[1], v, w)

(***************************************************************************)
(* No alias is the next row of a column.                                   *)
(***************************************************************************)
NoShiftedAlias(p) ==
  \A x \in Ids : p[x].alias /\ p[x].args[1].type = "CM" => p[x].args[1].next = 0
-----------------------------------------------------------------------------
(***************************************************************************)
(* Types: replacing operands leaves a program of the same shape.           *)
(***************************************************************************)
TypeOK ==
  /\ program \in Programs
  /\ IsProgram(exprs)
  /\ \A x \in Ids : /\ exprs[x].alias = program[x].alias
                    /\ DOMAIN exprs[x].args = DOMAIN program[x].args
  /\ aliasId \in 0 .. Count
  /\ target \in 0 .. Count
  /\ pc \in {"pick", "chase"}
  /\ pc = "chase" => target \in Ids /\ aliasId \in Ids /\ exprs[aliasId].alias

(***************************************************************************)
(* When the reduction is over no operand names an alias, those of aliases  *)
(* included: evalAll never reads the zero that stands for an alias, and    *)
(* the loop of expandAlias can run in parallel.                            *)
(***************************************************************************)
NoAliasOperand ==
  Reduced => \A x \in Ids : \A y \in Reads(exprs, x) : ~exprs[y].alias

(***************************************************************************)
(* Every operand keeps its value throughout, whatever the values of the    *)
(* expressions.                                                            *)
(***************************************************************************)
OperandsPreserved ==
  \A v \in Valuations : Consistent(program, v) =>
    \A x \in Ids : \A k \in DOMAIN exprs[x].args : \A w \in Rows :
      OperandValue(exprs[x].args[k], v, w) = OperandValue(program[x].args[k], v, w)

(***************************************************************************)
(* The values are preserved in programs where no alias shifts a column.    *)
(***************************************************************************)
ValuesPreserved == NoShiftedAlias(program) => OperandsPreserved
=============================================================================
