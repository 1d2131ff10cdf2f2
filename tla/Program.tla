------------------------------ MODULE Program ------------------------------
(***************************************************************************)
(* The polynomial expressions of a PIL program as piltools keeps them in   *)
(* memory: `Expressions::expressions`, an array of `Expression` indexed by *)
(* expression id.  The tree of operations of an expression is abstracted   *)
(* to the sequence of its leaf operands, in the order in which             *)
(* recursiveCompile meets them; the tree itself is module Operations.      *)
(***************************************************************************)
EXTENDS Naturals, Sequences, Functions

CONSTANT Count      \* number of expressions, Expressions::count

ASSUME CountAssumption == Count \in Nat

Ids == 0 .. Count - 1

(***************************************************************************)
(* OperationValue.  "CM" stands for CM and CONST, the columns of the input *)
(* files, which are read at a row; "NUMBER" stands for NUMBER and PUBLIC,  *)
(* whose value does not depend on the row; "EXP" is another expression.    *)
(* next = 1 reads the following row.                                       *)
(***************************************************************************)
OperandTypes == {"CM", "NUMBER", "EXP"}
Operands == [type : OperandTypes, id : Nat, next : {0, 1}]

(***************************************************************************)
(* An alias is an expression that is one operand and no operation.         *)
(***************************************************************************)
Expressions ==
  { e \in [alias : BOOLEAN, args : Seq(Operands)] : e.alias => Len(e.args) = 1 }

IsExp(o) == o.type = "EXP"

(***************************************************************************)
(* Well-formed: an EXP operand names an expression of the program.         *)
(***************************************************************************)
IsProgram(p) ==
  /\ p \in [Ids -> Expressions]
  /\ \A x \in Ids : \A k \in DOMAIN p[x].args :
       IsExp(p[x].args[k]) => p[x].args[k].id \in Ids

(***************************************************************************)
(* The expressions read by the first k operands of expression x.           *)
(***************************************************************************)
ReadsUpTo(p, x, k) ==
  { p[x].args[j].id : j \in { i \in DOMAIN p[x].args : i <= k /\ IsExp(p[x].args[i]) } }

Reads(p, x) == ReadsUpTo(p, x, Len(p[x].args))

(***************************************************************************)
(* rank decreases along every read: its existence says that no expression  *)
(* reads itself, directly or through others.                               *)
(***************************************************************************)
Ranks(p, rank) == \A x \in Ids : \A y \in Reads(p, x) : rank[y] < rank[x]

Acyclic(p) == \E rank \in [Ids -> Ids] : Ranks(p, rank)
=============================================================================
