--------------------------- MODULE Reduce_proofs ---------------------------
(***************************************************************************)
(* Proofs about module Reduce: for every number of expressions, of rows    *)
(* and every field, the reduction leaves no operand that names an alias    *)
(* and, when no alias shifts a column, changes no operand's value.         *)
(***************************************************************************)
EXTENDS Reduce, SequenceTheorems, TLAPS

(***************************************************************************)
(* Operands of a program.                                                  *)
(***************************************************************************)
LEMMA OperandFacts ==
  ASSUME NEW p, IsProgram(p), NEW x \in Ids
  PROVE  /\ p[x] \in [alias : BOOLEAN, args : Seq(Operands)]
         /\ Len(p[x].args) \in Nat
         /\ DOMAIN p[x].args = 1 .. Len(p[x].args)
         /\ p[x].alias => DOMAIN p[x].args = {1}
         /\ \A k \in DOMAIN p[x].args :
              /\ p[x].args[k] \in Operands
              /\ IsExp(p[x].args[k]) => p[x].args[k].id \in Ids
         /\ \A y : y \in Reads(p, x) <=>
              \E k \in DOMAIN p[x].args : IsExp(p[x].args[k]) /\ p[x].args[k].id = y
<1> DEFINE a == p[x].args
<1>1. /\ p[x] \in [alias : BOOLEAN, args : Seq(Operands)]
      /\ p[x].alias => Len(a) = 1
      /\ \A k \in DOMAIN a : IsExp(a[k]) => a[k].id \in Ids
  BY DEF IsProgram, Expressions
<1>2. a \in Seq(Operands)
  BY <1>1
<1>3. Reads(p, x) = { a[j].id : j \in { i \in DOMAIN a : i <= Len(a) /\ IsExp(a[i]) } }
  BY DEF Reads, ReadsUpTo
<1> HIDE DEF a
<1>4. Len(a) \in Nat /\ DOMAIN a = 1 .. Len(a) /\ \A k \in DOMAIN a : a[k] \in Operands
  BY <1>2, LenProperties, ElementOfSeq
<1>5. p[x].alias => DOMAIN a = {1}
  BY <1>1, <1>4
<1>6. \A y : y \in Reads(p, x) <=> \E k \in DOMAIN a : IsExp(a[k]) /\ a[k].id = y
  BY <1>3, <1>4
<1> QED
  BY <1>1, <1>4, <1>5, <1>6 DEF a

(***************************************************************************)
(* Rows are counted modulo N.                                              *)
(***************************************************************************)
LEMMA RowFacts ==
  /\ \A a \in Nat : a % N \in Rows
  /\ \A r \in Rows : r % N = r /\ r + 0 = r /\ r \in Nat
  BY ColumnsAssumption DEF Rows

(***************************************************************************)
(* The aliases already treated are named by nobody.                        *)
(***************************************************************************)
TreatedUnread ==
  \A a \in Ids : a < aliasId /\ exprs[a].alias => \A x \in Ids : a \notin Reads(exprs, x)

(***************************************************************************)
(* An alias reads the row it is asked for.                                 *)
(***************************************************************************)
Unshifted(p) ==
  \A x \in Ids : p[x].alias /\ p[x].args[1].type # "NUMBER" => p[x].args[1].next = 0

(***************************************************************************)
(* While a chain is followed, its first alias and the expression reached   *)
(* have the same values.                                                   *)
(***************************************************************************)
ChainPreserved ==
  pc = "chase" =>
    \A v \in Valuations : Consistent(program, v) =>
      \A w \in Rows : v[aliasId][w] = v[target][w]

ValueInv ==
  NoShiftedAlias(program) => Unshifted(exprs) /\ OperandsPreserved /\ ChainPreserved

(***************************************************************************)
(* What an expression reads now it has read through aliases: every         *)
(* transitive relation that the reads of the program are in has them too.  *)
(* (The order of the evaluation, the groups and the ranks are such.)       *)
(***************************************************************************)
Within(T) ==
  /\ \A x, y, z \in Ids : <<x, y>> \in T /\ <<y, z>> \in T => <<x, z>> \in T
  /\ \A x \in Ids : \A y \in Reads(program, x) : <<x, y>> \in T

ReachInv ==
  \A T \in SUBSET (Ids \X Ids) : Within(T) =>
    /\ \A x \in Ids : \A y \in Reads(exprs, x) : <<x, y>> \in T
    /\ pc = "chase" => target = aliasId \/ <<aliasId, target>> \in T

(***************************************************************************)
(* The other way round: where every alias has the value of its operand as  *)
(* it is now, whatever the values are, an operand of the program has the   *)
(* value that it has now.  While a chain is followed this must not rest on *)
(* the aliases that name its first one, whose operands are about to be     *)
(* replaced.                                                               *)
(***************************************************************************)
AliasHolds(x, v) == \A w \in Rows : v[x][w] = OperandValue(AliasOf(x), v, w)

BackInv ==
  NoShiftedAlias(program) =>
    /\ \A v : (\A x \in Ids : exprs[x].alias => AliasHolds(x, v)) =>
         \A x \in Ids : \A k \in DOMAIN exprs[x].args : \A w \in Rows :
           OperandValue(exprs[x].args[k], v, w) = OperandValue(program[x].args[k], v, w)
    /\ pc = "chase" =>
         \A v : (\A x \in Ids : exprs[x].alias /\ aliasId \notin Reads(exprs, x) => AliasHolds(x, v)) =>
           \A w \in Rows : v[aliasId][w] = v[target][w]
-----------------------------------------------------------------------------
(***************************************************************************)
(* Replacing one operand.                                                  *)
(***************************************************************************)
LEMMA ReplaceOperandFacts ==
  ASSUME NEW o \in Operands, NEW a, NEW new \in Operands
  PROVE  /\ ReplaceOperand(o, a, new) \in Operands
         /\ ReplaceOperand(o, a, new).next = o.next
         /\ IsExp(o) /\ o.id = a =>
              ReplaceOperand(o, a, new).type = new.type /\ ReplaceOperand(o, a, new).id = new.id
         /\ ~(IsExp(o) /\ o.id = a) => ReplaceOperand(o, a, new) = o
  BY DEF ReplaceOperand, Operands

(***************************************************************************)
(* Replacing it in one expression and in all of them.                      *)
(***************************************************************************)
LEMMA ReplaceInFacts ==
  ASSUME NEW s \in Seq(Operands), NEW a, NEW new \in Operands
  PROVE  /\ ReplaceIn(s, a, new) \in Seq(Operands)
         /\ Len(ReplaceIn(s, a, new)) = Len(s)
         /\ DOMAIN ReplaceIn(s, a, new) = DOMAIN s
         /\ \A k \in DOMAIN s : ReplaceIn(s, a, new)[k] = ReplaceOperand(s[k], a, new)
<1> DEFINE t == ReplaceIn(s, a, new)
<1>1. Len(s) \in Nat /\ DOMAIN s = 1 .. Len(s)
  BY LenProperties
<1>2. \A k \in DOMAIN s : ReplaceOperand(s[k], a, new) \in Operands
  BY <1>1, ElementOfSeq, ReplaceOperandFacts
<1>3. /\ t \in [1 .. Len(s) -> Operands]
      /\ \A k \in DOMAIN s : t[k] = ReplaceOperand(s[k], a, new)
  BY <1>1, <1>2 DEF ReplaceIn
<1> HIDE DEF t
<1>4. t \in Seq(Operands)
  BY <1>1, <1>3, SeqDef
<1>5. DOMAIN t = 1 .. Len(t) /\ Len(t) \in Nat
  BY <1>4, LenProperties
<1>6. Len(t) = Len(s) /\ DOMAIN t = DOMAIN s
  BY <1>1, <1>3, <1>5
<1> QED
  BY <1>3, <1>4, <1>6 DEF t

LEMMA ReplaceAllFacts ==
  ASSUME NEW p, IsProgram(p), NEW a \in Ids, NEW new \in Operands, IsExp(new) => new.id \in Ids
  PROVE  /\ IsProgram(ReplaceAll(p, a, new))
         /\ \A x \in Ids :
              /\ ReplaceAll(p, a, new)[x].alias = p[x].alias
              /\ DOMAIN ReplaceAll(p, a, new)[x].args = DOMAIN p[x].args
              /\ \A k \in DOMAIN p[x].args :
                   ReplaceAll(p, a, new)[x].args[k] = ReplaceOperand(p[x].args[k], a, new)
<1> DEFINE q == ReplaceAll(p, a, new)
<1>1. ASSUME NEW x \in Ids
      PROVE  /\ q[x] \in Expressions
             /\ q[x].alias = p[x].alias
             /\ q[x].args = ReplaceIn(p[x].args, a, new)
             /\ DOMAIN q[x].args = DOMAIN p[x].args
             /\ \A k \in DOMAIN p[x].args :
                  /\ q[x].args[k] = ReplaceOperand(p[x].args[k], a, new)
                  /\ IsExp(q[x].args[k]) => q[x].args[k].id \in Ids
  <2> DEFINE t == ReplaceIn(p[x].args, a, new)
  <2>1. p[x].alias \in BOOLEAN /\ p[x].args \in Seq(Operands) /\ (p[x].alias => Len(p[x].args) = 1)
    BY DEF IsProgram, Expressions
  <2>2. /\ t \in Seq(Operands) /\ Len(t) = Len(p[x].args) /\ DOMAIN t = DOMAIN p[x].args
        /\ \A k \in DOMAIN p[x].args : t[k] = ReplaceOperand(p[x].args[k], a, new)
    BY <2>1, ReplaceInFacts
  <2>3. q[x] = [alias |-> p[x].alias, args |-> t]
    BY DEF ReplaceAll
  <2> HIDE DEF q, t
  <2>4. q[x] \in Expressions
    BY <2>1, <2>2, <2>3 DEF Expressions
  <2>5. ASSUME NEW k \in DOMAIN p[x].args, IsExp(t[k]) PROVE t[k].id \in Ids
    <3>1. p[x].args[k] \in Operands /\ (IsExp(p[x].args[k]) => p[x].args[k].id \in Ids)
      BY OperandFacts
    <3> QED
      BY <2>2, <2>5, <3>1, ReplaceOperandFacts DEF IsExp
  <2> QED
    BY <2>2, <2>3, <2>4, <2>5 DEF t
<1>2. q = [x \in Ids |-> q[x]]
  BY DEF ReplaceAll
<1> HIDE DEF q
<1>3. IsProgram(q)
  BY <1>1, <1>2 DEF IsProgram
<1> QED
  BY <1>1, <1>3 DEF q
-----------------------------------------------------------------------------
LEMMA InitInv == Init => TypeOK /\ TreatedUnread /\ ValueInv
<1> SUFFICES ASSUME Init PROVE TypeOK /\ TreatedUnread /\ ValueInv
  OBVIOUS
<1>1. IsCompiled(program) /\ IsProgram(exprs) /\ exprs = program /\ aliasId = 0 /\ pc = "pick"
  BY ReduceAssumption DEF Init, IsCompiled
<1>2. TypeOK
  BY <1>1, CountAssumption DEF Init, TypeOK
<1>3. TreatedUnread
  BY <1>1 DEF TreatedUnread, Ids
<1>4. ASSUME NoShiftedAlias(program) PROVE Unshifted(exprs)
  <2> SUFFICES ASSUME NEW x \in Ids, exprs[x].alias, exprs[x].args[1].type # "NUMBER"
               PROVE  exprs[x].args[1].next = 0
    BY DEF Unshifted
  <2>1. exprs[x].args[1] \in Operands
    BY <1>1, OperandFacts
  <2> QED
    BY <1>1, <1>4, <2>1 DEF IsCompiled, NoShiftedAlias, IsExp, Operands, OperandTypes
<1>5. ValueInv
  BY <1>1, <1>4 DEF ValueInv, OperandsPreserved, ChainPreserved
<1> QED
  BY <1>2, <1>3, <1>5

LEMMA NotAnAliasInv ==
  ASSUME TypeOK, TreatedUnread, ValueInv, NotAnAlias
  PROVE  TypeOK' /\ TreatedUnread' /\ ValueInv'
<1>0. /\ aliasId < Count /\ ~exprs[aliasId].alias /\ aliasId' = aliasId + 1 /\ pc = "pick"
      /\ UNCHANGED <<program, exprs, target, pc>>
  BY DEF NotAnAlias
<1>1. TypeOK'
  BY <1>0, CountAssumption DEF TypeOK
<1>2. TreatedUnread'
  <2>1. \A a \in Ids : a < aliasId + 1 => a < aliasId \/ a = aliasId
    BY CountAssumption DEF TypeOK, Ids
  <2> QED
    BY <1>0, <2>1 DEF TreatedUnread
<1>3. ValueInv'
  BY <1>0 DEF ValueInv, OperandsPreserved, ChainPreserved
<1> QED
  BY <1>1, <1>2, <1>3

LEMMA PickAliasInv ==
  ASSUME TypeOK, TreatedUnread, ValueInv, PickAlias
  PROVE  TypeOK' /\ TreatedUnread' /\ ValueInv'
<1>0. /\ aliasId < Count /\ exprs[aliasId].alias /\ target' = aliasId /\ pc' = "chase"
      /\ UNCHANGED <<program, exprs, aliasId>>
  BY DEF PickAlias
<1>1. aliasId \in Ids
  BY <1>0, CountAssumption DEF TypeOK, Ids
<1>2. TypeOK'
  BY <1>0, <1>1, CountAssumption DEF TypeOK
<1>3. TreatedUnread'
  BY <1>0 DEF TreatedUnread
<1>4. ValueInv'
  BY <1>0 DEF ValueInv, OperandsPreserved, ChainPreserved
<1> QED
  BY <1>2, <1>3, <1>4

(***************************************************************************)
(* In a consistent valuation an alias has the value of its operand as it   *)
(* is now.                                                                 *)
(***************************************************************************)
LEMMA ConsistentNow ==
  ASSUME TypeOK, OperandsPreserved, NEW v \in Valuations, Consistent(program, v),
         NEW x \in Ids, exprs[x].alias, NEW w \in Rows
  PROVE  v[x][w] = OperandValue(AliasOf(x), v, w)
<1>1. 1 \in DOMAIN exprs[x].args
  BY OperandFacts DEF TypeOK
<1>2. v[x][w] = OperandValue(program[x].args[1], v, w)
  BY DEF Consistent, TypeOK
<1> QED
  BY <1>1, <1>2 DEF OperandsPreserved, AliasOf

(***************************************************************************)
(* If it shifts no row, it is the operand's value at that row.             *)
(***************************************************************************)
LEMMA AliasValue ==
  ASSUME TypeOK, Unshifted(exprs), NEW x \in Ids, exprs[x].alias, NEW v, NEW w \in Rows,
         v[x][w] = OperandValue(AliasOf(x), v, w)
  PROVE  v[x][w] = OperandValue([AliasOf(x) EXCEPT !.next = 0], v, w)
<1> DEFINE o == AliasOf(x)
<1>1. o \in Operands
  BY OperandFacts DEF TypeOK, AliasOf
<1>2. v[x][w] = OperandValue(o, v, w)
  OBVIOUS
<1>3. o.type # "NUMBER" => o.next = 0
  BY DEF Unshifted, AliasOf
<1>4. CASE o.type = "NUMBER"
  <2>1. OperandValue(o, v, w) = Scalar[o.id]
    BY <1>4 DEF OperandValue
  <2>2. OperandValue([o EXCEPT !.next = 0], v, w) = Scalar[o.id]
    BY <1>1, <1>4 DEF OperandValue, Operands
  <2> QED
    BY <1>2, <2>1, <2>2
<1>5. CASE o.type # "NUMBER"
  <2>1. [o EXCEPT !.next = 0] = o
    BY <1>1, <1>3, <1>5 DEF Operands
  <2> QED
    BY <1>2, <2>1
<1> QED
  BY <1>4, <1>5

LEMMA FollowChainInv ==
  ASSUME TypeOK, TreatedUnread, ValueInv, FollowChain
  PROVE  TypeOK' /\ TreatedUnread' /\ ValueInv'
<1> DEFINE o == AliasOf(target)
<1>0. /\ pc = "chase" /\ exprs[target].alias /\ IsExp(o) /\ target' = o.id /\ target \in Ids
      /\ UNCHANGED <<program, exprs, aliasId, pc>>
  BY DEF FollowChain, AliasOfExpression, TypeOK
<1>1. o.id \in Ids /\ o \in Operands
  BY <1>0, OperandFacts DEF TypeOK, AliasOf
<1>2. TypeOK'
  BY <1>0, <1>1, CountAssumption DEF TypeOK, Ids
<1>3. TreatedUnread'
  BY <1>0 DEF TreatedUnread
<1>4. ValueInv'
  <2> SUFFICES ASSUME NoShiftedAlias(program)
               PROVE  Unshifted(exprs) /\ OperandsPreserved /\ ChainPreserved'
    BY <1>0 DEF ValueInv, OperandsPreserved
  <2>1. Unshifted(exprs) /\ OperandsPreserved /\ ChainPreserved
    BY DEF ValueInv
  <2> SUFFICES ASSUME NEW v \in Valuations, Consistent(program, v), NEW w \in Rows
               PROVE  v[aliasId][w] = v[o.id][w]
    BY <1>0, <2>1 DEF ChainPreserved
  <2>2. v[aliasId][w] = v[target][w]
    BY <1>0, <2>1 DEF ChainPreserved
  <2>3. v[target][w] = OperandValue([o EXCEPT !.next = 0], v, w)
    BY <1>0, <2>1, ConsistentNow, AliasValue
  <2>4. OperandValue([o EXCEPT !.next = 0], v, w) = v[o.id][(w + 0) % N]
    BY <1>0, <1>1 DEF OperandValue, IsExp, Operands
  <2> QED
    BY <2>2, <2>3, <2>4, RowFacts
<1> QED
  BY <1>2, <1>3, <1>4

(***************************************************************************)
(* What ends a chain is a leaf or an expression with operations.           *)
(***************************************************************************)
LEMMA ChainEndFacts ==
  ASSUME TypeOK, Replace
  PROVE  /\ ChainEnd \in Operands
         /\ IsExp(ChainEnd) => ChainEnd.id \in Ids /\ ~exprs[ChainEnd.id].alias
<1>0. target \in Ids /\ ~AliasOfExpression(target)
  BY DEF Replace, TypeOK
<1>1. CASE exprs[target].alias
  <2>1. ChainEnd = AliasOf(target) /\ AliasOf(target) \in Operands
    BY <1>0, <1>1, OperandFacts DEF TypeOK, AliasOf, ChainEnd
  <2> QED
    BY <1>0, <1>1, <2>1 DEF AliasOfExpression
<1>2. CASE ~exprs[target].alias
  BY <1>0, <1>2 DEF ChainEnd, Operands, OperandTypes, IsExp, Ids
<1> QED
  BY <1>1, <1>2

(***************************************************************************)
(* It has the value of the alias that started the chain.                   *)
(***************************************************************************)
LEMMA ChainEndValue ==
  ASSUME TypeOK, Unshifted(exprs), Replace,
         NEW v,
         \A r \in Rows : v[aliasId][r] = v[target][r],
         exprs[target].alias => \A r \in Rows : v[target][r] = OperandValue(AliasOf(target), v, r),
         NEW o \in Operands, IsExp(o), o.id = aliasId, NEW w \in Rows
  PROVE  OperandValue(ReplaceOperand(o, aliasId, ChainEnd), v, w) = OperandValue(o, v, w)
<1> DEFINE r == (w + o.next) % N
           new == ReplaceOperand(o, aliasId, ChainEnd)
<1>0. ~AliasOfExpression(target) /\ target \in Ids
  BY DEF Replace, TypeOK
<1>1. r \in Rows
  <2>1. w + o.next \in Nat
    BY RowFacts DEF Operands
  <2> QED
    BY <2>1, RowFacts
<1>2. new.type = ChainEnd.type /\ new.id = ChainEnd.id /\ new.next = o.next
  BY ChainEndFacts, ReplaceOperandFacts
<1>3. OperandValue(o, v, w) = v[target][r]
  <2>1. OperandValue(o, v, w) = v[aliasId][r]
    BY DEF OperandValue, IsExp
  <2> QED
    BY <1>1, <2>1
<1> HIDE DEF new
<1>4. CASE exprs[target].alias
  <2> DEFINE a == AliasOf(target)
             b == [a EXCEPT !.next = 0]
  <2>1. ChainEnd = a /\ a \in Operands /\ a.type # "EXP"
    BY <1>0, <1>4, ChainEndFacts DEF ChainEnd, AliasOfExpression, IsExp
  <2>2. v[target][r] = OperandValue(b, v, r)
    BY <1>0, <1>1, <1>4, AliasValue
  <2>3. b.type = a.type /\ b.id = a.id /\ b.next = 0
    BY <2>1 DEF Operands
  <2>4. (r + 0) % N = r
    BY <1>1, RowFacts
  <2> HIDE DEF a, b
  <2>5. CASE a.type = "CM"
    <3>1. OperandValue(b, v, r) = Column[a.id][r]
      BY <2>3, <2>4, <2>5 DEF OperandValue
    <3>2. OperandValue(new, v, w) = Column[a.id][r]
      BY <1>2, <2>1, <2>5 DEF OperandValue
    <3> QED
      BY <1>3, <2>2, <3>1, <3>2 DEF new
  <2>6. CASE a.type = "NUMBER"
    <3>1. OperandValue(b, v, r) = Scalar[a.id]
      BY <2>3, <2>6 DEF OperandValue
    <3>2. OperandValue(new, v, w) = Scalar[a.id]
      BY <1>2, <2>1, <2>6 DEF OperandValue
    <3> QED
      BY <1>3, <2>2, <3>1, <3>2 DEF new
  <2> QED
    BY <2>1, <2>5, <2>6 DEF Operands, OperandTypes
<1>5. CASE ~exprs[target].alias
  <2>1. new.type = "EXP" /\ new.id = target
    BY <1>2, <1>5 DEF ChainEnd
  <2>2. OperandValue(new, v, w) = v[target][r]
    BY <1>2, <2>1 DEF OperandValue
  <2> QED
    BY <1>3, <2>2 DEF new
<1> QED
  BY <1>4, <1>5

LEMMA ReplaceInv ==
  ASSUME TypeOK, TreatedUnread, ValueInv, Replace
  PROVE  TypeOK' /\ TreatedUnread' /\ ValueInv'
<1> DEFINE new == ChainEnd
<1>0. /\ pc = "chase" /\ aliasId \in Ids /\ exprs[aliasId].alias
      /\ exprs' = ReplaceAll(exprs, aliasId, new) /\ aliasId' = aliasId + 1 /\ pc' = "pick"
      /\ UNCHANGED <<program, target>>
      /\ IsProgram(exprs)
  BY DEF Replace, TypeOK
<1>1. new \in Operands /\ (IsExp(new) => new.id \in Ids /\ ~exprs[new.id].alias)
  BY ChainEndFacts
<1> HIDE DEF new
<1>2. /\ IsProgram(exprs')
      /\ \A x \in Ids :
           /\ exprs'[x].alias = exprs[x].alias
           /\ DOMAIN exprs'[x].args = DOMAIN exprs[x].args
           /\ \A k \in DOMAIN exprs[x].args :
                exprs'[x].args[k] = ReplaceOperand(exprs[x].args[k], aliasId, new)
  BY <1>0, <1>1, ReplaceAllFacts
<1>3. \A x \in Ids : \A k \in DOMAIN exprs[x].args : exprs[x].args[k] \in Operands
  BY <1>0, OperandFacts
<1>4. TypeOK'
  BY <1>0, <1>2, CountAssumption DEF TypeOK, Ids
<1>5. TreatedUnread'
  <2> SUFFICES ASSUME NEW a \in Ids, a < aliasId + 1, exprs[a].alias, NEW x \in Ids,
                      NEW k \in DOMAIN exprs[x].args,
                      IsExp(exprs'[x].args[k]), exprs'[x].args[k].id = a
               PROVE  FALSE
    BY <1>0, <1>2, OperandFacts DEF TreatedUnread
  <2> DEFINE o == exprs[x].args[k]
  <2>1. o \in Operands /\ exprs'[x].args[k] = ReplaceOperand(o, aliasId, new)
    BY <1>2, <1>3
  <2> HIDE DEF o
  <2>2. CASE IsExp(o) /\ o.id = aliasId
    BY <1>1, <2>1, <2>2, ReplaceOperandFacts DEF IsExp
  <2>3. CASE ~(IsExp(o) /\ o.id = aliasId)
    <3>1. ReplaceOperand(o, aliasId, new) = o
      BY <1>1, <2>1, <2>3, ReplaceOperandFacts
    <3>2. IsExp(o) /\ o.id = a /\ a # aliasId
      BY <2>1, <2>3, <3>1
    <3>3. a < aliasId
      BY <1>0, <3>2, CountAssumption DEF Ids
    <3>4. a \in Reads(exprs, x)
      BY <1>0, <3>2, OperandFacts DEF o
    <3> QED
      BY <3>3, <3>4 DEF TreatedUnread
  <2> QED
    BY <2>2, <2>3
<1>6. ValueInv'
  <2> SUFFICES ASSUME NoShiftedAlias(program)
               PROVE  Unshifted(exprs') /\ OperandsPreserved'
    BY <1>0 DEF ValueInv, ChainPreserved
  <2>1. Unshifted(exprs) /\ OperandsPreserved
    BY DEF ValueInv
  <2>2. Unshifted(exprs')
    <3> SUFFICES ASSUME NEW x \in Ids, exprs[x].alias, exprs'[x].args[1].type # "NUMBER"
                 PROVE  exprs'[x].args[1].next = 0
      BY <1>2 DEF Unshifted
    <3>1. /\ exprs[x].args[1] \in Operands
          /\ exprs'[x].args[1] = ReplaceOperand(exprs[x].args[1], aliasId, new)
      BY <1>0, <1>2, <1>3, OperandFacts
    <3>2. exprs[x].args[1].type # "NUMBER"
      BY <1>1, <3>1, ReplaceOperandFacts DEF IsExp
    <3>3. exprs[x].args[1].next = 0
      BY <2>1, <3>2 DEF Unshifted
    <3> QED
      BY <1>1, <3>1, <3>3, ReplaceOperandFacts
  <2>3. OperandsPreserved'
    <3> SUFFICES ASSUME NEW v \in Valuations, Consistent(program, v),
                        NEW x \in Ids, NEW k \in DOMAIN exprs[x].args, NEW w \in Rows
                 PROVE  OperandValue(exprs'[x].args[k], v, w) =
                          OperandValue(program[x].args[k], v, w)
      BY <1>0, <1>2 DEF OperandsPreserved
    <3> DEFINE o == exprs[x].args[k]
    <3>1. o \in Operands /\ exprs'[x].args[k] = ReplaceOperand(o, aliasId, new)
      BY <1>2, <1>3
    <3>2. OperandValue(o, v, w) = OperandValue(program[x].args[k], v, w)
      BY <2>1 DEF OperandsPreserved
    <3> HIDE DEF o
    <3>3. CASE IsExp(o) /\ o.id = aliasId
      <4>1. /\ \A r \in Rows : v[aliasId][r] = v[target][r]
            /\ exprs[target].alias => \A r \in Rows : v[target][r] = OperandValue(AliasOf(target), v, r)
        <5>1. target \in Ids
          BY <1>0 DEF TypeOK
        <5> QED
          BY <1>0, <2>1, <5>1, ConsistentNow DEF ValueInv, ChainPreserved
      <4>2. OperandValue(ReplaceOperand(o, aliasId, ChainEnd), v, w) = OperandValue(o, v, w)
        BY <2>1, <3>1, <3>3, <4>1, ChainEndValue
      <4> QED
        BY <3>1, <3>2, <4>2 DEF new
    <3>4. CASE ~(IsExp(o) /\ o.id = aliasId)
      <4>1. ReplaceOperand(o, aliasId, new) = o
        BY <1>1, <3>1, <3>4, ReplaceOperandFacts
      <4> QED
        BY <3>1, <3>2, <4>1
    <3> QED
      BY <3>3, <3>4
  <2> QED
    BY <2>2, <2>3
<1> QED
  BY <1>4, <1>5, <1>6

-----------------------------------------------------------------------------
(***************************************************************************)
(* Reads only grow shorter.                                                *)
(***************************************************************************)
LEMMA ReplaceReads ==
  ASSUME TypeOK, Replace, NEW x \in Ids, NEW y \in Reads(exprs', x)
  PROVE  y \in Reads(exprs, x) \/ (aliasId \in Reads(exprs, x) /\ y = target)
<1>1. /\ exprs' = ReplaceAll(exprs, aliasId, ChainEnd) /\ aliasId \in Ids /\ IsProgram(exprs)
      /\ ChainEnd \in Operands /\ (IsExp(ChainEnd) => ChainEnd.id \in Ids)
  BY ChainEndFacts DEF Replace, TypeOK
<1>2. /\ IsProgram(exprs') /\ DOMAIN exprs'[x].args = DOMAIN exprs[x].args
      /\ \A k \in DOMAIN exprs[x].args :
           exprs'[x].args[k] = ReplaceOperand(exprs[x].args[k], aliasId, ChainEnd)
  BY <1>1, ReplaceAllFacts
<1>3. PICK k \in DOMAIN exprs[x].args : IsExp(exprs'[x].args[k]) /\ exprs'[x].args[k].id = y
  BY <1>2, OperandFacts
<1> DEFINE o == exprs[x].args[k]
<1>4. o \in Operands /\ exprs'[x].args[k] = ReplaceOperand(o, aliasId, ChainEnd)
  BY <1>1, <1>2, OperandFacts
<1>5. IsExp(o) => o.id \in Reads(exprs, x)
  BY <1>1, OperandFacts
<1> HIDE DEF o
<1>6. CASE IsExp(o) /\ o.id = aliasId
  <2>1. IsExp(ChainEnd) /\ y = ChainEnd.id
    BY <1>1, <1>3, <1>4, <1>6, ReplaceOperandFacts DEF IsExp
  <2>2. ChainEnd.id = target
    BY <2>1 DEF ChainEnd, Replace, AliasOfExpression
  <2> QED
    BY <1>5, <1>6, <2>1, <2>2
<1>7. CASE ~(IsExp(o) /\ o.id = aliasId)
  <2>1. exprs'[x].args[k] = o
    BY <1>1, <1>4, <1>7, ReplaceOperandFacts
  <2> QED
    BY <1>3, <1>5, <2>1
<1> QED
  BY <1>6, <1>7

LEMMA ReachStep == TypeOK /\ ReachInv /\ [Next]_vars => ReachInv'
<1> SUFFICES ASSUME TypeOK, ReachInv, [Next]_vars,
                    NEW T \in SUBSET (Ids \X Ids), Within(T)'
             PROVE  /\ \A x \in Ids : \A y \in Reads(exprs', x) : <<x, y>> \in T
                    /\ pc' = "chase" => target' = aliasId' \/ <<aliasId', target'>> \in T
  BY DEF ReachInv
<1>1. program' = program
  BY DEF Next, vars, NotAnAlias, PickAlias, FollowChain, Replace, Stop
<1>2. Within(T)
  BY <1>1 DEF Within
<1>3. /\ \A x \in Ids : \A y \in Reads(exprs, x) : <<x, y>> \in T
      /\ pc = "chase" => target = aliasId \/ <<aliasId, target>> \in T
  BY <1>2 DEF ReachInv
<1>4. CASE UNCHANGED vars \/ Stop \/ NotAnAlias \/ PickAlias
  BY <1>3, <1>4 DEF Stop, vars, NotAnAlias, PickAlias
<1>5. CASE FollowChain
  <2>1. /\ pc = "chase" /\ AliasOfExpression(target) /\ target' = AliasOf(target).id
        /\ aliasId \in Ids /\ target \in Ids /\ IsProgram(exprs) /\ UNCHANGED <<exprs, aliasId>>
    BY <1>5 DEF FollowChain, TypeOK
  <2>2. target' \in Ids /\ target' \in Reads(exprs, target)
    BY <2>1, OperandFacts DEF AliasOf, AliasOfExpression
  <2>3. <<target, target'>> \in T
    BY <1>3, <2>1, <2>2
  <2> QED
    BY <1>2, <1>3, <2>1, <2>2, <2>3 DEF Within
<1>6. CASE Replace
  <2>1. pc = "chase" /\ pc' = "pick" /\ aliasId \in Ids /\ target \in Ids
    BY <1>6 DEF Replace, TypeOK
  <2>2. ASSUME NEW x \in Ids, NEW y \in Reads(exprs', x) PROVE <<x, y>> \in T
    BY <1>2, <1>3, <1>6, <2>1, <2>2, ReplaceReads DEF Within
  <2> QED
    BY <2>1, <2>2
<1> QED
  BY <1>4, <1>5, <1>6 DEF Next

(***************************************************************************)
(* The end of the chain does not name its first alias: ranks decrease.     *)
(***************************************************************************)
LEMMA ChainUnread ==
  ASSUME TypeOK, ReachInv, pc = "chase"
  PROVE  aliasId \notin Reads(exprs, target)
<1>1. PICK rank \in [Ids -> Ids] : Ranks(program, rank)
  BY ReduceAssumption DEF TypeOK, Acyclic
<1> DEFINE T == { e \in Ids \X Ids : rank[e[2]] < rank[e[1]] }
<1>2. \A x \in Ids : \A y \in Reads(program, x) : y \in Ids
  <2>1. IsProgram(program)
    BY ReduceAssumption DEF TypeOK, IsCompiled
  <2> QED
    BY <2>1, OperandFacts
<1>3. \A x, y \in Ids : <<x, y>> \in T <=> rank[y] < rank[x]
  OBVIOUS
<1>4. Within(T)
  <2>1. ASSUME NEW x \in Ids, NEW y \in Ids, NEW z \in Ids, rank[y] < rank[x], rank[z] < rank[y]
        PROVE  rank[z] < rank[x]
    BY <2>1, CountAssumption DEF Ids
  <2> HIDE DEF T
  <2>2. \A x, y, z \in Ids : <<x, y>> \in T /\ <<y, z>> \in T => <<x, z>> \in T
    BY <1>3, <2>1
  <2> QED
    BY <1>1, <1>2, <1>3, <2>2 DEF Within, Ranks
<1>5. T \in SUBSET (Ids \X Ids)
  OBVIOUS
<1> HIDE DEF T
<1>6. aliasId \in Ids /\ target \in Ids
  BY DEF TypeOK
<1>7. target = aliasId \/ rank[target] < rank[aliasId]
  BY <1>3, <1>4, <1>5, <1>6 DEF ReachInv
<1>8. aliasId \in Reads(exprs, target) => rank[aliasId] < rank[target]
  BY <1>3, <1>4, <1>5, <1>6 DEF ReachInv
<1> QED
  BY <1>6, <1>7, <1>8, CountAssumption DEF Ids

(***************************************************************************)
(* The back direction, action by action.                                   *)
(***************************************************************************)
LEMMA FollowChainBack ==
  ASSUME TypeOK, ValueInv, ReachInv, BackInv, FollowChain
  PROVE  BackInv'
<1> DEFINE o == AliasOf(target)
<1>0. /\ pc = "chase" /\ exprs[target].alias /\ IsExp(o) /\ target' = o.id /\ target \in Ids
      /\ UNCHANGED <<program, exprs, aliasId, pc>>
  BY DEF FollowChain, AliasOfExpression, TypeOK
<1>1. o.id \in Ids /\ o \in Operands
  BY <1>0, OperandFacts DEF TypeOK, AliasOf
<1> SUFFICES ASSUME NoShiftedAlias(program), NEW v,
                    \A x \in Ids : exprs[x].alias /\ aliasId \notin Reads(exprs, x) => AliasHolds(x, v),
                    NEW w \in Rows
             PROVE  v[aliasId][w] = v[o.id][w]
  BY <1>0 DEF BackInv, AliasHolds, AliasOf
<1>2. v[aliasId][w] = v[target][w]
  BY <1>0 DEF BackInv
<1>3. v[target][w] = OperandValue([o EXCEPT !.next = 0], v, w)
  <2>1. AliasHolds(target, v)
    BY <1>0, ChainUnread
  <2> QED
    BY <1>0, <2>1, AliasValue DEF AliasHolds, ValueInv
<1>4. OperandValue([o EXCEPT !.next = 0], v, w) = v[o.id][(w + 0) % N]
  BY <1>0, <1>1 DEF OperandValue, IsExp, Operands
<1> QED
  BY <1>2, <1>3, <1>4, RowFacts

LEMMA ReplaceBack ==
  ASSUME TypeOK, ValueInv, ReachInv, BackInv, Replace
  PROVE  BackInv'
<1> DEFINE new == ChainEnd
<1>0. /\ pc = "chase" /\ pc' = "pick" /\ aliasId \in Ids /\ target \in Ids /\ IsProgram(exprs)
      /\ exprs' = ReplaceAll(exprs, aliasId, new) /\ program' = program
  BY DEF Replace, TypeOK
<1>1. new \in Operands /\ (IsExp(new) => new.id \in Ids)
  BY ChainEndFacts
<1>2. /\ IsProgram(exprs')
      /\ \A x \in Ids :
           /\ exprs'[x].alias = exprs[x].alias
           /\ DOMAIN exprs'[x].args = DOMAIN exprs[x].args
           /\ \A k \in DOMAIN exprs[x].args :
                exprs'[x].args[k] = ReplaceOperand(exprs[x].args[k], aliasId, new)
  BY <1>0, <1>1, ReplaceAllFacts
<1> SUFFICES ASSUME NoShiftedAlias(program), NEW v,
                    \A x \in Ids : exprs'[x].alias => AliasHolds(x, v)'
             PROVE  \A x \in Ids : \A k \in DOMAIN exprs'[x].args : \A w \in Rows :
                      OperandValue(exprs'[x].args[k], v, w) = OperandValue(program[x].args[k], v, w)
  BY <1>0 DEF BackInv
<1>3. \A x \in Ids : exprs[x].alias =>
        \A w \in Rows : v[x][w] = OperandValue(exprs'[x].args[1], v, w)
  BY <1>2 DEF AliasHolds, AliasOf
<1>4. ASSUME NEW x \in Ids, exprs[x].alias, aliasId \notin Reads(exprs, x) PROVE AliasHolds(x, v)
  <2>1. 1 \in DOMAIN exprs[x].args /\ exprs[x].args[1] \in Operands
    BY <1>0, <1>4, OperandFacts
  <2>2. ~(IsExp(exprs[x].args[1]) /\ exprs[x].args[1].id = aliasId)
    BY <1>0, <1>4, <2>1, OperandFacts
  <2>3. exprs'[x].args[1] = exprs[x].args[1]
    BY <1>1, <1>2, <2>1, <2>2, ReplaceOperandFacts
  <2> QED
    BY <1>3, <1>4, <2>3 DEF AliasHolds, AliasOf
<1>5. \A w \in Rows : v[aliasId][w] = v[target][w]
  BY <1>0, <1>4 DEF BackInv
<1>6. exprs[target].alias => \A w \in Rows : v[target][w] = OperandValue(AliasOf(target), v, w)
  BY <1>0, <1>4, ChainUnread DEF AliasHolds
<1>7. ASSUME NEW x \in Ids, NEW k \in DOMAIN exprs[x].args, NEW w \in Rows
      PROVE  OperandValue(exprs'[x].args[k], v, w) = OperandValue(exprs[x].args[k], v, w)
  <2> DEFINE o == exprs[x].args[k]
  <2>1. o \in Operands /\ exprs'[x].args[k] = ReplaceOperand(o, aliasId, new)
    BY <1>0, <1>2, OperandFacts
  <2> HIDE DEF o
  <2>2. CASE IsExp(o) /\ o.id = aliasId
    <3>1. OperandValue(ReplaceOperand(o, aliasId, ChainEnd), v, w) = OperandValue(o, v, w)
      BY <1>5, <1>6, <2>1, <2>2, ChainEndValue DEF ValueInv
    <3> QED
      BY <2>1, <3>1 DEF o
  <2>3. CASE ~(IsExp(o) /\ o.id = aliasId)
    BY <1>1, <2>1, <2>3, ReplaceOperandFacts DEF o
  <2> QED
    BY <2>2, <2>3
<1>8. \A x \in Ids : exprs[x].alias => AliasHolds(x, v)
  <2> SUFFICES ASSUME NEW x \in Ids, exprs[x].alias, NEW w \in Rows
               PROVE  v[x][w] = OperandValue(exprs[x].args[1], v, w)
    BY DEF AliasHolds, AliasOf
  <2>1. 1 \in DOMAIN exprs[x].args
    BY <1>0, OperandFacts
  <2> QED
    BY <1>3, <1>7, <2>1
<1>9. \A x \in Ids : \A k \in DOMAIN exprs[x].args : \A w \in Rows :
        OperandValue(exprs[x].args[k], v, w) = OperandValue(program[x].args[k], v, w)
  BY <1>8 DEF BackInv
<1> QED
  BY <1>2, <1>7, <1>9

LEMMA BackStep == TypeOK /\ ValueInv /\ ReachInv /\ BackInv /\ [Next]_vars => BackInv'
<1> SUFFICES ASSUME TypeOK, ValueInv, ReachInv, BackInv, [Next]_vars PROVE BackInv'
  OBVIOUS
<1>1. CASE UNCHANGED vars \/ Stop
  BY <1>1 DEF Stop, vars, BackInv, AliasHolds, AliasOf
<1>2. CASE NotAnAlias
  <2>1. pc' = "pick" /\ UNCHANGED <<program, exprs>>
    BY <1>2 DEF NotAnAlias
  <2> QED
    BY <2>1 DEF BackInv, AliasHolds, AliasOf
<1>3. CASE PickAlias
  <2>1. target' = aliasId' /\ UNCHANGED <<program, exprs>>
    BY <1>3 DEF PickAlias
  <2> QED
    BY <2>1 DEF BackInv, AliasHolds, AliasOf
<1> QED
  BY <1>1, <1>2, <1>3, FollowChainBack, ReplaceBack DEF Next
-----------------------------------------------------------------------------
ReduceInv == TypeOK /\ TreatedUnread /\ ValueInv /\ ReachInv /\ BackInv

LEMMA StartInv == Init => ReduceInv
<1>1. Init => ReachInv /\ BackInv
  BY DEF Init, ReachInv, Within, BackInv
<1> QED
  BY <1>1, InitInv DEF ReduceInv

LEMMA InvStep == ReduceInv /\ [Next]_vars => ReduceInv'
<1> SUFFICES ASSUME ReduceInv, [Next]_vars PROVE TypeOK' /\ TreatedUnread' /\ ValueInv'
  BY ReachStep, BackStep DEF ReduceInv
<1>1. TypeOK /\ TreatedUnread /\ ValueInv
  BY DEF ReduceInv
<1>2. CASE UNCHANGED vars
  BY <1>1, <1>2 DEF vars, TypeOK, TreatedUnread, ValueInv, OperandsPreserved, ChainPreserved
<1>3. CASE Stop
  BY <1>2, <1>3 DEF Stop
<1> QED
  BY <1>1, <1>2, <1>3, NotAnAliasInv, PickAliasInv, FollowChainInv, ReplaceInv DEF Next

LEMMA UnreadFacts == ReduceInv => NoAliasOperand
<1> SUFFICES ASSUME TypeOK, TreatedUnread, aliasId = Count,
                    NEW x \in Ids, NEW y \in Reads(exprs, x)
             PROVE  ~exprs[y].alias
  BY DEF NoAliasOperand, Reduced, ReduceInv
<1>1. y \in Ids
  BY OperandFacts DEF TypeOK
<1>2. y < aliasId
  BY <1>1, CountAssumption DEF Ids
<1> QED
  BY <1>1, <1>2 DEF TreatedUnread

LEMMA Invariants == Spec => []ReduceInv
  BY StartInv, InvStep, PTL DEF Spec
-----------------------
(***************************************************************************)
(* Type correctness of reduceAliasExpressions.                             *)
(***************************************************************************)
THEOREM TypeCorrect == Spec => []TypeOK
<1>1. ReduceInv => TypeOK
  BY DEF ReduceInv
<1> QED
  BY <1>1, Invariants, PTL

(***************************************************************************)
(* When the reduction ends no operand names an alias, for every program.   *)
(***************************************************************************)
THEOREM AliasesAreUnread == Spec => []NoAliasOperand
  BY UnreadFacts, Invariants, PTL

(***************************************************************************)
(* The reduction changes no value, in programs where no alias shifts a     *)
(* column, for every field, number of rows and valuation.                  *)
(***************************************************************************)
THEOREM ReductionPreservesValues == Spec => []ValuesPreserved
<1>1. ReduceInv => ValuesPreserved
  BY DEF ReduceInv, ValueInv, ValuesPreserved
<1> QED
  BY <1>1, Invariants, PTL
=============================================================================
