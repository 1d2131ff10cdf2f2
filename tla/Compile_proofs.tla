--------------------------- MODULE Compile_proofs ---------------------------
(***************************************************************************)
(* Proofs about module Compile: for every number of expressions and every  *)
(* program, the order that loadAndCompile builds holds each expression     *)
(* once, and after the expressions it reads.                               *)
(***************************************************************************)
EXTENDS Compile, SequenceTheorems, TLAPS

(***************************************************************************)
(* The frames below the innermost one are visiting their dependencies; the *)
(* innermost one has collected the reads of the operands it has passed.    *)
(***************************************************************************)
StackOK ==
  \A i \in DOMAIN calls :
    /\ i < Len(calls) => compiled[calls[i].id]
    /\ ~compiled[calls[i].id] =>
         /\ calls[i].idep = 1
         /\ calls[i].arg <= Len(program[calls[i].id].args) + 1
         /\ Range(deps[calls[i].id]) = ReadsUpTo(program, calls[i].id, calls[i].arg - 1)

(***************************************************************************)
(* A compiled expression depends on exactly what it reads.                 *)
(***************************************************************************)
DepsOK ==
  \A x \in Ids :
    /\ compiled[x] => Range(deps[x]) = Reads(program, x)
    /\ ~compiled[x] /\ x \notin OnStack => deps[x] = <<>>

(***************************************************************************)
(* What has been compiled is being visited or is already in the order.     *)
(***************************************************************************)
OrderOK ==
  /\ \A i, j \in DOMAIN order : order[i] = order[j] => i = j
  /\ \A x \in Ids : compiled[x] => x \in OnStack \/ x \in Range(order)
  /\ \A x \in Ids : x < index => compiled[x] \/ x \in OnStack

BaseInv == TypeOK /\ StackOK /\ DepsOK /\ OrderOK /\ NoReentry

(***************************************************************************)
(* As long as nothing has been thrown, the operands that have been read    *)
(* are allowed; what was thrown had a reason.                              *)
(***************************************************************************)
Allowed(x, k) == ~NotAllowed(program[x], program[x].args[k])

AcceptInv ==
  /\ outcome = "running" =>
       /\ \A x \in Ids : compiled[x] => \A k \in DOMAIN program[x].args : Allowed(x, k)
       /\ \A i \in DOMAIN calls : ~compiled[calls[i].id] =>
            \A k \in DOMAIN program[calls[i].id].args : k < calls[i].arg => Allowed(calls[i].id, k)
  /\ outcome = "rejected" => \E x \in Ids : \E k \in DOMAIN program[x].args : ~Allowed(x, k)

(***************************************************************************)
(* The part that holds of programs in which no expression reads itself:    *)
(* the ranks decrease along the stack, what a frame has visited is in the  *)
(* order or is the call it is waiting for, and nothing on the stack is in  *)
(* the order.                                                              *)
(***************************************************************************)
Descends ==
  \A rank \in [Ids -> Ids] : Ranks(program, rank) =>
    \A i, j \in DOMAIN calls : i < j => rank[calls[j].id] < rank[calls[i].id]

Visited ==
  \A i \in DOMAIN calls : \A j \in DOMAIN deps[calls[i].id] :
    compiled[calls[i].id] /\ j < calls[i].idep =>
      \/ deps[calls[i].id][j] \in Range(order)
      \/ i < Len(calls) /\ calls[i + 1].id = deps[calls[i].id][j]

OrderedAfterReads ==
  \A k \in DOMAIN order : \A y \in Reads(program, order[k]) :
    \E j \in 1 .. k - 1 : order[j] = y

OffStack == \A x \in Range(order) : compiled[x] /\ x \notin OnStack

RankInv ==
  Acyclic(program) => Descends /\ Visited /\ OrderedAfterReads /\ OffStack
-----------------------------------------------------------------------------
(***************************************************************************)
(* What Dependencies::add does to a vector.                                *)
(***************************************************************************)
LEMMA AddProperties ==
  ASSUME NEW S, NEW ds \in Seq(S), NEW d \in S
  PROVE  /\ Add(ds, d) \in Seq(S)
         /\ Range(Add(ds, d)) = Range(ds) \cup {d}
         /\ \A i \in DOMAIN ds : i \in DOMAIN Add(ds, d) /\ Add(ds, d)[i] = ds[i]
         /\ \A i \in DOMAIN Add(ds, d) :
              i \in DOMAIN ds \/ (d \notin Range(ds) /\ i = Len(ds) + 1 /\ Add(ds, d)[i] = d)
<1>1. CASE d \in Range(ds)
  BY <1>1 DEF Add, Range
<1>2. CASE d \notin Range(ds)
  <2>1. Add(ds, d) = Append(ds, d)
    BY <1>2 DEF Add
  <2>2. /\ Append(ds, d) \in Seq(S)
        /\ Len(Append(ds, d)) = Len(ds) + 1
        /\ \A i \in 1 .. Len(ds) : Append(ds, d)[i] = ds[i]
        /\ Append(ds, d)[Len(ds) + 1] = d
        /\ Len(ds) \in Nat
        /\ DOMAIN ds = 1 .. Len(ds)
        /\ DOMAIN Append(ds, d) = 1 .. Len(ds) + 1
    BY AppendProperties, LenProperties
  <2>3. Range(Append(ds, d)) = Range(ds) \cup {d}
    BY <2>2 DEF Range
  <2> QED
    BY <1>2, <2>1, <2>2, <2>3
<1> QED
  BY <1>1, <1>2

LEMMA AddInjective ==
  ASSUME NEW S, NEW ds \in Seq(S), NEW d \in S,
         \A i, j \in DOMAIN ds : ds[i] = ds[j] => i = j,
         NEW i \in DOMAIN Add(ds, d), NEW j \in DOMAIN Add(ds, d),
         Add(ds, d)[i] = Add(ds, d)[j]
  PROVE  i = j
<1> DEFINE t == Add(ds, d)
<1>1. \A k \in DOMAIN ds : k \in DOMAIN t /\ t[k] = ds[k] /\ ds[k] \in Range(ds)
  BY AddProperties DEF Range
<1>2. \A k \in DOMAIN t :
        k \in DOMAIN ds \/ (d \notin Range(ds) /\ k = Len(ds) + 1 /\ t[k] = d)
  BY AddProperties
<1> HIDE DEF t
<1>3. t[i] = t[j] /\ i \in DOMAIN t /\ j \in DOMAIN t
  BY DEF t
<1> QED
  BY <1>1, <1>2, <1>3

(***************************************************************************)
(* What a program's operands read, one operand at a time.                  *)
(***************************************************************************)
LEMMA ReadsProperties ==
  ASSUME NEW p \in Programs, NEW x \in Ids
  PROVE  /\ p[x].args \in Seq(Operands)
         /\ Len(p[x].args) \in Nat
         /\ DOMAIN p[x].args = 1 .. Len(p[x].args)
         /\ ReadsUpTo(p, x, 0) = {}
         /\ Reads(p, x) \subseteq Ids
         /\ \A k \in DOMAIN p[x].args :
              ReadsUpTo(p, x, k) =
                ReadsUpTo(p, x, k - 1) \cup
                  (IF IsExp(p[x].args[k]) THEN {p[x].args[k].id} ELSE {})
<1> DEFINE a == p[x].args
<1>1. IsProgram(p)
  BY ProgramsAssumption
<1>2. a \in Seq(Operands)
  BY <1>1 DEF IsProgram, Expressions
<1>3. Len(a) \in Nat /\ DOMAIN a = 1 .. Len(a)
  BY <1>2, LenProperties
<1>4. \A k \in DOMAIN a : IsExp(a[k]) => a[k].id \in Ids
  BY <1>1 DEF IsProgram
<1>5. \A k : ReadsUpTo(p, x, k) = { a[j].id : j \in { i \in DOMAIN a : i <= k /\ IsExp(a[i]) } }
  BY DEF ReadsUpTo
<1>6. Reads(p, x) = ReadsUpTo(p, x, Len(a))
  BY DEF Reads
<1> HIDE DEF a
<1>7. ReadsUpTo(p, x, 0) = {}
  BY <1>3, <1>5
<1>8. Reads(p, x) \subseteq Ids
  BY <1>4, <1>5, <1>6
<1>9. ASSUME NEW k \in DOMAIN a
      PROVE  ReadsUpTo(p, x, k) =
               ReadsUpTo(p, x, k - 1) \cup (IF IsExp(a[k]) THEN {a[k].id} ELSE {})
  <2>1. { i \in DOMAIN a : i <= k /\ IsExp(a[i]) } =
          { i \in DOMAIN a : i <= k - 1 /\ IsExp(a[i]) } \cup (IF IsExp(a[k]) THEN {k} ELSE {})
    BY <1>3
  <2> QED
    BY <1>5, <2>1
<1> QED
  BY <1>2, <1>3, <1>7, <1>8, <1>9 DEF a

(***************************************************************************)
(* The innermost frame, when there is one.                                 *)
(***************************************************************************)
LEMMA TopProperties ==
  ASSUME TypeOK, calls # <<>>
  PROVE  /\ Len(calls) \in Nat \ {0}
         /\ DOMAIN calls = 1 .. Len(calls)
         /\ Top \in Frames
         /\ Top.id \in Ids
<1>1. calls \in Seq(Frames)
  BY DEF TypeOK
<1>2. Len(calls) \in Nat /\ DOMAIN calls = 1 .. Len(calls) /\ Len(calls) # 0
  BY <1>1, LenProperties, EmptySeq
<1>3. Top \in Frames
  BY <1>1, <1>2, ElementOfSeq DEF Top
<1> QED
  BY <1>2, <1>3 DEF Frames

(***************************************************************************)
(* The three things a step does to the stack: change the innermost frame,  *)
(* push one, pop one.                                                      *)
(***************************************************************************)
LEMMA SetTop ==
  ASSUME TypeOK, calls # <<>>, NEW f \in Frames, f.id = Top.id,
         calls' = [calls EXCEPT ![Len(calls)] = f]
  PROVE  /\ calls' \in Seq(Frames)
         /\ Len(calls') = Len(calls)
         /\ DOMAIN calls' = DOMAIN calls
         /\ \A i \in DOMAIN calls : calls'[i] = IF i = Len(calls) THEN f ELSE calls[i]
         /\ \A i \in DOMAIN calls : calls'[i].id = calls[i].id
         /\ OnStack' = OnStack
<1>1. calls \in Seq(Frames) /\ Len(calls) \in 1 .. Len(calls) /\ DOMAIN calls = 1 .. Len(calls)
  BY TopProperties DEF TypeOK
<1>2. /\ calls' \in Seq(Frames)
      /\ Len(calls') = Len(calls)
      /\ \A i \in 1 .. Len(calls) : calls'[i] = IF i = Len(calls) THEN f ELSE calls[i]
  BY <1>1, ExceptSeq
<1>3. \A i \in DOMAIN calls : calls'[i].id = calls[i].id
  BY <1>1, <1>2 DEF Top
<1>4. DOMAIN calls' = DOMAIN calls
  BY <1>1, <1>2, LenProperties
<1> QED
  BY <1>1, <1>2, <1>3, <1>4 DEF OnStack

LEMMA Push ==
  ASSUME NEW s \in Seq(Frames), NEW f \in Frames
  PROVE  /\ Append(s, f) \in Seq(Frames)
         /\ Len(s) \in Nat
         /\ Len(Append(s, f)) = Len(s) + 1
         /\ DOMAIN s = 1 .. Len(s)
         /\ DOMAIN Append(s, f) = 1 .. Len(s) + 1
         /\ \A i \in DOMAIN s : Append(s, f)[i] = s[i]
         /\ Append(s, f)[Len(s) + 1] = f
         /\ Append(s, f) # <<>>
  BY AppendProperties, LenProperties

LEMMA Pop ==
  ASSUME TypeOK, calls # <<>>, calls' = SubSeq(calls, 1, Len(calls) - 1)
  PROVE  /\ calls' \in Seq(Frames)
         /\ Len(calls') = Len(calls) - 1
         /\ DOMAIN calls' = 1 .. Len(calls) - 1
         /\ \A i \in DOMAIN calls' : i \in DOMAIN calls /\ calls'[i] = calls[i]
         /\ OnStack \subseteq OnStack' \cup {Top.id}
         /\ OnStack' \subseteq OnStack
<1>1. calls \in Seq(Frames) /\ Len(calls) \in Nat \ {0} /\ DOMAIN calls = 1 .. Len(calls)
  BY TopProperties DEF TypeOK
<1>2. \A i \in 1 .. Len(calls) - 1 : calls[i] \in Frames
  BY <1>1, ElementOfSeq
<1>3. /\ calls' \in Seq(Frames)
      /\ Len(calls') = Len(calls) - 1
      /\ \A i \in 1 .. Len(calls) - 1 : calls'[i] = calls[i]
  <2>1. 1 \in Int /\ Len(calls) - 1 \in Int
    BY <1>1
  <2> QED
    BY <1>1, <1>2, <2>1, SubSeqProperties
<1>4. DOMAIN calls' = 1 .. Len(calls) - 1
  BY <1>3, LenProperties
<1>5. OnStack' = { calls[i].id : i \in 1 .. Len(calls) - 1 }
  BY <1>3, <1>4 DEF OnStack
<1>6. \A i \in DOMAIN calls : i \in 1 .. Len(calls) - 1 \/ i = Len(calls)
  BY <1>1
<1>7. OnStack \subseteq OnStack' \cup {Top.id}
  BY <1>5, <1>6 DEF OnStack, Top
<1>8. \A i \in DOMAIN calls' : i \in DOMAIN calls /\ calls'[i] = calls[i]
  BY <1>1, <1>3, <1>4
<1>9. OnStack' \subseteq OnStack
  BY <1>8 DEF OnStack
<1> QED
  BY <1>3, <1>4, <1>7, <1>8, <1>9

(***************************************************************************)
(* The invariants hold before anything is compiled.                        *)
(***************************************************************************)
LEMMA InitInv == Init => BaseInv /\ RankInv /\ AcceptInv
<1> SUFFICES ASSUME Init PROVE BaseInv /\ RankInv /\ AcceptInv
  OBVIOUS
<1>1. DOMAIN calls = {} /\ DOMAIN order = {} /\ Range(order) = {}
  BY DEF Init, Range
<1>2. TypeOK
  BY CountAssumption DEF Init, TypeOK, Ids
<1>3. StackOK /\ NoReentry /\ OrderOK /\ DepsOK
  BY <1>1, CountAssumption DEF Init, StackOK, NoReentry, OrderOK, DepsOK, Ids
<1>4. RankInv
  BY <1>1 DEF RankInv, Descends, Visited, OrderedAfterReads, OffStack
<1>5. AcceptInv
  BY <1>1 DEF Init, AcceptInv
<1> QED
  BY <1>2, <1>3, <1>4, <1>5 DEF BaseInv

(***************************************************************************)
(* BaseInv is inductive.                                                   *)
(***************************************************************************)
LEMMA CompileNextBase == BaseInv /\ CompileNext => BaseInv'
<1> SUFFICES ASSUME BaseInv, CompileNext PROVE BaseInv'
  OBVIOUS
<1> USE DEF BaseInv
<1>0. /\ calls = <<>> /\ index \in Ids /\ index' = index + 1 /\ index' \in 0 .. Count
      /\ UNCHANGED <<program, deps, compiled, order, outcome>>
      /\ DOMAIN calls = {} /\ OnStack = {}
  BY CountAssumption DEF CompileNext, TypeOK, Ids, OnStack
<1>1. CASE compiled[index]
  <2>1. calls' = calls
    BY <1>1 DEF CompileNext, Call
  <2>2. TypeOK'
    BY <1>0, <2>1 DEF TypeOK
  <2>3. StackOK' /\ DepsOK' /\ NoReentry'
    BY <1>0, <2>1 DEF StackOK, DepsOK, NoReentry, OnStack
  <2>4. OrderOK'
    BY <1>0, <1>1, <2>1 DEF OrderOK, OnStack, Ids, TypeOK
  <2> QED
    BY <2>2, <2>3, <2>4
<1>2. CASE ~compiled[index]
  <2> DEFINE f == [id |-> index, arg |-> 1, idep |-> 1, imerge |-> 1]
  <2>1. calls' = Append(calls, f) /\ f \in Frames /\ calls \in Seq(Frames)
    BY <1>0, <1>2 DEF CompileNext, Call, Frames, TypeOK
  <2>2. Len(calls) = 0 /\ DOMAIN calls' = {1} /\ calls'[1] = f /\ calls' \in Seq(Frames) /\ Len(calls') = 1
    <3>1. Len(calls) = 0
      BY <1>0, EmptySeq
    <3> HIDE DEF f
    <3> QED
      BY <2>1, <3>1, Push
  <2>3. OnStack' = {index}
    BY <2>2 DEF OnStack
  <2>4. TypeOK'
    BY <1>0, <2>2 DEF TypeOK
  <2>5. DepsOK'
    BY <1>0, <2>3 DEF DepsOK
  <2>6. /\ ReadsUpTo(program, index, 0) = {}
        /\ Len(program[index].args) \in Nat
    BY <1>0, ReadsProperties DEF TypeOK
  <2>7. deps[index] = <<>> /\ Range(deps[index]) = {}
    BY <1>0, <1>2 DEF DepsOK, Range
  <2>8. calls'[1].id = index /\ calls'[1].arg = 1 /\ calls'[1].idep = 1
    BY <2>2
  <2>9. StackOK'
    <3> HIDE DEF f
    <3> SUFFICES /\ calls'[1].idep = 1
                 /\ calls'[1].arg <= Len(program[index].args) + 1
                 /\ Range(deps[index]) = ReadsUpTo(program, index, calls'[1].arg - 1)
      BY <1>0, <2>2, <2>8 DEF StackOK
    <3>1. calls'[1].arg - 1 = 0 /\ calls'[1].arg <= Len(program[index].args) + 1
      BY <2>6, <2>8
    <3> QED
      BY <2>6, <2>7, <2>8, <3>1
  <2>10. OrderOK'
    BY <1>0, <2>3 DEF OrderOK, Ids, TypeOK
  <2>11. NoReentry'
    BY <2>2 DEF NoReentry
  <2> QED
    BY <2>4, <2>5, <2>9, <2>10, <2>11
<1> QED
  BY <1>1, <1>2

(***************************************************************************)
(* A step that only changes the innermost frame's counters.                *)
(***************************************************************************)
LEMMA ReadOperandBase == BaseInv /\ ReadOperand => BaseInv'
<1> SUFFICES ASSUME BaseInv, ReadOperand PROVE BaseInv'
  OBVIOUS
<1> USE DEF BaseInv
<1> DEFINE x == Top.id
           f == [Top EXCEPT !.arg = @ + 1]
           n == Len(calls)
<1>0. /\ calls # <<>> /\ TypeOK /\ ~compiled[x] /\ Top.arg <= Len(program[x].args)
      /\ UNCHANGED <<program, compiled, order, index>>
  BY DEF ReadOperand, Compiling
<1>1. n \in Nat \ {0} /\ DOMAIN calls = 1 .. n /\ Top \in Frames /\ x \in Ids /\ n \in DOMAIN calls
  BY <1>0, TopProperties
<1>2. f \in Frames /\ f.id = x /\ f.arg = Top.arg + 1 /\ f.idep = Top.idep
  BY <1>1 DEF Frames
<1>3. calls' = [calls EXCEPT ![n] = f]
  BY DEF ReadOperand, Top
<1>4. /\ calls' \in Seq(Frames) /\ Len(calls') = n /\ DOMAIN calls' = DOMAIN calls
      /\ \A i \in DOMAIN calls : calls'[i] = IF i = n THEN f ELSE calls[i]
      /\ \A i \in DOMAIN calls : calls'[i].id = calls[i].id
      /\ OnStack' = OnStack
  <2> HIDE DEF f
  <2> QED
    BY <1>0, <1>2, <1>3, SetTop
<1>5. x \in OnStack /\ calls[n] = Top /\ Top.idep = 1
  BY <1>0, <1>1 DEF OnStack, StackOK, Top
<1>6. /\ Operand = program[x].args[Top.arg]
      /\ Top.arg \in DOMAIN program[x].args
      /\ Len(program[x].args) \in Nat
      /\ Top.arg \in 1 .. Len(program[x].args)
  <2>1. Top.arg \in Nat \ {0}
    BY <1>1 DEF Frames
  <2>2. Len(program[x].args) \in Nat /\ DOMAIN program[x].args = 1 .. Len(program[x].args)
    BY <1>0, <1>1, ReadsProperties DEF TypeOK
  <2> QED
    BY <1>0, <2>1, <2>2 DEF Operand
<1>7. ReadsUpTo(program, x, Top.arg) =
        ReadsUpTo(program, x, Top.arg - 1) \cup (IF IsExp(Operand) THEN {Operand.id} ELSE {})
  BY <1>1, <1>6, ReadsProperties DEF TypeOK
<1>8. IsExp(Operand) => Operand.id \in Ids
  BY <1>0, <1>1, <1>6, ProgramsAssumption DEF TypeOK, IsProgram
<1>9. /\ deps' \in [Ids -> Seq(Ids)]
      /\ \A y \in Ids : y # x => deps'[y] = deps[y]
      /\ Range(deps'[x]) = Range(deps[x]) \cup (IF IsExp(Operand) THEN {Operand.id} ELSE {})
  <2>1. CASE IsExp(Operand)
    <3>1. deps' = [deps EXCEPT ![x] = Add(deps[x], Operand.id)] /\ deps[x] \in Seq(Ids)
      BY <1>0, <1>1, <2>1 DEF ReadOperand, TypeOK
    <3>2. /\ Add(deps[x], Operand.id) \in Seq(Ids)
          /\ Range(Add(deps[x], Operand.id)) = Range(deps[x]) \cup {Operand.id}
      BY <1>8, <2>1, <3>1, AddProperties
    <3> QED
      BY <1>0, <1>1, <2>1, <3>1, <3>2 DEF TypeOK
  <2>2. CASE ~IsExp(Operand)
    BY <1>0, <2>2 DEF ReadOperand, TypeOK
  <2> QED
    BY <2>1, <2>2
<1>10. Range(deps[x]) = ReadsUpTo(program, x, Top.arg - 1)
  BY <1>0, <1>1, <1>5 DEF StackOK
<1>11. Range(deps'[x]) = ReadsUpTo(program, x, f.arg - 1) /\ Top.arg \in Nat
  <2>1. f.arg - 1 = Top.arg /\ Top.arg \in Nat
    BY <1>1, <1>2 DEF Frames
  <2> QED
    BY <1>7, <1>9, <1>10, <2>1
<1> HIDE DEF f
<1>12. TypeOK'
  <2>1. outcome' \in {"running", "rejected"}
    BY <1>0 DEF ReadOperand, TypeOK
  <2> QED
    BY <1>0, <1>4, <1>9, <2>1 DEF TypeOK
<1>13. StackOK'
  <2> SUFFICES ASSUME NEW i \in DOMAIN calls
               PROVE  /\ i < n => compiled[calls[i].id]
                      /\ ~compiled[calls[i].id] =>
                           /\ calls'[i].idep = 1
                           /\ calls'[i].arg <= Len(program[calls[i].id].args) + 1
                           /\ Range(deps'[calls[i].id]) =
                                ReadsUpTo(program, calls[i].id, calls'[i].arg - 1)
    BY <1>0, <1>4 DEF StackOK
  <2>1. CASE i = n
    <3>1. /\ calls[i] = Top /\ calls'[i] = f /\ f.idep = 1
          /\ f.arg <= Len(program[x].args) + 1
      BY <1>1, <1>2, <1>4, <1>5, <1>6, <2>1
    <3> QED
      BY <1>1, <1>11, <2>1, <3>1
  <2>2. CASE i # n
    BY <1>1, <2>2 DEF StackOK
  <2> QED
    BY <2>1, <2>2
<1>14. DepsOK'
  BY <1>0, <1>4, <1>5, <1>9 DEF DepsOK
<1>15. OrderOK' /\ NoReentry'
  BY <1>0, <1>4 DEF OrderOK, NoReentry
<1> QED
  BY <1>12, <1>13, <1>14, <1>15

LEMMA EndCompileBase == BaseInv /\ EndCompile => BaseInv'
<1> SUFFICES ASSUME BaseInv, EndCompile PROVE BaseInv'
  OBVIOUS
<1> USE DEF BaseInv
<1> DEFINE x == Top.id
           n == Len(calls)
<1>0. /\ calls # <<>> /\ TypeOK /\ ~compiled[x] /\ Top.arg > Len(program[x].args)
      /\ compiled' = [compiled EXCEPT ![x] = TRUE]
      /\ UNCHANGED <<program, deps, order, calls, index, outcome>>
  BY DEF EndCompile, Compiling
<1>1. n \in Nat \ {0} /\ DOMAIN calls = 1 .. n /\ Top \in Frames /\ x \in Ids /\ n \in DOMAIN calls
  BY <1>0, TopProperties
<1>2. /\ compiled' \in [Ids -> BOOLEAN]
      /\ compiled'[x]
      /\ \A y \in Ids : y # x => compiled'[y] = compiled[y]
      /\ \A y \in Ids : compiled[y] => compiled'[y]
  BY <1>0, <1>1 DEF TypeOK
<1>3. \A i \in DOMAIN calls : calls[i].id \in Ids
  <2>1. \A i \in 1 .. n : calls[i] \in Frames
    BY <1>0, ElementOfSeq DEF TypeOK
  <2> QED
    BY <1>1, <2>1 DEF Frames
<1>4. x \in OnStack /\ calls[n] = Top
  BY <1>1 DEF OnStack, Top
<1>5. Range(deps[x]) = Reads(program, x)
  <2>1. /\ Top.arg <= Len(program[x].args) + 1
        /\ Range(deps[x]) = ReadsUpTo(program, x, Top.arg - 1)
    BY <1>0, <1>1, <1>4 DEF StackOK
  <2>2. Top.arg \in Nat /\ Len(program[x].args) \in Nat
    BY <1>0, <1>1, ReadsProperties DEF TypeOK, Frames
  <2>3. Top.arg - 1 = Len(program[x].args)
    BY <1>0, <2>1, <2>2
  <2> QED
    BY <2>1, <2>3 DEF Reads
<1>6. TypeOK'
  BY <1>0, <1>2 DEF TypeOK
<1>7. StackOK'
  BY <1>0, <1>2, <1>3 DEF StackOK
<1>8. DepsOK'
  BY <1>0, <1>2, <1>4, <1>5 DEF DepsOK, OnStack
<1>9. OrderOK'
  BY <1>0, <1>2, <1>4 DEF OrderOK, OnStack
<1>10. NoReentry'
  BY <1>0 DEF NoReentry
<1> QED
  BY <1>6, <1>7, <1>8, <1>9, <1>10

LEMMA VisitDependencyBase == BaseInv /\ VisitDependency => BaseInv'
<1> SUFFICES ASSUME BaseInv, VisitDependency PROVE BaseInv'
  OBVIOUS
<1> USE DEF BaseInv
<1> DEFINE x == Top.id
           f == [Top EXCEPT !.idep = @ + 1]
           n == Len(calls)
           d == deps[x][Top.idep]
           s == [calls EXCEPT ![n] = f]
           g == [id |-> d, arg |-> 1, idep |-> 1, imerge |-> 1]
<1>0. /\ calls # <<>> /\ TypeOK /\ compiled[x] /\ Top.idep <= Len(deps[x])
      /\ calls' = Call(s, d)
      /\ UNCHANGED <<program, deps, compiled, order, index, outcome>>
  BY DEF VisitDependency, Visiting
<1>1. n \in Nat \ {0} /\ DOMAIN calls = 1 .. n /\ Top \in Frames /\ x \in Ids /\ n \in DOMAIN calls
  BY <1>0, TopProperties
<1>2. f \in Frames /\ f.id = x
  BY <1>1 DEF Frames
<1>3. calls[n] = Top
  BY DEF Top
<1>4. calls \in Seq(Frames) /\ n \in 1 .. Len(calls)
  BY <1>1 DEF TypeOK
<1>5. /\ s \in Seq(Frames) /\ Len(s) = n /\ DOMAIN s = DOMAIN calls
      /\ \A i \in DOMAIN calls : s[i].id = calls[i].id
      /\ \A i \in DOMAIN calls : i < n => s[i] = calls[i]
  <2> HIDE DEF f
  <2>1. /\ s \in Seq(Frames) /\ Len(s) = n
        /\ \A i \in 1 .. n : s[i] = IF i = n THEN f ELSE calls[i]
    BY <1>2, <1>4, ExceptSeq
  <2>2. DOMAIN s = DOMAIN calls
    BY <1>1, <2>1, LenProperties
  <2> QED
    BY <1>1, <1>2, <1>3, <2>1, <2>2
<1>6. d \in Ids
  <2>1. Top.idep \in 1 .. Len(deps[x]) /\ deps[x] \in Seq(Ids)
    <3>1. Top.idep \in Nat \ {0} /\ deps[x] \in Seq(Ids)
      BY <1>0, <1>1 DEF Frames, TypeOK
    <3>2. Len(deps[x]) \in Nat
      BY <3>1, LenProperties
    <3> QED
      BY <1>0, <3>1, <3>2
  <2> QED
    BY <2>1, ElementOfSeq
<1>7. \A i \in DOMAIN calls : compiled[calls[i].id]
  BY <1>0, <1>1, <1>3 DEF StackOK
<1>8. \A y \in Ids : y \in OnStack => compiled[y]
  BY <1>7 DEF OnStack
<1> HIDE DEF s, f
<1>9. CASE compiled[d]
  <2>1. calls' = s
    BY <1>0, <1>9 DEF Call
  <2>2. OnStack' = OnStack
    BY <1>5, <2>1 DEF OnStack
  <2>3. TypeOK'
    BY <1>0, <1>5, <2>1 DEF TypeOK
  <2>4. StackOK'
    BY <1>0, <1>5, <1>7, <2>1 DEF StackOK
  <2>5. DepsOK' /\ OrderOK'
    BY <1>0, <2>2 DEF DepsOK, OrderOK
  <2>6. NoReentry'
    BY <1>5, <2>1 DEF NoReentry
  <2> QED
    BY <2>3, <2>4, <2>5, <2>6
<1>10. CASE ~compiled[d]
  <2>1. calls' = Append(s, g) /\ g \in Frames
    BY <1>0, <1>6, <1>10 DEF Call, Frames
  <2>2. g.id = d /\ g.arg = 1 /\ g.idep = 1
    OBVIOUS
  <2> HIDE DEF g
  <2>3. /\ calls' \in Seq(Frames) /\ Len(calls') = n + 1 /\ DOMAIN calls' = 1 .. n + 1
        /\ \A i \in 1 .. n : calls'[i] = s[i]
        /\ calls'[n + 1] = g
    BY <1>1, <1>5, <2>1, Push
  <2>4. /\ \A i \in 1 .. n : calls'[i].id = calls[i].id
        /\ calls'[n + 1].id = d
    BY <1>1, <1>5, <2>2, <2>3
  <2>5. \A i \in 1 .. n + 1 : i \in 1 .. n \/ i = n + 1
    BY <1>1
  <2>6. OnStack' = OnStack \cup {d} /\ d \notin OnStack
    BY <1>1, <1>6, <1>8, <1>10, <2>3, <2>4, <2>5 DEF OnStack
  <2>7. TypeOK'
    BY <1>0, <2>3 DEF TypeOK
  <2>8. DepsOK'
    BY <1>0, <2>6 DEF DepsOK
  <2>9. OrderOK'
    BY <1>0, <2>6 DEF OrderOK
  <2>10. NoReentry'
    BY <1>1, <1>7, <1>10, <2>3, <2>4, <2>5 DEF NoReentry
  <2>11. StackOK'
    <3>1. \A i \in 1 .. n : compiled[calls'[i].id]
      BY <1>1, <1>7, <2>4
    <3>2. /\ Range(deps[d]) = {} /\ ReadsUpTo(program, d, 0) = {}
          /\ Len(program[d].args) \in Nat
      <4>1. deps[d] = <<>>
        BY <1>6, <1>10, <2>6 DEF DepsOK
      <4>2. Range(deps[d]) = {}
        BY <4>1 DEF Range
      <4>3. program \in Programs /\ d \in Ids
        BY <1>0, <1>6 DEF TypeOK
      <4> HIDE DEF d
      <4>4. ReadsUpTo(program, d, 0) = {} /\ Len(program[d].args) \in Nat
        BY <4>3, ReadsProperties
      <4> QED
        BY <4>2, <4>4
    <3>3. /\ calls'[n + 1].idep = 1
          /\ calls'[n + 1].arg <= Len(program[d].args) + 1
          /\ calls'[n + 1].arg - 1 = 0
      BY <2>2, <2>3, <3>2
    <3> SUFFICES ASSUME NEW i \in DOMAIN calls'
                 PROVE  /\ i < Len(calls') => compiled[calls'[i].id]
                        /\ ~compiled[calls'[i].id] =>
                             /\ calls'[i].idep = 1
                             /\ calls'[i].arg <= Len(program[calls'[i].id].args) + 1
                             /\ Range(deps[calls'[i].id]) =
                                  ReadsUpTo(program, calls'[i].id, calls'[i].arg - 1)
      BY <1>0 DEF StackOK
    <3>4. CASE i \in 1 .. n
      BY <3>1, <3>4
    <3>5. CASE i = n + 1
      <4> HIDE DEF d
      <4>1. calls'[i].id = d /\ calls'[i].arg - 1 = 0 /\ ~(i < Len(calls'))
        BY <1>1, <2>3, <2>4, <3>3, <3>5
      <4>2. Range(deps[d]) = ReadsUpTo(program, d, calls'[i].arg - 1)
        BY <3>2, <4>1
      <4> QED
        BY <3>3, <3>5, <4>1, <4>2
    <3> QED
      BY <2>3, <2>5, <3>4, <3>5
  <2> QED
    BY <2>7, <2>8, <2>9, <2>10, <2>11
<1> QED
  BY <1>9, <1>10

LEMMA MergeDependencyBase == BaseInv /\ MergeDependency => BaseInv'
<1> SUFFICES ASSUME BaseInv, MergeDependency PROVE BaseInv'
  OBVIOUS
<1> USE DEF BaseInv
<1> DEFINE x == Top.id
           f == [Top EXCEPT !.imerge = @ + 1]
           n == Len(calls)
           d == deps[x][Top.imerge]
<1>0. /\ calls # <<>> /\ TypeOK /\ compiled[x] /\ Top.imerge <= Len(deps[x])
      /\ calls' = [calls EXCEPT ![n] = f]
      /\ order' = Add(order, d)
      /\ UNCHANGED <<program, deps, compiled, index, outcome>>
  BY DEF MergeDependency, Visiting
<1>1. n \in Nat \ {0} /\ DOMAIN calls = 1 .. n /\ Top \in Frames /\ x \in Ids /\ n \in DOMAIN calls
  BY <1>0, TopProperties
<1>2. f \in Frames /\ f.id = x /\ calls[n] = Top
  BY <1>1 DEF Frames, Top
<1> HIDE DEF f
<1>3. /\ calls' \in Seq(Frames) /\ Len(calls') = n /\ DOMAIN calls' = DOMAIN calls
      /\ \A i \in DOMAIN calls : calls'[i].id = calls[i].id
      /\ OnStack' = OnStack
  BY <1>0, <1>2, SetTop
<1>4. d \in Ids
  <2>1. Top.imerge \in Nat \ {0} /\ deps[x] \in Seq(Ids)
    BY <1>0, <1>1 DEF Frames, TypeOK
  <2>2. Len(deps[x]) \in Nat
    BY <2>1, LenProperties
  <2>3. Top.imerge \in 1 .. Len(deps[x])
    BY <1>0, <2>1, <2>2
  <2> QED
    BY <2>1, <2>3, ElementOfSeq
<1>5. /\ order' \in Seq(Ids) /\ Range(order') = Range(order) \cup {d}
      /\ \A i, j \in DOMAIN order' : order'[i] = order'[j] => i = j
  <2>1. order \in Seq(Ids)
    BY DEF TypeOK
  <2>2. \A i, j \in DOMAIN order : order[i] = order[j] => i = j
    BY DEF OrderOK
  <2> HIDE DEF d
  <2>3. Add(order, d) \in Seq(Ids) /\ Range(Add(order, d)) = Range(order) \cup {d}
    BY <1>4, <2>1, AddProperties
  <2>4. \A i, j \in DOMAIN Add(order, d) : Add(order, d)[i] = Add(order, d)[j] => i = j
    BY <1>4, <2>1, <2>2, AddInjective
  <2> QED
    BY <1>0, <2>3, <2>4
<1>6. TypeOK'
  BY <1>0, <1>3, <1>5 DEF TypeOK
<1>7. StackOK'
  BY <1>0, <1>1, <1>2, <1>3 DEF StackOK
<1>8. DepsOK'
  BY <1>0, <1>3 DEF DepsOK
<1>9. OrderOK'
  BY <1>0, <1>3, <1>5 DEF OrderOK
<1>10. NoReentry'
  BY <1>3 DEF NoReentry
<1> QED
  BY <1>6, <1>7, <1>8, <1>9, <1>10

LEMMA ReturnBase == BaseInv /\ Return => BaseInv'
<1> SUFFICES ASSUME BaseInv, Return PROVE BaseInv'
  OBVIOUS
<1> USE DEF BaseInv
<1> DEFINE x == Top.id
           n == Len(calls)
<1>0. /\ calls # <<>> /\ TypeOK /\ compiled[x]
      /\ calls' = SubSeq(calls, 1, n - 1)
      /\ order' = Add(order, x)
      /\ UNCHANGED <<program, deps, compiled, index, outcome>>
  BY DEF Return, Visiting
<1>1. n \in Nat \ {0} /\ DOMAIN calls = 1 .. n /\ x \in Ids
  BY <1>0, TopProperties
<1>2. /\ calls' \in Seq(Frames) /\ Len(calls') = n - 1
      /\ DOMAIN calls' = 1 .. n - 1
      /\ \A i \in DOMAIN calls' : i \in DOMAIN calls /\ calls'[i] = calls[i]
      /\ OnStack \subseteq OnStack' \cup {x} /\ OnStack' \subseteq OnStack
  BY <1>0, Pop
<1>3. /\ order' \in Seq(Ids) /\ Range(order') = Range(order) \cup {x}
      /\ \A i, j \in DOMAIN order' : order'[i] = order'[j] => i = j
  <2>1. order \in Seq(Ids)
    BY DEF TypeOK
  <2>2. \A i, j \in DOMAIN order : order[i] = order[j] => i = j
    BY DEF OrderOK
  <2> HIDE DEF x
  <2>3. Add(order, x) \in Seq(Ids) /\ Range(Add(order, x)) = Range(order) \cup {x}
    BY <1>1, <2>1, AddProperties
  <2>4. \A i, j \in DOMAIN Add(order, x) : Add(order, x)[i] = Add(order, x)[j] => i = j
    BY <1>1, <2>1, <2>2, AddInjective
  <2> QED
    BY <1>0, <2>3, <2>4
<1>4. TypeOK'
  BY <1>0, <1>2, <1>3 DEF TypeOK
<1>5. StackOK'
  BY <1>0, <1>1, <1>2 DEF StackOK
<1>6. DepsOK'
  BY <1>0, <1>2 DEF DepsOK
<1>7. OrderOK'
  BY <1>0, <1>2, <1>3 DEF OrderOK
<1>8. NoReentry'
  BY <1>2 DEF NoReentry
<1> QED
  BY <1>4, <1>5, <1>6, <1>7, <1>8

LEMMA BaseStep == BaseInv /\ [Next]_vars => BaseInv'
<1> SUFFICES ASSUME BaseInv, [Next]_vars PROVE BaseInv'
  OBVIOUS
<1>1. CASE UNCHANGED vars
  BY <1>1 DEF vars, BaseInv, TypeOK, StackOK, DepsOK, OrderOK, NoReentry, OnStack
<1>2. CASE Stop
  BY <1>1, <1>2 DEF Stop
<1> QED
  BY <1>1, <1>2, CompileNextBase, ReadOperandBase, EndCompileBase, VisitDependencyBase,
     MergeDependencyBase, ReturnBase DEF Next

(***************************************************************************)
(* RankInv is inductive relative to BaseInv.                               *)
(***************************************************************************)
LEMMA CompileNextRank ==
  ASSUME BaseInv, RankInv, CompileNext, Acyclic(program)
  PROVE  Descends' /\ Visited' /\ OrderedAfterReads' /\ OffStack'
<1>0. /\ calls = <<>> /\ index \in Ids
      /\ UNCHANGED <<program, deps, compiled, order>>
      /\ DOMAIN calls = {} /\ Len(calls) = 0 /\ calls \in Seq(Frames)
  BY CountAssumption, EmptySeq DEF CompileNext, BaseInv, TypeOK, Ids
<1>1. OrderedAfterReads /\ OffStack /\ Range(order) \subseteq Ids
  BY RangeOfSeq DEF RankInv, BaseInv, TypeOK
<1>2. CASE compiled[index]
  <2>1. calls' = calls
    BY <1>2 DEF CompileNext, Call
  <2> QED
    BY <1>0, <1>1, <2>1 DEF Descends, Visited, OrderedAfterReads, OffStack, OnStack
<1>3. CASE ~compiled[index]
  <2> DEFINE f == [id |-> index, arg |-> 1, idep |-> 1, imerge |-> 1]
  <2>1. calls' = Append(calls, f) /\ f \in Frames /\ f.id = index
    BY <1>0, <1>3 DEF CompileNext, Call, Frames
  <2> HIDE DEF f
  <2>2. Len(calls') = 1 /\ DOMAIN calls' = {1} /\ calls'[1].id = index
    BY <1>0, <2>1, Push
  <2>3. Descends'
    BY <2>2 DEF Descends
  <2>4. Visited'
    BY <1>0, <1>3, <2>2 DEF Visited
  <2>5. OrderedAfterReads'
    BY <1>0, <1>1 DEF OrderedAfterReads
  <2>6. OffStack'
    BY <1>0, <1>1, <1>3, <2>2 DEF OffStack, OnStack
  <2> QED
    BY <2>3, <2>4, <2>5, <2>6
<1> QED
  BY <1>2, <1>3

LEMMA ReadOperandRank ==
  ASSUME BaseInv, RankInv, ReadOperand, Acyclic(program)
  PROVE  Descends' /\ Visited' /\ OrderedAfterReads' /\ OffStack'
<1> DEFINE x == Top.id
           f == [Top EXCEPT !.arg = @ + 1]
           n == Len(calls)
<1>0. /\ calls # <<>> /\ TypeOK /\ ~compiled[x]
      /\ calls' = [calls EXCEPT ![n] = f]
      /\ UNCHANGED <<program, compiled, order>>
  BY DEF ReadOperand, Compiling, BaseInv
<1>1. n \in Nat \ {0} /\ DOMAIN calls = 1 .. n /\ Top \in Frames /\ x \in Ids /\ calls[n] = Top
  BY <1>0, TopProperties DEF Top
<1>2. f \in Frames /\ f.id = x /\ f.idep = Top.idep
  BY <1>1 DEF Frames
<1> HIDE DEF f
<1>3. /\ Len(calls') = n /\ DOMAIN calls' = DOMAIN calls
      /\ \A i \in DOMAIN calls : calls'[i].id = calls[i].id /\ calls'[i].idep = calls[i].idep
      /\ OnStack' = OnStack
  BY <1>0, <1>1, <1>2, SetTop
<1>4. \A y \in Ids : compiled[y] => deps'[y] = deps[y]
  BY <1>0, <1>1 DEF ReadOperand, TypeOK
<1>5. \A i \in DOMAIN calls : calls[i].id \in Ids
  <2>1. \A i \in 1 .. n : calls[i] \in Frames
    BY <1>0, ElementOfSeq DEF TypeOK
  <2> QED
    BY <1>1, <2>1 DEF Frames
<1>6. Descends'
  BY <1>0, <1>3 DEF Descends, RankInv
<1>7. Visited'
  <2> SUFFICES ASSUME NEW i \in DOMAIN calls, NEW j \in DOMAIN deps'[calls[i].id],
                      compiled[calls[i].id], j < calls[i].idep
               PROVE  \/ deps'[calls[i].id][j] \in Range(order)
                      \/ i < n /\ calls'[i + 1].id = deps'[calls[i].id][j]
    BY <1>0, <1>3 DEF Visited
  <2>1. deps'[calls[i].id] = deps[calls[i].id]
    BY <1>4, <1>5
  <2>2. \/ deps[calls[i].id][j] \in Range(order)
        \/ i < n /\ calls[i + 1].id = deps[calls[i].id][j]
    BY <2>1 DEF Visited, RankInv
  <2>3. i < n => calls'[i + 1].id = calls[i + 1].id
    BY <1>1, <1>3
  <2> QED
    BY <2>1, <2>2, <2>3
<1>8. OrderedAfterReads' /\ OffStack'
  BY <1>0, <1>3 DEF OrderedAfterReads, OffStack, RankInv
<1> QED
  BY <1>6, <1>7, <1>8

LEMMA EndCompileRank ==
  ASSUME BaseInv, RankInv, EndCompile, Acyclic(program)
  PROVE  Descends' /\ Visited' /\ OrderedAfterReads' /\ OffStack'
<1> DEFINE x == Top.id
           n == Len(calls)
<1>0. /\ calls # <<>> /\ TypeOK /\ ~compiled[x]
      /\ compiled' = [compiled EXCEPT ![x] = TRUE]
      /\ UNCHANGED <<program, deps, order, calls>>
  BY DEF EndCompile, Compiling, BaseInv
<1>1. n \in Nat \ {0} /\ DOMAIN calls = 1 .. n /\ x \in Ids /\ calls[n] = Top /\ n \in DOMAIN calls
  BY <1>0, TopProperties DEF Top
<1>2. \A y \in Ids : (y # x => compiled'[y] = compiled[y]) /\ (compiled[y] => compiled'[y])
  BY <1>0, <1>1 DEF TypeOK
<1>3. \A i \in 1 .. n : calls[i] \in Frames
  BY <1>0, ElementOfSeq DEF TypeOK
<1>4. Descends' /\ OrderedAfterReads'
  BY <1>0 DEF Descends, OrderedAfterReads, RankInv
<1>5. Range(order) \subseteq Ids
  BY <1>0, RangeOfSeq DEF TypeOK
<1>6. OffStack'
  BY <1>0, <1>2, <1>5 DEF OffStack, RankInv, OnStack
<1>7. Visited'
  <2> SUFFICES ASSUME NEW i \in DOMAIN calls, NEW j \in DOMAIN deps[calls[i].id],
                      compiled'[calls[i].id], j < calls[i].idep
               PROVE  \/ deps[calls[i].id][j] \in Range(order)
                      \/ i < n /\ calls[i + 1].id = deps[calls[i].id][j]
    BY <1>0 DEF Visited
  <2>1. CASE calls[i].id = x
    <3>1. calls[i].idep = 1
      BY <1>0, <2>1 DEF BaseInv, StackOK
    <3>2. calls[i].id \in Ids
      BY <1>1, <1>3 DEF Frames
    <3>3. deps[calls[i].id] \in Seq(Ids)
      BY <1>0, <3>2 DEF TypeOK
    <3>4. j \in 1 .. Len(deps[calls[i].id])
      BY <3>3, LenProperties
    <3> QED
      BY <3>1, <3>4
  <2>2. CASE calls[i].id # x
    BY <1>1, <1>2, <1>3, <2>2 DEF Visited, RankInv, Frames
  <2> QED
    BY <2>1, <2>2
<1> QED
  BY <1>4, <1>6, <1>7

(***************************************************************************)
(* A dependency of the innermost call is never an outer call: its rank is  *)
(* smaller than theirs.                                                    *)
(***************************************************************************)
LEMMA DependencyOffStack ==
  ASSUME BaseInv, RankInv, Acyclic(program), calls # <<>>,
         NEW d \in Reads(program, Top.id)
  PROVE  d \notin OnStack
<1> DEFINE x == Top.id
           n == Len(calls)
<1>1. n \in Nat \ {0} /\ DOMAIN calls = 1 .. n /\ x \in Ids /\ calls[n] = Top /\ n \in DOMAIN calls
  BY TopProperties DEF BaseInv, Top
<1>2. d \in Ids
  BY <1>1, ReadsProperties DEF BaseInv, TypeOK
<1>3. PICK rank \in [Ids -> Ids] : Ranks(program, rank)
  BY DEF Acyclic
<1>4. rank[d] < rank[x] /\ rank[d] \in Nat /\ rank[x] \in Nat
  BY <1>1, <1>2, <1>3 DEF Ranks, Ids
<1> SUFFICES ASSUME NEW i \in DOMAIN calls, calls[i].id = d PROVE FALSE
  BY DEF OnStack
<1>5. CASE i = n
  BY <1>1, <1>4, <1>5
<1>6. CASE i < n
  <2>1. rank[x] < rank[d]
    BY <1>1, <1>3, <1>6 DEF RankInv, Descends
  <2> QED
    BY <1>4, <2>1
<1> QED
  BY <1>1, <1>5, <1>6

LEMMA VisitDependencyRank ==
  ASSUME BaseInv, RankInv, VisitDependency, Acyclic(program)
  PROVE  Descends' /\ Visited' /\ OrderedAfterReads' /\ OffStack'
<1> DEFINE x == Top.id
           f == [Top EXCEPT !.idep = @ + 1]
           n == Len(calls)
           d == deps[x][Top.idep]
           s == [calls EXCEPT ![n] = f]
           g == [id |-> d, arg |-> 1, idep |-> 1, imerge |-> 1]
<1>0. /\ calls # <<>> /\ TypeOK /\ compiled[x] /\ Top.idep <= Len(deps[x])
      /\ calls' = Call(s, d)
      /\ UNCHANGED <<program, deps, compiled, order>>
  BY DEF VisitDependency, Visiting, BaseInv
<1>1. n \in Nat \ {0} /\ DOMAIN calls = 1 .. n /\ Top \in Frames /\ x \in Ids /\ n \in DOMAIN calls
  BY <1>0, TopProperties
<1>2. f \in Frames /\ f.id = x /\ f.idep = Top.idep + 1 /\ calls[n] = Top
  BY <1>1 DEF Frames, Top
<1>3. calls \in Seq(Frames) /\ n \in 1 .. Len(calls)
  BY <1>0, <1>1 DEF TypeOK
<1> HIDE DEF f
<1>4. /\ s \in Seq(Frames) /\ Len(s) = n /\ DOMAIN s = DOMAIN calls
      /\ \A i \in DOMAIN calls : s[i].id = calls[i].id
      /\ \A i \in DOMAIN calls : i < n => s[i] = calls[i]
      /\ s[n] = f
  <2>1. /\ s \in Seq(Frames) /\ Len(s) = n
        /\ \A i \in 1 .. n : s[i] = IF i = n THEN f ELSE calls[i]
    BY <1>2, <1>3, ExceptSeq
  <2>2. DOMAIN s = DOMAIN calls
    BY <1>1, <2>1, LenProperties
  <2> QED
    BY <1>1, <1>2, <2>1, <2>2
<1>5. Top.idep \in DOMAIN deps[x] /\ Top.idep \in Nat /\ deps[x] \in Seq(Ids) /\ DOMAIN deps[x] \subseteq Nat
  <2>1. Top.idep \in Nat \ {0} /\ deps[x] \in Seq(Ids)
    BY <1>0, <1>1 DEF Frames, TypeOK
  <2>2. Len(deps[x]) \in Nat /\ DOMAIN deps[x] = 1 .. Len(deps[x])
    BY <2>1, LenProperties
  <2> QED
    BY <1>0, <2>1, <2>2
<1>6. d \in Reads(program, x) /\ d \in Ids
  <2>1. d \in Range(deps[x])
    BY <1>5 DEF Range
  <2>2. Range(deps[x]) = Reads(program, x)
    BY <1>0, <1>1 DEF BaseInv, DepsOK
  <2> QED
    BY <1>0, <1>1, <2>1, <2>2, ReadsProperties DEF TypeOK
<1>7. d \notin OnStack
  BY <1>0, <1>6, DependencyOffStack
<1>8. \A i \in DOMAIN calls : \A j \in DOMAIN deps[calls[i].id] :
        compiled[calls[i].id] /\ j < calls[i].idep =>
          \/ deps[calls[i].id][j] \in Range(order)
          \/ i < n /\ calls[i + 1].id = deps[calls[i].id][j]
  BY DEF RankInv, Visited
<1>9. \A j \in DOMAIN deps[x] : j < Top.idep => deps[x][j] \in Range(order)
  BY <1>0, <1>1, <1>2, <1>8
<1>10. \A j \in DOMAIN deps[x] : j < f.idep => deps[x][j] \in Range(order) \/ deps[x][j] = d
  BY <1>2, <1>5, <1>9
<1>11. OrderedAfterReads'
  BY <1>0 DEF OrderedAfterReads, RankInv
<1> HIDE DEF s
<1>12. CASE compiled[d]
  <2>1. calls' = s
    BY <1>0, <1>12 DEF Call
  <2>2. d \in Range(order)
    BY <1>6, <1>7, <1>12 DEF BaseInv, OrderOK
  <2>3. OnStack' = OnStack
    BY <1>4, <2>1 DEF OnStack
  <2>4. Descends'
    BY <1>0, <1>4, <2>1 DEF Descends, RankInv
  <2>5. OffStack'
    BY <1>0, <2>3 DEF OffStack, RankInv
  <2>6. Visited'
    <3> SUFFICES ASSUME NEW i \in DOMAIN calls, NEW j \in DOMAIN deps[calls[i].id],
                        compiled[calls[i].id], j < s[i].idep
                 PROVE  \/ deps[calls[i].id][j] \in Range(order)
                        \/ i < n /\ s[i + 1].id = deps[calls[i].id][j]
      BY <1>0, <1>4, <2>1 DEF Visited
    <3>1. CASE i = n
      <4>1. calls[i].id = x /\ s[i] = f
        BY <1>2, <1>4, <3>1
      <4> QED
        BY <1>10, <2>2, <4>1
    <3>2. CASE i < n
      <4>1. s[i] = calls[i] /\ s[i + 1].id = calls[i + 1].id
        BY <1>1, <1>4, <3>2
      <4> QED
        BY <1>8, <4>1
    <3> QED
      BY <1>1, <3>1, <3>2
  <2> QED
    BY <1>11, <2>4, <2>5, <2>6
<1>13. CASE ~compiled[d]
  <2>1. calls' = Append(s, g) /\ g \in Frames
    BY <1>0, <1>6, <1>13 DEF Call, Frames
  <2>2. g.id = d
    OBVIOUS
  <2> HIDE DEF g, d
  <2>3. /\ Len(calls') = n + 1 /\ DOMAIN calls' = 1 .. n + 1
        /\ \A i \in 1 .. n : calls'[i] = s[i]
        /\ calls'[n + 1] = g
    BY <1>1, <1>4, <2>1, Push
  <2>4. /\ \A i \in 1 .. n : calls'[i].id = calls[i].id
        /\ calls'[n + 1].id = d
    BY <1>1, <1>4, <2>2, <2>3
  <2>5. OnStack' = OnStack \cup {d}
    BY <1>1, <2>3, <2>4 DEF OnStack
  <2>6. OffStack'
    BY <1>0, <1>13, <2>5 DEF OffStack, RankInv
  <2>7. Descends'
    <3> SUFFICES ASSUME NEW rank \in [Ids -> Ids], Ranks(program, rank),
                        NEW i \in 1 .. n + 1, NEW j \in 1 .. n + 1, i < j
                 PROVE  rank[calls'[j].id] < rank[calls'[i].id]
      BY <1>0, <2>3 DEF Descends
    <3>1. \A a, b \in 1 .. n : a < b => rank[calls[b].id] < rank[calls[a].id]
      BY <1>1 DEF Descends, RankInv
    <3>2. CASE j <= n
      BY <1>1, <2>4, <3>1, <3>2
    <3>3. CASE j = n + 1
      <4>1. rank[d] < rank[x] /\ rank[d] \in Nat /\ rank[x] \in Nat
        BY <1>1, <1>6 DEF Ranks, Ids
      <4>2. i \in 1 .. n /\ calls[i].id \in Ids
        <5>1. i \in 1 .. n
          BY <1>1, <3>3
        <5>2. calls[i] \in Frames
          BY <1>3, <5>1, ElementOfSeq
        <5> QED
          BY <5>1, <5>2 DEF Frames
      <4>3. rank[calls[i].id] \in Nat
        BY <4>2 DEF Ids
      <4>4. i = n \/ rank[x] < rank[calls[i].id]
        <5>1. CASE i < n
          <6>1. rank[calls[n].id] < rank[calls[i].id]
            BY <1>1, <3>1, <4>2, <5>1
          <6> QED
            BY <1>2, <6>1
        <5>2. n \in Nat /\ i \in 1 .. n
          BY <1>1, <4>2
        <5>3. i < n \/ i = n
          <6> HIDE DEF n
          <6> QED
            BY <5>2
        <5> QED
          BY <5>1, <5>3
      <4>5. rank[d] < rank[calls[i].id]
        BY <1>2, <4>1, <4>3, <4>4
      <4> QED
        BY <2>4, <3>3, <4>2, <4>5
    <3> QED
      BY <1>1, <3>2, <3>3
  <2>8. Visited'
    <3> SUFFICES ASSUME NEW i \in 1 .. n + 1, NEW j \in DOMAIN deps[calls'[i].id],
                        compiled[calls'[i].id], j < calls'[i].idep
                 PROVE  \/ deps[calls'[i].id][j] \in Range(order)
                        \/ i < n + 1 /\ calls'[i + 1].id = deps[calls'[i].id][j]
      BY <1>0, <2>3 DEF Visited
    <3>1. i # n + 1
      BY <1>13, <2>4
    <3>2. CASE i = n
      <4>1. calls'[i].id = x /\ calls'[i] = f /\ calls'[i + 1].id = d
        BY <1>1, <1>2, <1>4, <2>3, <2>4, <3>2
      <4> QED
        BY <1>1, <1>10, <3>2, <4>1
    <3>3. CASE i < n
      <4>1. i \in 1 .. n /\ i + 1 \in 1 .. n
        BY <1>1, <3>3
      <4>2. calls'[i] = calls[i] /\ calls'[i + 1].id = calls[i + 1].id
        BY <1>1, <1>4, <2>3, <2>4, <3>3, <4>1
      <4> QED
        BY <1>1, <1>8, <3>3, <4>1, <4>2
    <3> QED
      BY <1>1, <3>1, <3>2, <3>3
  <2> QED
    BY <1>11, <2>6, <2>7, <2>8
<1> QED
  BY <1>12, <1>13

LEMMA MergeDependencyRank ==
  ASSUME BaseInv, RankInv, MergeDependency, Acyclic(program)
  PROVE  Descends' /\ Visited' /\ OrderedAfterReads' /\ OffStack'
<1> DEFINE x == Top.id
           f == [Top EXCEPT !.imerge = @ + 1]
           n == Len(calls)
           d == deps[x][Top.imerge]
<1>0. /\ calls # <<>> /\ TypeOK /\ compiled[x] /\ Top.imerge <= Len(deps[x])
      /\ Top.idep > Len(deps[x])
      /\ calls' = [calls EXCEPT ![n] = f]
      /\ order' = Add(order, d)
      /\ UNCHANGED <<program, deps, compiled>>
  BY DEF MergeDependency, Visiting, BaseInv
<1>1. n \in Nat \ {0} /\ DOMAIN calls = 1 .. n /\ Top \in Frames /\ x \in Ids /\ calls[n] = Top /\ n \in DOMAIN calls
  BY <1>0, TopProperties DEF Top
<1>2. f \in Frames /\ f.id = x /\ f.idep = Top.idep
  BY <1>1 DEF Frames
<1> HIDE DEF f
<1>3. /\ Len(calls') = n /\ DOMAIN calls' = DOMAIN calls
      /\ \A i \in DOMAIN calls : calls'[i].id = calls[i].id /\ calls'[i].idep = calls[i].idep
      /\ OnStack' = OnStack
  BY <1>0, <1>1, <1>2, SetTop
<1>4. order' = order
  <2>1. /\ Top.imerge \in Nat \ {0} /\ Top.idep \in Nat /\ deps[x] \in Seq(Ids)
    BY <1>0, <1>1 DEF Frames, TypeOK
  <2>2. Len(deps[x]) \in Nat /\ DOMAIN deps[x] = 1 .. Len(deps[x])
    BY <2>1, LenProperties
  <2>3. Top.imerge \in DOMAIN deps[x] /\ Top.imerge < Top.idep
    BY <1>0, <2>1, <2>2
  <2>4. d \in Range(order)
    BY <1>0, <1>1, <2>3 DEF RankInv, Visited
  <2> QED
    BY <1>0, <2>4 DEF Add
<1>5. Visited'
  <2>1. \A i \in DOMAIN calls : i < n => calls'[i + 1].id = calls[i + 1].id
    BY <1>1, <1>3
  <2> QED
    BY <1>0, <1>3, <1>4, <2>1 DEF Visited, RankInv
<1> QED
  BY <1>0, <1>3, <1>4, <1>5 DEF Descends, OrderedAfterReads, OffStack, RankInv

LEMMA ReturnRank ==
  ASSUME BaseInv, RankInv, Return, Acyclic(program)
  PROVE  Descends' /\ Visited' /\ OrderedAfterReads' /\ OffStack'
<1> DEFINE x == Top.id
           n == Len(calls)
<1>0. /\ calls # <<>> /\ TypeOK /\ compiled[x]
      /\ Top.idep > Len(deps[x])
      /\ calls' = SubSeq(calls, 1, n - 1)
      /\ order' = Add(order, x)
      /\ UNCHANGED <<program, deps, compiled>>
  BY DEF Return, Visiting, BaseInv
<1>1. n \in Nat \ {0} /\ DOMAIN calls = 1 .. n /\ Top \in Frames /\ x \in Ids /\ calls[n] = Top /\ n \in DOMAIN calls
  BY <1>0, TopProperties DEF Top
<1>2. /\ Len(calls') = n - 1
      /\ DOMAIN calls' = 1 .. n - 1
      /\ \A i \in DOMAIN calls' : i \in DOMAIN calls /\ calls'[i] = calls[i]
      /\ OnStack' \subseteq OnStack
  BY <1>0, Pop
<1>3. order \in Seq(Ids)
  BY <1>0 DEF TypeOK
<1>4. Range(order') = Range(order) \cup {x}
  BY <1>0, <1>1, <1>3, AddProperties
<1>5. x \notin OnStack'
  <2>1. \A i \in 1 .. n - 1 : calls[i].id # x
    BY <1>1 DEF BaseInv, NoReentry
  <2> QED
    BY <1>2, <2>1 DEF OnStack
<1>6. OffStack'
  BY <1>0, <1>2, <1>4, <1>5 DEF OffStack, RankInv
<1>7. Descends'
  BY <1>0, <1>2 DEF Descends, RankInv
<1>8. Visited'
  <2> SUFFICES ASSUME NEW i \in 1 .. n - 1, NEW j \in DOMAIN deps[calls[i].id],
                      compiled[calls[i].id], j < calls[i].idep
               PROVE  \/ deps[calls[i].id][j] \in Range(order')
                      \/ i < n - 1 /\ calls'[i + 1].id = deps[calls[i].id][j]
    <3>1. /\ deps' = deps /\ compiled' = compiled
          /\ \A i \in DOMAIN calls' : i \in 1 .. n - 1 /\ calls'[i] = calls[i]
      BY <1>0, <1>2
    <3> QED
      BY <1>2, <3>1 DEF Visited
  <2>1. \/ deps[calls[i].id][j] \in Range(order)
        \/ i < n /\ calls[i + 1].id = deps[calls[i].id][j]
    BY <1>1 DEF Visited, RankInv
  <2>2. CASE i = n - 1
    BY <1>1, <1>4, <2>1, <2>2
  <2>3. CASE i < n - 1
    <3>1. i + 1 \in DOMAIN calls' /\ calls'[i + 1] = calls[i + 1]
      BY <1>1, <1>2, <2>3
    <3> QED
      BY <1>4, <2>1, <2>3, <3>1
  <2>4. i = n - 1 \/ i < n - 1
    BY <1>1
  <2> QED
    BY <2>2, <2>3, <2>4
<1>9. OrderedAfterReads'
  <2>1. x \notin Range(order)
    BY <1>1 DEF RankInv, OffStack, OnStack
  <2>2. /\ order' = Append(order, x) /\ Len(order) \in Nat
        /\ DOMAIN order = 1 .. Len(order) /\ DOMAIN order' = 1 .. Len(order) + 1
        /\ \A k \in 1 .. Len(order) : order'[k] = order[k]
        /\ order'[Len(order) + 1] = x
    <3>1. order' = Append(order, x)
      BY <1>0, <2>1 DEF Add
    <3> HIDE DEF x
    <3> QED
      BY <1>1, <1>3, <3>1, AppendProperties, LenProperties
  <2>3. \A y \in Reads(program, x) : y \in Range(order)
    <3>1. deps[x] \in Seq(Ids) /\ Range(deps[x]) = Reads(program, x) /\ Top.idep \in Nat
      BY <1>0, <1>1 DEF BaseInv, DepsOK, TypeOK, Frames
    <3>2. Len(deps[x]) \in Nat /\ DOMAIN deps[x] = 1 .. Len(deps[x])
      BY <3>1, LenProperties
    <3>3. \A j \in DOMAIN deps[x] : j < Top.idep
      BY <1>0, <3>1, <3>2
    <3>4. \A j \in DOMAIN deps[x] : deps[x][j] \in Range(order)
      BY <1>0, <1>1, <3>3 DEF RankInv, Visited
    <3> QED
      BY <3>1, <3>4 DEF Range
  <2> SUFFICES ASSUME NEW k \in 1 .. Len(order) + 1, NEW y \in Reads(program, order'[k])
               PROVE  \E j \in 1 .. k - 1 : order'[j] = y
    BY <1>0, <2>2 DEF OrderedAfterReads
  <2>4. CASE k = Len(order) + 1
    <3>1. y \in Range(order)
      BY <2>2, <2>3, <2>4
    <3> QED
      BY <2>2, <2>4, <3>1 DEF Range
  <2>5. CASE k \in 1 .. Len(order)
    <3>1. \E j \in 1 .. k - 1 : order[j] = y
      BY <2>2, <2>5 DEF OrderedAfterReads, RankInv
    <3> QED
      BY <2>2, <2>5, <3>1
  <2> QED
    BY <2>2, <2>4, <2>5
<1> QED
  BY <1>6, <1>7, <1>8, <1>9

LEMMA RankStep == BaseInv /\ RankInv /\ [Next]_vars => RankInv'
<1> SUFFICES ASSUME BaseInv, RankInv, [Next]_vars, Acyclic(program')
             PROVE  Descends' /\ Visited' /\ OrderedAfterReads' /\ OffStack'
  BY DEF RankInv, Acyclic, Ranks
<1>1. program' = program
  BY DEF Next, vars, CompileNext, ReadOperand, EndCompile, VisitDependency, MergeDependency,
         Return, Stop
<1>2. Acyclic(program)
  BY <1>1
<1>3. CASE UNCHANGED vars
  BY <1>2, <1>3 DEF vars, RankInv, Descends, Visited, OrderedAfterReads, OffStack, OnStack
<1>4. CASE Stop
  BY <1>3, <1>4 DEF Stop
<1> QED
  BY <1>2, <1>3, <1>4, CompileNextRank, ReadOperandRank, EndCompileRank, VisitDependencyRank,
     MergeDependencyRank, ReturnRank DEF Next
-----------------------------------------------------------------------------
(***************************************************************************)
(* AcceptInv is inductive relative to BaseInv.  All steps but ReadOperand  *)
(* leave alone which operands the frames have read.                        *)
(***************************************************************************)
LEMMA FramesKept ==
  ASSUME BaseInv, CompileNext \/ EndCompile \/ VisitDependency \/ MergeDependency \/ Return,
         NEW i \in DOMAIN calls'
  PROVE  \/ calls'[i].arg = 1 /\ calls'[i].id \in Ids
         \/ i \in DOMAIN calls /\ calls'[i].id = calls[i].id /\ calls'[i].arg = calls[i].arg
<1> USE DEF BaseInv
<1> DEFINE n == Len(calls)
           x == Top.id
<1>1. CASE CompileNext
  <2> DEFINE f == [id |-> index, arg |-> 1, idep |-> 1, imerge |-> 1]
  <2>1. calls = <<>> /\ index \in Ids /\ f \in Frames /\ calls \in Seq(Frames) /\ f.id = index /\ f.arg = 1
    BY <1>1, CountAssumption DEF CompileNext, TypeOK, Ids, Frames
  <2>2. calls' = Append(calls, f) \/ calls' = calls
    BY <1>1 DEF CompileNext, Call
  <2> HIDE DEF f
  <2>3. Len(calls) = 0
    BY <2>1, EmptySeq
  <2> QED
    BY <2>1, <2>2, <2>3, Push
<1>2. CASE EndCompile
  BY <1>2 DEF EndCompile
<1>3. CASE Return
  <2>1. calls # <<>> /\ calls' = SubSeq(calls, 1, n - 1)
    BY <1>3 DEF Return, Visiting
  <2> QED
    BY <2>1, Pop
<1>4. CASE MergeDependency
  <2> DEFINE f == [Top EXCEPT !.imerge = @ + 1]
  <2>1. calls # <<>> /\ calls' = [calls EXCEPT ![n] = f]
    BY <1>4 DEF MergeDependency, Visiting
  <2>2. Top \in Frames /\ calls[n] = Top
    BY <2>1, TopProperties DEF Top
  <2>3. f \in Frames /\ f.id = Top.id /\ f.arg = Top.arg
    BY <2>2 DEF Frames
  <2> HIDE DEF f
  <2> QED
    BY <2>1, <2>2, <2>3, SetTop
<1>5. CASE VisitDependency
  <2> DEFINE f == [Top EXCEPT !.idep = @ + 1]
             d == deps[x][Top.idep]
             s == [calls EXCEPT ![n] = f]
             g == [id |-> d, arg |-> 1, idep |-> 1, imerge |-> 1]
  <2>1. calls # <<>> /\ calls' = Call(s, d) /\ Top.idep <= Len(deps[x])
    BY <1>5 DEF VisitDependency, Visiting
  <2>2. Top \in Frames /\ calls[n] = Top /\ n \in 1 .. n /\ x \in Ids /\ DOMAIN calls = 1 .. n
    BY <2>1, TopProperties DEF Top
  <2>3. f \in Frames /\ f.id = Top.id /\ f.arg = Top.arg
    BY <2>2 DEF Frames
  <2>4. d \in Ids
    <3>1. Top.idep \in Nat \ {0} /\ deps[x] \in Seq(Ids)
      BY <2>2 DEF Frames, TypeOK
    <3>2. Len(deps[x]) \in Nat /\ Top.idep \in 1 .. Len(deps[x])
      BY <2>1, <3>1, LenProperties
    <3> QED
      BY <3>1, <3>2, ElementOfSeq
  <2>5. g \in Frames /\ g.id = d /\ g.arg = 1
    BY <2>4 DEF Frames
  <2>6. calls' = s \/ calls' = Append(s, g)
    BY <2>1 DEF Call
  <2> HIDE DEF f, d, g
  <2>7. /\ s \in Seq(Frames) /\ Len(s) = n
        /\ \A j \in 1 .. n : s[j] = IF j = n THEN f ELSE calls[j]
    BY <2>2, <2>3, ExceptSeq DEF TypeOK
  <2> HIDE DEF s
  <2>8. DOMAIN s = 1 .. n
    BY <2>7, LenProperties
  <2>9. CASE calls' = s
    BY <2>2, <2>3, <2>7, <2>8, <2>9
  <2>10. CASE calls' = Append(s, g)
    <3>1. /\ DOMAIN Append(s, g) = 1 .. n + 1 /\ n \in Nat
          /\ \A j \in 1 .. n : Append(s, g)[j] = s[j]
          /\ Append(s, g)[n + 1] = g
      BY <2>5, <2>7, Push
    <3>2. (i \in 1 .. n /\ calls'[i] = s[i]) \/ calls'[i] = g
      BY <2>10, <3>1
    <3> QED
      BY <2>2, <2>3, <2>4, <2>5, <2>7, <3>2
  <2> QED
    BY <2>6, <2>9, <2>10
<1> QED
  BY <1>1, <1>2, <1>3, <1>4, <1>5

LEMMA AcceptStep == BaseInv /\ AcceptInv /\ [Next]_vars => AcceptInv'
<1> SUFFICES ASSUME BaseInv, AcceptInv, [Next]_vars PROVE AcceptInv'
  OBVIOUS
<1>1. CASE UNCHANGED vars \/ Stop
  BY <1>1 DEF Stop, vars, AcceptInv, Allowed
<1>2. CASE ReadOperand
  <2> DEFINE x == Top.id
             n == Len(calls)
             f == [Top EXCEPT !.arg = @ + 1]
  <2>1. /\ outcome = "running" /\ calls # <<>> /\ ~compiled[x] /\ Top.arg <= Len(program[x].args)
        /\ calls' = [calls EXCEPT ![n] = f] /\ UNCHANGED <<program, compiled>>
        /\ outcome' = IF NotAllowed(program[x], Operand) THEN "rejected" ELSE outcome
    BY <1>2 DEF ReadOperand, Compiling, Top
  <2>2. TypeOK /\ Top \in Frames /\ calls[n] = Top /\ n \in DOMAIN calls /\ x \in Ids
    BY <2>1, TopProperties DEF Top, BaseInv
  <2>3. Top.arg \in Nat \ {0} /\ f \in Frames /\ f.id = x /\ f.arg = Top.arg + 1
    BY <2>2 DEF Frames
  <2>4. Operand = program[x].args[Top.arg] /\ Top.arg \in DOMAIN program[x].args
    BY <2>1, <2>2, <2>3, ReadsProperties DEF Operand, TypeOK
  <2> HIDE DEF f
  <2>5. /\ DOMAIN calls' = DOMAIN calls
        /\ \A i \in DOMAIN calls : calls'[i] = IF i = n THEN f ELSE calls[i]
    BY <2>1, <2>2, <2>3, SetTop
  <2>6. CASE NotAllowed(program[x], Operand)
    BY <2>1, <2>2, <2>4, <2>6 DEF AcceptInv, Allowed
  <2>7. CASE ~NotAllowed(program[x], Operand)
    <3>1. /\ outcome' = "running" /\ Allowed(x, Top.arg)
      BY <2>1, <2>4, <2>7 DEF Allowed
    <3>2. ASSUME NEW k \in DOMAIN program[x].args, k < Top.arg + 1 PROVE Allowed(x, k)
      <4>1. k \in Nat
        BY <2>2, ReadsProperties DEF TypeOK
      <4>2. k = Top.arg \/ k < Top.arg
        BY <2>3, <3>2, <4>1
      <4> QED
        BY <2>1, <2>2, <3>1, <4>2 DEF AcceptInv
    <3>3. ASSUME NEW i \in DOMAIN calls', ~compiled[calls'[i].id],
                 NEW k \in DOMAIN program[calls'[i].id].args, k < calls'[i].arg
          PROVE  Allowed(calls'[i].id, k)
      BY <2>1, <2>3, <2>5, <3>2, <3>3 DEF AcceptInv
    <3> QED
      BY <2>1, <3>1, <3>3 DEF AcceptInv, Allowed
  <2> QED
    BY <2>6, <2>7
<1>3. CASE CompileNext \/ EndCompile \/ VisitDependency \/ MergeDependency \/ Return
  <2>1. outcome = "running" /\ UNCHANGED <<program, outcome>>
    BY <1>3 DEF CompileNext, EndCompile, Compiling, VisitDependency, MergeDependency, Return, Visiting
  <2>2. \A x \in Ids : compiled[x] => compiled'[x]
    BY <1>3 DEF CompileNext, EndCompile, VisitDependency, MergeDependency, Return, BaseInv, TypeOK
  <2>3. ASSUME NEW x \in Ids, compiled'[x], NEW k \in DOMAIN program[x].args PROVE Allowed(x, k)
    <3>1. CASE compiled[x]
      BY <2>1, <3>1 DEF AcceptInv
    <3>2. CASE ~compiled[x]
      <4>1. EndCompile /\ x = Top.id
        BY <1>3, <2>3, <3>2 DEF CompileNext, EndCompile, VisitDependency, MergeDependency, Return,
           BaseInv, TypeOK
      <4>2. calls # <<>> /\ Top.arg > Len(program[x].args)
        BY <4>1 DEF EndCompile, Compiling
      <4>3. Top \in Frames /\ Len(calls) \in DOMAIN calls /\ calls[Len(calls)] = Top
        BY <4>2, TopProperties DEF Top, BaseInv
      <4>4. Top.arg \in Nat /\ k \in 1 .. Len(program[x].args) /\ Len(program[x].args) \in Nat
        BY <4>3, ReadsProperties DEF Frames, BaseInv, TypeOK
      <4>5. k < Top.arg
        BY <4>2, <4>4
      <4> QED
        BY <2>1, <3>2, <4>1, <4>3, <4>5 DEF AcceptInv
    <3> QED
      BY <3>1, <3>2
  <2>4. ASSUME NEW i \in DOMAIN calls', ~compiled'[calls'[i].id],
               NEW k \in DOMAIN program[calls'[i].id].args, k < calls'[i].arg
        PROVE  Allowed(calls'[i].id, k)
    <3>1. CASE calls'[i].arg = 1 /\ calls'[i].id \in Ids
      <4>1. k \in Nat \ {0}
        BY <3>1, ReadsProperties DEF BaseInv, TypeOK
      <4> QED
        BY <2>4, <3>1, <4>1
    <3>2. CASE i \in DOMAIN calls /\ calls'[i].id = calls[i].id /\ calls'[i].arg = calls[i].arg
      <4>1. calls[i].id \in Ids
        <5>1. calls \in Seq(Frames) /\ i \in 1 .. Len(calls)
          BY <3>2, LenProperties DEF BaseInv, TypeOK
        <5>2. calls[i] \in Frames
          BY <5>1, ElementOfSeq
        <5> QED
          BY <5>2 DEF Frames
      <4> QED
        BY <2>1, <2>2, <2>4, <3>2, <4>1 DEF AcceptInv
    <3> QED
      BY <1>3, <3>1, <3>2, FramesKept
  <2> QED
    BY <2>1, <2>3, <2>4 DEF AcceptInv, Allowed
<1> QED
  BY <1>1, <1>2, <1>3 DEF Next

(***************************************************************************)
(* What the program is when everything has been compiled.                  *)
(***************************************************************************)
LEMMA LoadedFacts ==
  ASSUME BaseInv, AcceptInv, Loaded
  PROVE  /\ \A x \in Ids : Range(deps[x]) = Reads(program, x)
         /\ \A x \in Ids : \A k \in DOMAIN program[x].args : Allowed(x, k)
<1>1. OnStack = {} /\ index = Count /\ outcome = "running"
  BY DEF Loaded, OnStack
<1>2. \A x \in Ids : x < index
  BY <1>1, CountAssumption DEF Ids
<1>3. \A x \in Ids : compiled[x]
  BY <1>1, <1>2 DEF BaseInv, OrderOK
<1> QED
  BY <1>1, <1>3 DEF BaseInv, DepsOK, AcceptInv

(***************************************************************************)
(* What the invariants say of the order.                                   *)
(***************************************************************************)
LEMMA TopologicalFacts == RankInv => Topological
  BY DEF RankInv, OrderedAfterReads, Topological

LEMMA CompleteFacts == BaseInv => OrderComplete
<1> SUFFICES ASSUME BaseInv, Loaded PROVE Range(order) = Ids
  BY DEF OrderComplete, BaseInv, OrderOK
<1>1. Range(order) \subseteq Ids
  BY RangeOfSeq DEF BaseInv, TypeOK
<1>2. OnStack = {} /\ index = Count
  BY DEF Loaded, OnStack
<1>3. \A x \in Ids : x < index
  BY <1>2, CountAssumption DEF Ids
<1>4. \A x \in Ids : x \in Range(order)
  BY <1>2, <1>3 DEF BaseInv, OrderOK
<1> QED
  BY <1>1, <1>4
-----------------------------------------------------------------------------
(***************************************************************************)
(* The invariants hold of every program and every number of expressions.   *)
(***************************************************************************)
LEMMA InvStep ==
  BaseInv /\ RankInv /\ AcceptInv /\ [Next]_vars => (BaseInv /\ RankInv /\ AcceptInv)'
  BY BaseStep, RankStep, AcceptStep

LEMMA Invariants == Spec => [](BaseInv /\ RankInv /\ AcceptInv)
  BY InvStep, InitInv, PTL DEF Spec

(***************************************************************************)
(* Type correctness of loadAndCompile, for every set of programs.          *)
(***************************************************************************)
THEOREM TypeCorrect == Spec => []TypeOK
<1>1. BaseInv => TypeOK
  BY DEF BaseInv
<1> QED
  BY <1>1, Invariants, PTL

(***************************************************************************)
(* Expressions::dependencies lists every expression after the expressions  *)
(* it reads: what evalAll needs, whatever the order of ids in the file.    *)
(***************************************************************************)
THEOREM OrderIsTopological == Spec => []Topological
  BY TopologicalFacts, Invariants, PTL

(***************************************************************************)
(* Once loaded, the order holds every expression exactly once.             *)
(***************************************************************************)
THEOREM OrderIsComplete == Spec => []OrderComplete
  BY CompleteFacts, Invariants, PTL

(***************************************************************************)
(* No expression is compiled inside its own compilation: the recursion of  *)
(* compileExpression is at most Count deep, on cyclic programs too.        *)
(***************************************************************************)
THEOREM RecursionIsGuarded == Spec => []NoReentry
<1>1. BaseInv => NoReentry
  BY DEF BaseInv
<1> QED
  BY <1>1, Invariants, PTL

(***************************************************************************)
(* loadAndCompile throws exactly if an alias is of the next row of an      *)
(* expression: none of them is missed, and no other operand is refused.    *)
(***************************************************************************)
THEOREM RejectionIsExact == Spec => []RejectionExact
<1> DEFINE Refused == \E x \in Ids : \E k \in DOMAIN program[x].args : ~Allowed(x, k)
<1>1. BaseInv /\ AcceptInv => (Finished => (outcome = "rejected" <=> Refused))
  <2> SUFFICES ASSUME BaseInv, AcceptInv, Finished PROVE outcome = "rejected" <=> Refused
    OBVIOUS
  <2>1. CASE Loaded
    BY <2>1, LoadedFacts DEF Loaded
  <2>2. CASE outcome = "rejected"
    BY <2>2 DEF AcceptInv
  <2> QED
    BY <2>1, <2>2 DEF Finished
<1>2. Refused <=> \E x \in Ids : \E k \in DOMAIN program[x].args :
        program[x].alias /\ IsExp(program[x].args[k]) /\ program[x].args[k].next = 1
  <2>1. \A x, k : ~Allowed(x, k) <=>
          program[x].alias /\ IsExp(program[x].args[k]) /\ program[x].args[k].next = 1
    BY DEF Allowed, NotAllowed
  <2> QED
    BY <2>1
<1> HIDE DEF Refused
<1>3. BaseInv /\ AcceptInv => RejectionExact
  BY <1>1, <1>2, Zenon DEF RejectionExact
<1> QED
  BY <1>3, Invariants, PTL
=============================================================================
