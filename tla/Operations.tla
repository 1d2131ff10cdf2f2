----------------------------- MODULE Operations -----------------------------
(***************************************************************************)
(* Inside one expression that is not an alias: Expression::compile turns   *)
(* the tree of the JSON program into the vector `operations`, whose        *)
(* elements name each other by index, and Expression::eval computes the    *)
(* vector from back to front, row by row.  (Other modules take an          *)
(* expression as the sequence of its leaves and an operator on their       *)
(* values: this module is the reason why they may.)                        *)
(*                                                                         *)
(* recursiveCompile is recursive; its call stack is the variable calls.    *)
(***************************************************************************)
EXTENDS Integers, Sequences, SequencesExt

CONSTANTS
  Nodes,      \* the JSON nodes; a leaf has the op "leaf"
  Height(_),  \* the height of the tree below a node
  Trees,      \* the nodes that are compiled
  RowCount,   \* number of rows
  Leaf,       \* Leaf[id][r]: the value of leaf id at row r
  IsExpLeaf,  \* IsExpLeaf[id]: leaf id is another expression
  Prime       \* the field is the integers modulo Prime

Arity(op) == IF op = "neg" THEN 1 ELSE 2

ASSUME OperationsAssumption ==
  /\ RowCount \in Nat \ {0} /\ Prime \in Nat \ {0}
  /\ \A id \in DOMAIN Leaf : IsExpLeaf[id] \in BOOLEAN /\ Leaf[id] \in [0 .. RowCount - 1 -> 0 .. Prime - 1]
  /\ Trees \subseteq { t \in Nodes : t.op # "leaf" }
  /\ \A t \in Nodes : Height(t) \in Nat
  /\ \A t \in Nodes :
       \/ t.op = "leaf" /\ t.id \in DOMAIN Leaf
       \/ /\ t.op \in {"add", "addc", "sub", "mul", "mulc", "neg"}
          /\ \A v \in 1 .. Arity(t.op) : t.values[v] \in Nodes /\ Height(t.values[v]) < Height(t)

VARIABLES
  tree,          \* the node that is compiled
  operations,    \* Expression::operations, from index 1
  dependencies,  \* Expression::dependencies
  frames,        \* frames of the active recursiveCompile calls
  isCompiled,
  evalRow,       \* the row that is evaluated
  opIndex,       \* the loop variable of eval
  stillZero,     \* Expression::isZero
  evaluation     \* what eval returned for each row so far

operationsVars == <<tree, operations, dependencies, frames, isCompiled, evalRow, opIndex, stillZero, evaluation>>

(***************************************************************************)
(* getFreeId: a new operation at the end.  Its values are set later.       *)
(***************************************************************************)
Unset == [type |-> "NONE", id |-> 0]
EmptyOperation == [op |-> "NONE", values |-> <<Unset, Unset>>, result |-> 0]

(***************************************************************************)
(* A call recursiveCompile(node, destination, opType): it has set op and   *)
(* goes through the values.                                                *)
(***************************************************************************)
Frame(node, destination) == [node |-> node, destination |-> destination, value |-> 1]
Called(ops, node, destination) == [ops EXCEPT ![destination].op = node.op]

OperationsInit ==
  /\ tree \in Trees
  /\ operations = Called(<<EmptyOperation>>, tree, 1)
  /\ dependencies = <<>>
  /\ frames = <<Frame(tree, 1)>>
  /\ isCompiled = FALSE
  /\ evalRow = 0 /\ opIndex = 0
  /\ stillZero = TRUE
  /\ evaluation = <<>>
-----------------------------------------------------------------------------
Top == frames[Len(frames)]
HasValue == frames # <<>> /\ Top.value <= Arity(Top.node.op)
Value == Top.node.values[Top.value]
Advanced == [frames EXCEPT ![Len(frames)].value = @ + 1]

\* A seeded fault of SetValue: always the first value.
SetFirst(v) == [operations EXCEPT ![Top.destination].values[1] = v]

SetValue(v) == [operations EXCEPT ![Top.destination].values[Top.value] = v]

(***************************************************************************)
(* A value that is an operation gets a free index and is compiled there    *)
(* before the next value.                                                  *)
(***************************************************************************)
CompileOperation ==
  /\ HasValue /\ Value.op # "leaf"
  /\ LET free == Len(operations) + 1
     IN /\ operations' = Called(Append(SetValue([type |-> "OP", id |-> free]), EmptyOperation),
                                Value, free)
        /\ frames' = Append(Advanced, Frame(Value, free))
  /\ UNCHANGED <<tree, dependencies, isCompiled, evalRow, opIndex, stillZero, evaluation>>

\* A seeded fault of CompileLeaf: a dependency is added twice.
CompileLeafAgain ==
  /\ HasValue /\ Value.op = "leaf"
  /\ operations' = SetValue([type |-> "LEAF", id |-> Value.id])
  /\ dependencies' = IF IsExpLeaf[Value.id] THEN Append(dependencies, Value.id) ELSE dependencies
  /\ frames' = Advanced
  /\ UNCHANGED <<tree, isCompiled, evalRow, opIndex, stillZero, evaluation>>

(***************************************************************************)
(* A leaf is stored, and another expression added to the dependencies.     *)
(***************************************************************************)
CompileLeaf ==
  /\ HasValue /\ Value.op = "leaf"
  /\ operations' = SetValue([type |-> "LEAF", id |-> Value.id])
  /\ dependencies' = IF IsExpLeaf[Value.id] /\ Value.id \notin ToSet(dependencies)
                     THEN Append(dependencies, Value.id) ELSE dependencies
  /\ frames' = Advanced
  /\ UNCHANGED <<tree, isCompiled, evalRow, opIndex, stillZero, evaluation>>

Return ==
  /\ frames # <<>> /\ ~HasValue
  /\ frames' = Front(frames)
  /\ isCompiled' = (Len(frames) = 1)
  /\ opIndex' = IF Len(frames) = 1 THEN Len(operations) ELSE opIndex
  /\ UNCHANGED <<tree, operations, dependencies, evalRow, stillZero, evaluation>>
-----------------------------------------------------------------------------
\* A seeded fault of Apply: a difference is not reduced.
ApplyUnreduced(op, a, b) ==
  CASE op \in {"add", "addc"} -> (a + b) % Prime
    [] op = "sub" -> a - b
    [] op \in {"mul", "mulc"} -> (a * b) % Prime
    [] op = "neg" -> (-a) % Prime

(***************************************************************************)
(* The arithmetic of the field.                                            *)
(***************************************************************************)
Apply(op, a, b) ==
  CASE op \in {"add", "addc"} -> (a + b) % Prime
    [] op = "sub" -> (a - b) % Prime
    [] op \in {"mul", "mulc"} -> (a * b) % Prime
    [] op = "neg" -> (-a) % Prime

(***************************************************************************)
(* A value of an operation: the result of another operation, as it is in   *)
(* the vector, or a leaf at row w.  NEG has no second value.               *)
(***************************************************************************)
ValueOf(k, v) ==
  LET o == operations[k].values[v]
  IN IF v > Arity(operations[k].op) THEN 0
     ELSE IF o.type = "OP" THEN operations[o.id].result ELSE Leaf[o.id][evalRow]

(***************************************************************************)
(* eval(w), one turn of its loop.                                          *)
(***************************************************************************)
EvalOperation ==
  /\ isCompiled /\ evalRow < RowCount /\ opIndex > 0
  /\ operations' = [operations EXCEPT ![opIndex].result =
                      Apply(operations[opIndex].op, ValueOf(opIndex, 1), ValueOf(opIndex, 2))]
  /\ opIndex' = opIndex - 1
  /\ UNCHANGED <<tree, dependencies, frames, isCompiled, evalRow, stillZero, evaluation>>

\* A seeded fault of EndRow: the last operation is left out of the next row.
EndRowShort ==
  /\ isCompiled /\ evalRow < RowCount /\ opIndex = 0
  /\ stillZero' = (stillZero /\ operations[1].result = 0)
  /\ evaluation' = Append(evaluation, operations[1].result)
  /\ evalRow' = evalRow + 1
  /\ opIndex' = Len(operations) - 1
  /\ UNCHANGED <<tree, operations, dependencies, frames, isCompiled>>

(***************************************************************************)
(* eval returns the result of the first operation; the caller goes on with *)
(* the next row, and the results stay in the vector.                       *)
(***************************************************************************)
EndRow ==
  /\ isCompiled /\ evalRow < RowCount /\ opIndex = 0
  /\ stillZero' = (stillZero /\ operations[1].result = 0)
  /\ evaluation' = Append(evaluation, operations[1].result)
  /\ evalRow' = evalRow + 1
  /\ opIndex' = Len(operations)
  /\ UNCHANGED <<tree, operations, dependencies, frames, isCompiled>>

RowsDone == evalRow = RowCount
StopEval == RowsDone /\ UNCHANGED operationsVars

OperationsNext == CompileOperation \/ CompileLeaf \/ Return \/ EvalOperation \/ EndRow \/ StopEval

OperationsSpec == OperationsInit /\ [][OperationsNext]_operationsVars
-----------------------------------------------------------------------------
(***************************************************************************)
(* The meaning of a tree at row r, and its leaves from left to right.      *)
(***************************************************************************)
TreeValue(r) ==
  LET value[t \in Nodes] ==
        IF t.op = "leaf" THEN Leaf[t.id][r]
        ELSE Apply(t.op, value[t.values[1]], IF Arity(t.op) = 1 THEN 0 ELSE value[t.values[2]])
  IN value

Leaves[t \in Nodes] ==
  IF t.op = "leaf" THEN <<t.id>>
  ELSE Leaves[t.values[1]] \o (IF Arity(t.op) = 1 THEN <<>> ELSE Leaves[t.values[2]])

OperationsTypeOK ==
  /\ \A k \in DOMAIN operations : operations[k].result \in 0 .. Prime - 1
  /\ \A k \in DOMAIN frames : frames[k].destination \in DOMAIN operations
  /\ opIndex \in 0 .. Len(operations)
  /\ evalRow \in 0 .. RowCount /\ Len(evaluation) = evalRow
  /\ stillZero \in BOOLEAN /\ isCompiled \in BOOLEAN

(***************************************************************************)
(* The vector is computed from back to front, so each operation must be    *)
(* after the one that uses it, or a result of the previous row is read;    *)
(* and it must be used once, or free indices were mixed up.                *)
(***************************************************************************)
UsersOf(m) == { u \in (DOMAIN operations) \X {1, 2} :
                  operations[u[1]].values[u[2]] = [type |-> "OP", id |-> m] }
UsedBefore ==
  \A m \in 2 .. Len(operations) :
    \E k \in 1 .. m - 1 : \E v \in {1, 2} : UsersOf(m) = {<<k, v>>}

(***************************************************************************)
(* eval returns the value of the tree, at every row, and isZero says       *)
(* whether all of them are zero so far.                                    *)
(***************************************************************************)
EvaluatesTree ==
  /\ \A k \in DOMAIN evaluation : evaluation[k] = TreeValue(k - 1)[tree]
  /\ stillZero <=> \A k \in DOMAIN evaluation : evaluation[k] = 0

(***************************************************************************)
(* The dependencies are the expressions among the leaves, in the order in  *)
(* which they first occur from left to right.                              *)
(***************************************************************************)
ExpLeaves == { k \in DOMAIN Leaves[tree] : IsExpLeaf[Leaves[tree][k]] }
FirstUse(id) == CHOOSE k \in ExpLeaves : Leaves[tree][k] = id /\ \A m \in 1 .. k - 1 : Leaves[tree][m] # id

DependenciesExact ==
  isCompiled =>
    /\ ToSet(dependencies) = { Leaves[tree][k] : k \in ExpLeaves }
    /\ \A i, j \in DOMAIN dependencies : i < j => FirstUse(dependencies[i]) < FirstUse(dependencies[j])
=============================================================================
