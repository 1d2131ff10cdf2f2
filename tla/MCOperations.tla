--------------------------- MODULE MCOperations ---------------------------
(***************************************************************************)
(* Trees of operations two deep over three leaves, two of them other       *)
(* expressions, and some that are four deep.                               *)
(***************************************************************************)
EXTENDS Operations

MCLeaf == <<[r \in 0 .. 1 |-> 1 + r], [r \in 0 .. 1 |-> 2 - r], [r \in 0 .. 1 |-> 0]>>
MCIsExpLeaf == <<TRUE, FALSE, TRUE>>

MCLeaves == { [op |-> "leaf", id |-> i] : i \in 1 .. 3 }
Node(op, a, b) == [op |-> op, values |-> IF op = "neg" THEN <<a>> ELSE <<a, b>>]

One == { Node(op, a, b) : op \in {"sub", "neg"}, a \in MCLeaves, b \in MCLeaves }
Squares == { Node("mul", a, a) : a \in MCLeaves }
Two == { Node(op, a, b) : op \in {"sub", "add"}, a \in One \cup MCLeaves, b \in One }
Inner == { Node("mulc", b, c) : b \in MCLeaves, c \in Squares }
Three == { Node("addc", a, i) : a \in Squares, i \in Inner }
Four == { Node("neg", t, t) : t \in Three }

MCTrees == One \cup Two \cup Four
MCNodes == MCTrees \cup MCLeaves \cup Squares \cup Inner \cup Three

RECURSIVE MCHeight(_)
MCHeight(t) == IF t.op = "leaf" THEN 0 ELSE 1 + Max({ MCHeight(t.values[v]) : v \in DOMAIN t.values })
=============================================================================
