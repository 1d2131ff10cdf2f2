--------------------------- MODULE MCConnections ---------------------------
(***************************************************************************)
(* Instances of Connections with the field elements of the program: the    *)
(* keys are those of the Goldilocks elements k_j * w^i, w the root of      *)
(* unity of order N and k_1 = FRELEMENT_K.                                 *)
(***************************************************************************)
EXTENDS Connections

\* elements with the given keys, told apart by their indices
WithKeys(keys) == [k \in Cols |-> [w \in Rows |-> keys[k + 1][w + 1] + HashSize * (k * N + w)]]

\* 4 rows, 2 columns: w = 2^48, hashSize 64
Elements42 == WithKeys(<< <<1, 0, 0, 1>>, <<20, 58, 45, 7>> >>)

Values == 0 .. 1

\* what cell (w, k) is connected to: itself, the other column, a cycle of all
SelfCell(w, k) == Element[k][w]
OtherColumn(w, k) == Element[1 - k][w]
NextCell(w, k) == IF w = N - 1 THEN Element[1 - k][0] ELSE Element[k][w + 1]

Connect(C(_, _), m, ps) ==
  [polsCount |-> m, pols |-> ps, connections |-> [k \in 0 .. m - 1 |-> [w \in Rows |-> C(w, k)]]]

Columns2 == [0 .. 1 -> [Rows -> Values]]
Columns1 == [0 .. 0 -> [Rows -> Values]]
OnePair == [k \in 0 .. 1 |-> [w \in Rows |-> IF w = k THEN 1 ELSE 0]]

TwoColumnProblems ==
  { <<Connect(OtherColumn, 2, ps)>> : ps \in Columns2 }
  \cup { <<Connect(NextCell, 2, ps)>> : ps \in Columns2 }
  \cup { <<Connect(SelfCell, 1, ps), Connect(NextCell, 2, OnePair)>> : ps \in Columns1 }
  \* a connection into a column that the identity does not have
  \cup { <<Connect(OtherColumn, 1, ps)>> : ps \in Columns1 }

\* The hypothesis of the theorems about get holds of these elements.
ASSUME ScatteredAssumption == Scattered
=============================================================================
