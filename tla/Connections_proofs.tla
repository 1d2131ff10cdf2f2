------------------------- MODULE Connections_proofs -------------------------
(***************************************************************************)
(* Proofs about module Connections: for every number of rows, columns and  *)
(* chunks, every field elements and every connections, the table of        *)
(* generate has each element where get finds it, and the errors printed    *)
(* are the cells that differ from those they are connected to.             *)
(***************************************************************************)
EXTENDS Connections, SequenceTheorems, FiniteSetTheorems, WellFoundedInduction, TLAPS

(***************************************************************************)
(* The cells that are in the table, and the place of one among them.       *)
(***************************************************************************)
Before(w, k) == k < j \/ (k = j /\ w < i)
Number(w, k) == k * N + w + 1

(***************************************************************************)
(* A cell is found by probe number c of its element, with no free key on   *)
(* the way.                                                                *)
(***************************************************************************)
Path(v, c) == \A d \in 1 .. c : Probe(v, d) # NONE
At(w, k, c) ==
  /\ Probe(Element[k][w], c) = Element[k][w]
  /\ ijTable[Hash(Element[k][w], c - 1)] = <<w, k>>
  /\ Path(Element[k][w], c)

Occupied == { k \in Keys : hashTable[k] # NONE }

TableTypeOK ==
  /\ hashTable \in [Keys -> Nat \cup {NONE}] /\ ijTable = [k \in Keys |-> ijTable[k]]
  /\ phase \in {"generate", "check", "end", "duplicated", "undefined"}
  /\ phase \in {"generate", "duplicated"} => j \in Cols
  /\ phase \notin {"generate", "duplicated"} => j = Nk
  /\ i \in Rows /\ (j = Nk => i = 0)
  /\ key \in Keys /\ cost \in Nat \ {0}
  /\ count = j * N + i /\ count = Cardinality(Occupied)
  /\ cost <= count + 1

Placed == \A w \in Rows, k \in Cols : Before(w, k) => \E c \in 1 .. Number(w, k) : At(w, k, c)

Sound ==
  \A x \in Keys :
    IF hashTable[x] = NONE THEN ijTable[x] = NONE
    ELSE \E w \in Rows, k \in Cols : Before(w, k) /\ hashTable[x] = Element[k][w] /\ ijTable[x] = <<w, k>>

Distinct ==
  \A w, u \in Rows : \A k, l \in Cols :
    Before(w, k) /\ Before(u, l) /\ Element[k][w] = Element[l][u] => w = u /\ k = l

Probing ==
  phase = "generate" => /\ key = Hash(value, cost - 1)
                        /\ \A d \in 1 .. cost - 1 : Probe(value, d) \notin {NONE, value}

TableInv == TableTypeOK /\ Placed /\ Sound /\ Distinct /\ Probing
-----------------------------------------------------------------------------
(***************************************************************************)
(* Probes.  Fewer than HashSize of them are of different keys.             *)
(***************************************************************************)
LEMMA Sizes ==
  /\ N \in Nat \ {0} /\ Nk \in Nat \ {0} /\ Chunks \in Nat \ {0} /\ N * Nk \in Nat \ {0}
  /\ HashSize \in Nat \ {0} /\ N * Nk < HashSize
  /\ NONE \notin Nat /\ NONE \notin Rows \X Cols
  /\ \A k \in Cols, w \in Rows : Element[k][w] \in Nat
  /\ Rows \subseteq Nat /\ Cols \subseteq Nat /\ Keys \subseteq Nat
<1>1. /\ N \in Nat \ {0} /\ Nk \in Nat \ {0} /\ Chunks \in Nat \ {0} /\ HashSize \in Nat
      /\ HashSize >= 8 * N * Nk /\ NONE \notin Nat /\ NONE \notin Rows \X Cols
      /\ Element \in [Cols -> [Rows -> Nat]]
  BY ConnectionsAssumption
<1>2. N * Nk \in Nat \ {0}
  BY <1>1
<1>3. 8 * N * Nk = 8 * (N * Nk)
  BY <1>1
<1>4. HashSize \in Nat \ {0} /\ N * Nk < HashSize
  <2> DEFINE m == N * Nk
  <2>1. m \in Nat \ {0} /\ HashSize >= 8 * m
    BY <1>1, <1>2, <1>3
  <2> HIDE DEF m
  <2>2. HashSize \in Nat \ {0} /\ m < HashSize
    BY <2>1, <1>1
  <2> QED
    BY <2>2 DEF m
<1> QED
  BY <1>1, <1>2, <1>4 DEF Rows, Cols, Keys

LEMMA HashFacts ==
  ASSUME NEW v \in Nat
  PROVE  /\ \A d \in Nat : Hash(v, d) \in Keys
         /\ \A d, e \in Nat : d < e /\ e - d < HashSize => Hash(v, d) # Hash(v, e)
<1>1. \A d \in Nat : Hash(v, d) \in Keys
  BY Sizes DEF Hash, Keys
<1>2. ASSUME NEW d \in Nat, NEW e \in Nat, d < e, e - d < HashSize, Hash(v, d) = Hash(v, e)
      PROVE  FALSE
  <2> DEFINE H == HashSize  q == (v + d) \div H  s == (v + e) \div H  r == (v + d) % H
  <2>1. H \in Nat \ {0}
    BY Sizes
  <2>2. v + d = H * q + r /\ v + e = H * s + r /\ q \in Int /\ s \in Int /\ r \in Nat
    BY <1>2, <2>1 DEF Hash
  <2> HIDE DEF H, q, s, r
  <2>3. e - d = H * s - H * q
    BY <2>1, <2>2
  <2>4. H * s - H * q = H * (s - q)
    BY <2>1, <2>2
  <2>5. s - q \in Int /\ H * (s - q) > 0 /\ H * (s - q) < H
    BY <2>2, <2>3, <2>4, <1>2 DEF H
  <2>6. s - q <= 0 \/ s - q >= 1
    BY <2>5
  <2>7. CASE s - q <= 0
    <3>1. \A a \in Int : a <= 0 => H * a <= 0
      BY <2>1
    <3> QED
      BY <3>1, <2>1, <2>5, <2>7
  <2>8. CASE s - q >= 1
    <3>1. \A a \in Int : a >= 1 => H * a >= H
      BY <2>1
    <3> QED
      BY <3>1, <2>1, <2>5, <2>8
  <2> QED
    BY <2>6, <2>7, <2>8
<1> QED
  BY <1>1, <1>2

(***************************************************************************)
(* The keys of c probes are c keys.                                        *)
(***************************************************************************)
LEMMA ProbedKeys ==
  ASSUME NEW v \in Nat, NEW c \in Nat, c <= HashSize
  PROVE  LET P == { Hash(v, d) : d \in 0 .. c - 1 }
         IN P \subseteq Keys /\ IsFiniteSet(P) /\ Cardinality(P) = c
<1> DEFINE P == { Hash(v, d) : d \in 0 .. c - 1 }
           f == [d \in 0 .. c - 1 |-> Hash(v, d)]
<1>1. \A d \in 0 .. c - 1 : d \in Nat /\ d < HashSize
  BY Sizes
<1>2. P \subseteq Keys
  BY <1>1, HashFacts
<1>3. \A d, e \in 0 .. c - 1 : Hash(v, d) = Hash(v, e) => d = e
  <2> TAKE d, e \in 0 .. c - 1
  <2>1. d < e \/ e < d \/ d = e
    OBVIOUS
  <2>2. d \in Nat /\ e \in Nat /\ (d < e => e - d < HashSize) /\ (e < d => d - e < HashSize)
    BY Sizes
  <2> QED
    BY <2>1, <2>2, HashFacts
<1>4. f \in Bijection(0 .. c - 1, P)
  <2>1. f \in [0 .. c - 1 -> P]
    OBVIOUS
  <2>2. \A d, e \in 0 .. c - 1 : f[d] = f[e] => d = e
    BY <1>3
  <2>3. \A y \in P : \E d \in 0 .. c - 1 : f[d] = y
    OBVIOUS
  <2> QED
    BY <2>1, <2>2, <2>3 DEF Bijection, Injection, Surjection, IsInjective
<1>5. IsFiniteSet(0 .. c - 1) /\ Cardinality(0 .. c - 1) = c
  BY FS_Interval
<1>6. IsFiniteSet(P) /\ Cardinality(P) = Cardinality(0 .. c - 1)
  <2>1. ExistsBijection(0 .. c - 1, P)
    BY <1>4 DEF ExistsBijection
  <2> HIDE DEF P, f
  <2> QED
    BY <2>1, <1>5, FS_Bijection
<1> QED
  BY <1>2, <1>5, <1>6

(***************************************************************************)
(* How many cells there are up to one, and before it.                      *)
(***************************************************************************)
LEMMA NumberFacts ==
  /\ \A k \in Cols, w \in Rows : Number(w, k) \in 1 .. N * Nk
  /\ \A k \in Cols, w \in Rows : Number(w, k) = N * Nk => k = Nk - 1 /\ w = N - 1
  /\ Nk * N = N * Nk
<1>1. N \in Nat \ {0} /\ Nk \in Nat \ {0}
  BY Sizes
<1>2. ASSUME NEW k \in Cols, NEW w \in Rows
      PROVE  Number(w, k) \in 1 .. N * Nk /\ (Number(w, k) = N * Nk => k = Nk - 1 /\ w = N - 1)
  <2>1. PICK d \in Nat : Nk = k + 1 + d
    <3>1. Nk - (k + 1) \in Nat /\ Nk = k + 1 + (Nk - (k + 1))
      BY <1>1 DEF Cols
    <3> QED
      BY <3>1
  <2>2. N * Nk = k * N + N + d * N /\ k * N \in Nat /\ d * N \in Nat
    BY <2>1, <1>1 DEF Cols
  <2>3. w \in Nat /\ w <= N - 1 /\ N \in Nat
    BY <1>1 DEF Rows
  <2>4. d # 0 => d * N >= N
    BY <1>1
  <2>5. d * N = 0 => d = 0
    BY <1>1
  <2> HIDE DEF Rows
  <2>6. Number(w, k) \in 1 .. N * Nk
    BY <2>2, <2>3 DEF Number
  <2>7. Number(w, k) = N * Nk => d * N = 0 /\ w = N - 1
    BY <2>2, <2>3 DEF Number
  <2> QED
    BY <2>1, <2>5, <2>6, <2>7, <1>1 DEF Cols
<1>3. Nk * N = N * Nk
  BY <1>1
<1> QED
  BY <1>2, <1>3

LEMMA InitTable == Init => TableInv
<1> SUFFICES ASSUME Init PROVE TableInv
  OBVIOUS
<1>1. /\ phase = "generate" /\ j = 0 /\ i = 0 /\ key = Hash(Element[0][0], 0) /\ cost = 1 /\ count = 0
      /\ hashTable = [k \in Keys |-> NONE] /\ ijTable = [k \in Keys |-> NONE]
  BY DEF Init
<1>2. 0 \in Cols /\ 0 \in Rows /\ Element[0][0] \in Nat /\ 0 * N + 0 = 0
  BY Sizes DEF Cols, Rows
<1>3. key \in Keys
  BY <1>1, <1>2, HashFacts
<1>4. count = Cardinality(Occupied)
  <2>1. Occupied = {}
    BY <1>1 DEF Occupied
  <2> QED
    BY <2>1, <1>1, FS_EmptySet
<1>5. TableTypeOK
  BY <1>1, <1>2, <1>3, <1>4, Sizes DEF TableTypeOK
<1>6. \A w \in Rows, k \in Cols : ~Before(w, k)
  BY <1>1, Sizes DEF Before, Rows, Cols
<1>7. Placed /\ Distinct
  BY <1>6 DEF Placed, Distinct
<1>8. Sound
  BY <1>1 DEF Sound
<1>9. Probing
  BY <1>1 DEF Probing, value
<1> QED
  BY <1>5, <1>7, <1>8, <1>9 DEF TableInv

(***************************************************************************)
(* The table keeps what it says as long as neither it nor the loop         *)
(* variables change.                                                       *)
(***************************************************************************)
LEMMA TableKept ==
  ASSUME UNCHANGED <<j, i, table>>
  PROVE  /\ UNCHANGED <<j, i, hashTable, ijTable, count, value>>
         /\ Placed' = Placed /\ Sound' = Sound /\ Distinct' = Distinct /\ Occupied' = Occupied
         /\ \A v, c : Probe(v, c)' = Probe(v, c) /\ Path(v, c)' = Path(v, c)
<1>1. UNCHANGED <<j, i, hashTable, ijTable, count, value>>
  BY DEF table, value
<1>2. \A v, c : Probe(v, c)' = Probe(v, c) /\ Path(v, c)' = Path(v, c)
  BY <1>1 DEF Probe, Path, Hash
<1>3. \A w, k : Before(w, k)' = Before(w, k) /\ Number(w, k)' = Number(w, k)
  BY <1>1 DEF Before, Number
<1>4. \A w, k, c : At(w, k, c)' = At(w, k, c)
  BY <1>1, <1>2 DEF At, Hash
<1> QED
  BY <1>1, <1>2, <1>3, <1>4 DEF Placed, Sound, Distinct, Occupied

(***************************************************************************)
(* The probe that is being made.                                           *)
(***************************************************************************)
LEMMA ProbeFacts ==
  ASSUME TableInv, phase = "generate"
  PROVE  /\ j \in Cols /\ i \in Rows /\ value \in Nat /\ value = Element[j][i]
         /\ key = Hash(value, cost - 1) /\ Probe(value, cost) = hashTable[key]
         /\ \A d \in 1 .. cost - 1 : Probe(value, d) \notin {NONE, value}
         /\ cost \in Nat \ {0} /\ cost <= count + 1 /\ count \in Nat /\ count < N * Nk /\ cost < HashSize
         /\ Number(i, j) = count + 1
<1>1. j \in Cols /\ i \in Rows /\ cost \in Nat \ {0} /\ cost <= count + 1 /\ count = j * N + i
  BY DEF TableInv, TableTypeOK
<1>2. value = Element[j][i] /\ value \in Nat
  BY <1>1, Sizes DEF value
<1>3. Number(i, j) = count + 1
  BY <1>1 DEF Number
<1>4. count \in Nat /\ count < N * Nk
  <2>1. Number(i, j) \in 1 .. N * Nk
    BY <1>1, NumberFacts
  <2>2. count \in Nat
    BY <1>1, Sizes
  <2> QED
    BY <2>1, <2>2, <1>3, Sizes
<1>5. cost < HashSize
  BY <1>1, <1>4, Sizes
<1>6. key = Hash(value, cost - 1) /\ \A d \in 1 .. cost - 1 : Probe(value, d) \notin {NONE, value}
  BY DEF TableInv, Probing
<1>7. Probe(value, cost) = hashTable[key]
  BY <1>6 DEF Probe
<1> QED
  BY <1>1, <1>2, <1>3, <1>4, <1>5, <1>6, <1>7

LEMMA CollideInv ==
  ASSUME TableInv, Collide
  PROVE  TableInv'
<1>1. /\ phase = "generate" /\ hashTable[key] # NONE /\ UNCHANGED <<j, i, table>>
      /\ \/ hashTable[key] = value /\ phase' = "duplicated" /\ UNCHANGED <<key, cost>>
         \/ hashTable[key] # value /\ key' = Hash(value, cost) /\ cost' = cost + 1 /\ UNCHANGED phase
  BY DEF Collide
<1>2. /\ UNCHANGED <<j, i, hashTable, ijTable, count, value>>
      /\ Placed' /\ Sound' /\ Distinct' /\ Occupied' = Occupied
      /\ \A v, c : Probe(v, c)' = Probe(v, c)
  BY <1>1, TableKept DEF TableInv
<1>3. CASE phase' = "duplicated" /\ UNCHANGED <<key, cost>>
  BY <1>1, <1>2, <1>3 DEF TableInv, TableTypeOK, Probing
<1>4. CASE hashTable[key] # value /\ key' = Hash(value, cost) /\ cost' = cost + 1 /\ UNCHANGED phase
  <2>1. \A d \in 1 .. cost : Probe(value, d) \notin {NONE, value}
    <3>1. \A d \in 1 .. cost : d = cost \/ d \in 1 .. cost - 1
      BY ProbeFacts, <1>1
    <3> QED
      BY <3>1, <1>1, <1>4, ProbeFacts
  <2>2. cost <= count
    <3> DEFINE P == { Hash(value, d) : d \in 0 .. cost - 1 }
    <3>1. P \subseteq Keys /\ Cardinality(P) = cost
      <4>1. value \in Nat /\ cost \in Nat /\ cost <= HashSize
        BY ProbeFacts, Sizes, <1>1
      <4> QED
        BY <4>1, ProbedKeys
    <3>2. P \subseteq Occupied
      <4> SUFFICES ASSUME NEW d \in 0 .. cost - 1 PROVE hashTable[Hash(value, d)] # NONE
        BY <3>1 DEF Occupied
      <4>1. d + 1 \in 1 .. cost /\ (d + 1) - 1 = d
        BY ProbeFacts, <1>1
      <4>2. Probe(value, d + 1) # NONE
        BY <4>1, <2>1
      <4> QED
        BY <4>1, <4>2 DEF Probe
    <3>3. IsFiniteSet(Occupied) /\ Cardinality(Occupied) = count
      <4>1. IsFiniteSet(Keys)
        BY Sizes, FS_Interval DEF Keys
      <4>2. IsFiniteSet(Occupied)
        BY <4>1, FS_Subset DEF Occupied
      <4> QED
        BY <4>2 DEF TableInv, TableTypeOK
    <3> HIDE DEF P
    <3> QED
      BY <3>1, <3>2, <3>3, FS_Subset
  <2>3. key' \in Keys /\ cost' \in Nat \ {0} /\ cost' <= count' + 1 /\ cost' - 1 = cost
    <3>1. value \in Nat /\ cost \in Nat \ {0} /\ count \in Nat
      BY <1>1, ProbeFacts
    <3>2. Hash(value, cost) \in Keys
      BY <3>1, HashFacts
    <3> QED
      BY <3>1, <3>2, <2>2, <1>2, <1>4
  <2>4. TableTypeOK'
    BY <1>1, <1>2, <1>4, <2>3 DEF TableInv, TableTypeOK
  <2>5. Probing'
    <3>1. key' = Hash(value, cost' - 1)
      BY <1>4, <2>3
    <3>2. \A d \in 1 .. cost' - 1 : hashTable[Hash(value, d - 1)] \notin {NONE, value}
      BY <2>1, <2>3 DEF Probe
    <3> QED
      BY <3>1, <3>2, <1>2 DEF Probing, Probe, Hash
  <2> QED
    BY <2>4, <2>5, <1>2 DEF TableInv
<1> QED
  BY <1>1, <1>3, <1>4

LEMMA InsertInv ==
  ASSUME TableInv, Insert
  PROVE  TableInv'
<1> DEFINE v == value
<1>1. /\ phase = "generate" /\ hashTable[key] = NONE
      /\ hashTable' = [hashTable EXCEPT ![key] = v]
      /\ ijTable' = [ijTable EXCEPT ![key] = <<i, j>>]
      /\ count' = count + 1
      /\ i' = IF i = N - 1 THEN 0 ELSE i + 1
      /\ j' = IF i = N - 1 THEN j + 1 ELSE j
      /\ phase' = IF j' = Nk THEN "check" ELSE phase
      /\ key' = IF j' = Nk THEN key ELSE Hash(Element[j'][i'], 0)
      /\ cost' = 1
  BY DEF Insert
<1>2. /\ j \in Cols /\ i \in Rows /\ v \in Nat /\ v = Element[j][i]
      /\ key = Hash(v, cost - 1) /\ cost \in Nat \ {0} /\ cost <= count + 1 /\ count \in Nat
      /\ \A d \in 1 .. cost - 1 : Probe(v, d) \notin {NONE, v}
      /\ Number(i, j) = count + 1 /\ Probe(v, cost) = NONE
  BY <1>1, ProbeFacts
<1>3. key \in Keys /\ v # NONE /\ hashTable \in [Keys -> Nat \cup {NONE}] /\ ijTable = [k \in Keys |-> ijTable[k]]
  BY <1>2, Sizes DEF TableInv, TableTypeOK
<1> HIDE DEF v
<1>4. /\ hashTable' \in [Keys -> Nat \cup {NONE}] /\ ijTable' = [k \in Keys |-> ijTable'[k]]
      /\ hashTable'[key] = v /\ ijTable'[key] = <<i, j>>
      /\ \A x \in Keys \ {key} : hashTable'[x] = hashTable[x] /\ ijTable'[x] = ijTable[x]
  BY <1>1, <1>2, <1>3
<1>5. \A x \in Keys : hashTable[x] # NONE => hashTable'[x] = hashTable[x] /\ ijTable'[x] = ijTable[x]
  BY <1>1, <1>4
\* the loop goes on to the next cell
<1>6. i' \in Rows /\ (i = N - 1 => i' = 0) /\ (i # N - 1 => i' = i + 1)
  BY <1>1, <1>2, Sizes DEF Rows
<1>7. \A w \in Rows, k \in Cols : Before(w, k)' <=> Before(w, k) \/ (w = i /\ k = j)
  <2> TAKE w \in Rows, k \in Cols
  <2>1. w \in Nat /\ k \in Nat /\ i \in Nat /\ j \in Nat /\ N \in Nat /\ w <= N - 1 /\ i <= N - 1
    BY <1>2, Sizes DEF Rows
  <2>2. Before(w, k)' <=> k < j' \/ (k = j' /\ w < i')
    BY DEF Before
  <2>3. CASE i = N - 1
    BY <2>1, <2>2, <2>3, <1>1 DEF Before
  <2>4. CASE i # N - 1
    BY <2>1, <2>2, <2>4, <1>1 DEF Before
  <2> QED
    BY <2>3, <2>4
<1>8. /\ phase' = "generate" => j' \in Cols
      /\ phase' # "generate" => j' = Nk
      /\ phase' \in {"generate", "check"} /\ (j' = Nk => i' = 0)
  <2>1. j \in Nat /\ j <= Nk - 1 /\ Nk \in Nat
    BY <1>2, Sizes DEF Cols
  <2> QED
    BY <2>1, <1>1, <1>6 DEF Cols
<1>9. count' = j' * N + i'
  <2>1. count = j * N + i /\ j \in Nat /\ i \in Nat /\ N \in Nat
    BY <1>2, Sizes DEF TableInv, TableTypeOK
  <2>2. (j + 1) * N = j * N + N
    BY <2>1
  <2>3. CASE i = N - 1
    BY <2>1, <2>2, <2>3, <1>1, <1>6
  <2>4. CASE i # N - 1
    BY <2>1, <2>4, <1>1, <1>6
  <2> QED
    BY <2>3, <2>4
<1>10. count' = Cardinality(Occupied')
  <2>1. Occupied' = Occupied \cup {key} /\ key \notin Occupied
    BY <1>1, <1>3, <1>4 DEF Occupied
  <2>2. IsFiniteSet(Occupied) /\ Cardinality(Occupied) = count
    <3>1. IsFiniteSet(Keys)
      BY Sizes, FS_Interval DEF Keys
    <3>2. IsFiniteSet(Occupied)
      BY <3>1, FS_Subset DEF Occupied
    <3> QED
      BY <3>2 DEF TableInv, TableTypeOK
  <2> QED
    BY <2>1, <2>2, <1>1, FS_AddElement
<1>11. key' \in Keys
  <2>1. CASE j' = Nk
    BY <2>1, <1>1, <1>3
  <2>2. CASE j' # Nk
    <3>1. j' \in Cols
      BY <2>2, <1>8
    <3>2. Element[j'][i'] \in Nat
      BY <3>1, <1>6, Sizes
    <3>3. Hash(Element[j'][i'], 0) \in Keys
      BY <3>2, HashFacts
    <3> QED
      BY <3>3, <2>2, <1>1
  <2> QED
    BY <2>1, <2>2
<1>12. TableTypeOK'
  <2>1. cost' \in Nat \ {0} /\ cost' <= count' + 1
    BY <1>1, <1>2
  <2>2. count' = Cardinality(Occupied)'
    BY <1>10
  <2> QED
    BY <2>1, <2>2, <1>4, <1>6, <1>8, <1>9, <1>11 DEF TableTypeOK
\* probes that met no free key do not change
<1>13. \A u \in Nat, d \in Nat \ {0} : Probe(u, d) # NONE =>
         /\ hashTable'[Hash(u, d - 1)] = Probe(u, d)
         /\ ijTable'[Hash(u, d - 1)] = ijTable[Hash(u, d - 1)]
  <2> TAKE u \in Nat, d \in Nat \ {0}
  <2>1. Hash(u, d - 1) \in Keys
    BY HashFacts
  <2> QED
    BY <2>1, <1>5 DEF Probe
<1>14. Distinct'
  <2>1. ASSUME NEW w \in Rows, NEW k \in Cols, Before(w, k) PROVE Element[k][w] # v
    <3> SUFFICES ASSUME Element[k][w] = v PROVE FALSE
      OBVIOUS
    <3>1. PICK c \in 1 .. Number(w, k) : At(w, k, c)
      BY <2>1 DEF TableInv, Placed
    <3>2. Number(w, k) \in Nat
      BY NumberFacts, Sizes
    <3>3. Probe(v, c) = v /\ \A d \in 1 .. c : Probe(v, d) # NONE
      BY <3>1 DEF At, Path
    <3>4. c < cost
      BY <3>2, <3>3, <1>2
    <3> QED
      BY <3>2, <3>3, <3>4, <1>2
  <2> SUFFICES ASSUME NEW w \in Rows, NEW u \in Rows, NEW k \in Cols, NEW l \in Cols,
                      Before(w, k)', Before(u, l)', Element[k][w] = Element[l][u]
               PROVE  w = u /\ k = l
    BY DEF Distinct
  <2>2. CASE Before(w, k) /\ Before(u, l)
    BY <2>2 DEF TableInv, Distinct
  <2>3. CASE ~Before(w, k) \/ ~Before(u, l)
    BY <2>1, <2>3, <1>2, <1>7
  <2> QED
    BY <2>2, <2>3
<1>15. Sound'
  <2> SUFFICES ASSUME NEW x \in Keys
               PROVE  IF hashTable'[x] = NONE THEN ijTable'[x] = NONE
                      ELSE \E w \in Rows, k \in Cols :
                             Before(w, k)' /\ hashTable'[x] = Element[k][w] /\ ijTable'[x] = <<w, k>>
    BY DEF Sound
  <2>1. CASE x = key
    <3>1. \A w \in Rows, k \in Cols : w = i /\ k = j => Before(w, k)'
      BY <1>7
    <3> QED
      BY <2>1, <3>1, <1>2, <1>3, <1>4
  <2>2. CASE x # key
    <3>1. hashTable'[x] = hashTable[x] /\ ijTable'[x] = ijTable[x]
      BY <2>2, <1>4
    <3>2. IF hashTable[x] = NONE THEN ijTable[x] = NONE
          ELSE \E w \in Rows, k \in Cols :
                 Before(w, k) /\ hashTable[x] = Element[k][w] /\ ijTable[x] = <<w, k>>
      BY DEF TableInv, Sound
    <3> QED
      BY <3>1, <3>2, <1>7
  <2> QED
    BY <2>1, <2>2
<1>16. Placed'
  <2> SUFFICES ASSUME NEW w \in Rows, NEW k \in Cols, Before(w, k)'
               PROVE  \E c \in 1 .. Number(w, k) : At(w, k, c)'
    BY DEF Placed, Number
  <2> DEFINE u == Element[k][w]
  <2>1. u \in Nat /\ Number(w, k) \in Nat \ {0}
    BY Sizes, NumberFacts
  <2>2. \A c : At(w, k, c)' <=> /\ hashTable'[Hash(u, c - 1)] = u
                                /\ ijTable'[Hash(u, c - 1)] = <<w, k>>
                                /\ \A d \in 1 .. c : hashTable'[Hash(u, d - 1)] # NONE
    BY DEF At, Path, Probe, Hash
  <2>3. CASE Before(w, k)
    <3>1. PICK c \in 1 .. Number(w, k) : At(w, k, c)
      BY <2>3 DEF TableInv, Placed
    <3>2. /\ Probe(u, c) = u /\ ijTable[Hash(u, c - 1)] = <<w, k>>
          /\ \A d \in 1 .. c : Probe(u, d) # NONE
      BY <3>1 DEF At, Path
    <3>3. c \in Nat \ {0} /\ \A d \in 1 .. c : d \in Nat \ {0}
      BY <2>1
    <3> HIDE DEF u
    <3>4. \A d \in 1 .. c : hashTable'[Hash(u, d - 1)] = Probe(u, d)
      BY <3>2, <3>3, <2>1, <1>13
    <3>5. hashTable'[Hash(u, c - 1)] = u /\ ijTable'[Hash(u, c - 1)] = <<w, k>>
      <4>1. c \in 1 .. c
        BY <3>3
      <4> QED
        BY <4>1, <3>2, <3>3, <2>1, <1>13
    <3>6. \A d \in 1 .. c : hashTable'[Hash(u, d - 1)] # NONE
      BY <3>2, <3>4
    <3> QED
      BY <3>5, <3>6, <2>2
  <2>4. CASE w = i /\ k = j
    <3>1. u = v /\ cost \in 1 .. Number(w, k)
      BY <2>4, <1>2
    <3>2. hashTable'[Hash(u, cost - 1)] = u /\ ijTable'[Hash(u, cost - 1)] = <<w, k>>
      BY <3>1, <2>4, <1>2, <1>4
    <3>3. \A d \in 1 .. cost : hashTable'[Hash(u, d - 1)] # NONE
      <4> TAKE d \in 1 .. cost
      <4>1. CASE d = cost
        BY <4>1, <3>1, <3>2, <1>3
      <4>2. CASE d # cost
        <5>1. d \in 1 .. cost - 1 /\ d \in Nat \ {0}
          BY <4>2, <1>2
        <5>2. Probe(v, d) # NONE
          BY <5>1, <1>2
        <5> QED
          BY <5>1, <5>2, <3>1, <1>2, <1>13
      <4> QED
        BY <4>1, <4>2
    <3> HIDE DEF u
    <3> QED
      BY <3>1, <3>2, <3>3, <2>2
  <2> QED
    BY <2>3, <2>4, <1>7
<1>17. Probing'
  <2> SUFFICES ASSUME phase' = "generate"
               PROVE  /\ key' = Hash(value', cost' - 1)
                      /\ \A d \in 1 .. cost' - 1 : Probe(value, d)' \notin {NONE, value'}
    BY DEF Probing, Hash
  <2>1. j' # Nk
    BY <1>8, Sizes DEF Cols
  <2>2. key' = Hash(value', 0) /\ cost' - 1 = 0
    BY <2>1, <1>1 DEF value
  <2>3. 1 .. cost' - 1 = {}
    BY <1>1
  <2> QED
    BY <2>2, <2>3
<1> QED
  BY <1>12, <1>14, <1>15, <1>16, <1>17 DEF TableInv

LEMMA CheckTable ==
  ASSUME TableInv, UNCHANGED <<j, i, key, cost, table>>,
         phase' = phase \/ (phase = "check" /\ phase' \in {"end", "undefined"})
  PROVE  TableInv'
<1>1. /\ UNCHANGED <<j, i, hashTable, ijTable, count, value>>
      /\ Placed' /\ Sound' /\ Distinct' /\ Occupied' = Occupied
  BY TableKept DEF TableInv
<1>2. TableTypeOK'
  BY <1>1 DEF TableInv, TableTypeOK
<1>3. Probing'
  <2>1. phase' = "generate" => phase = "generate"
    OBVIOUS
  <2>2. phase = "generate" => /\ key = Hash(value, cost - 1)
                              /\ \A d \in 1 .. cost - 1 : hashTable[Hash(value, d - 1)] \notin {NONE, value}
    BY DEF TableInv, Probing, Probe
  <2> QED
    BY <2>1, <2>2, <1>1 DEF Probing, Probe, Hash
<1> QED
  BY <1>1, <1>2, <1>3 DEF TableInv

LEMMA TableStep == TableInv /\ [Next]_vars => TableInv'
<1> SUFFICES ASSUME TableInv, [Next]_vars PROVE TableInv'
  OBVIOUS
<1>1. CASE Collide
  BY <1>1, CollideInv
<1>2. CASE Insert
  BY <1>2, InsertInv
<1>3. ASSUME NEW c \in ChunkIds, CheckRow(c) PROVE TableInv'
  BY <1>3, CheckTable DEF CheckRow
<1>4. CASE Join
  BY <1>4, CheckTable DEF Join
<1>5. CASE Stop \/ UNCHANGED vars
  BY <1>5, CheckTable DEF Stop, vars
<1> QED
  BY <1>1, <1>2, <1>3, <1>4, <1>5 DEF Next

LEMMA TableInvariant == Spec => []TableInv
  BY InitTable, TableStep, PTL DEF Spec
-----------------------------------------------------------------------------
(***************************************************************************)
(* When all elements are in the table, what get returns is where its value *)
(* is.                                                                     *)
(***************************************************************************)
LEMMA LeastOf ==
  ASSUME NEW S \in SUBSET Nat, S # {}
  PROVE  \E c \in S : \A d \in S : c <= d
<1>1. PICK c \in S : \A d \in S : ~(<<d, c>> \in OpToRel(<, Nat))
  BY NatLessThanWellFounded, WFMin
<1>2. \A d \in S : ~(d < c)
  BY <1>1 DEF OpToRel
<1> QED
  BY <1>2

LEMMA Filled ==
  ASSUME TableInv, j = Nk
  PROVE  count = N * Nk /\ \A w \in Rows, k \in Cols : Before(w, k)
<1>1. count = Nk * N + 0
  BY DEF TableInv, TableTypeOK
<1>2. \A k \in Cols : k < Nk
  BY Sizes DEF Cols
<1> QED
  BY <1>1, <1>2, NumberFacts, Sizes DEF Before

LEMMA GetFacts ==
  ASSUME TableInv, j = Nk, NEW v \in Nat
  PROVE  /\ Hits(v) = {} => get(v) = NONE
         /\ Hits(v) # {} => \E w \in Rows, k \in Cols : get(v) = <<w, k>> /\ Element[k][w] = v
<1>1. Hits(v) = {} => get(v) = NONE
  BY DEF get
<1>2. ASSUME Hits(v) # {}
      PROVE  \E w \in Rows, k \in Cols : get(v) = <<w, k>> /\ Element[k][w] = v
  <2> DEFINE c == CHOOSE c \in Hits(v) : \A d \in Hits(v) : c <= d
  <2>1. Hits(v) \subseteq Nat /\ \A d \in Hits(v) : d \in Nat \ {0} /\ Probe(v, d) = v
    BY Filled, Sizes DEF Hits
  <2>2. c \in Hits(v)
    BY <1>2, <2>1, LeastOf
  <2>3. get(v) = ijTable[Hash(v, c - 1)]
    BY <1>2 DEF get
  <2> HIDE DEF c
  <2>4. Hash(v, c - 1) \in Keys /\ hashTable[Hash(v, c - 1)] = v
    BY <2>1, <2>2, HashFacts DEF Probe
  <2>5. v # NONE
    BY Sizes
  <2>6. \E w \in Rows, k \in Cols : v = Element[k][w] /\ ijTable[Hash(v, c - 1)] = <<w, k>>
    BY <2>4, <2>5 DEF TableInv, Sound
  <2> QED
    BY <2>3, <2>6
<1> QED
  BY <1>1, <1>2

LEMMA GetElement ==
  ASSUME TableInv, j = Nk, NEW w \in Rows, NEW k \in Cols
  PROVE  get(Element[k][w]) \in {<<w, k>>, NONE}
<1>1. Element[k][w] \in Nat
  BY Sizes
<1>2. CASE Hits(Element[k][w]) = {}
  BY <1>1, <1>2, GetFacts
<1>3. CASE Hits(Element[k][w]) # {}
  <2>1. PICK u \in Rows, l \in Cols : get(Element[k][w]) = <<u, l>> /\ Element[l][u] = Element[k][w]
    BY <1>1, <1>3, GetFacts
  <2>2. u = w /\ l = k
    BY <2>1, Filled DEF TableInv, Distinct
  <2> QED
    BY <2>1, <2>2
<1> QED
  BY <1>2, <1>3

(***************************************************************************)
(* Only the last element can be so far from its key that get misses it,    *)
(* and then all elements are in the run that starts there.                 *)
(***************************************************************************)
LEMMA GetFinds ==
  ASSUME TableInv, j = Nk, Scattered, NEW w \in Rows, NEW k \in Cols
  PROVE  get(Element[k][w]) = <<w, k>>
<1> DEFINE v == Element[k][w]
<1>1. PICK c \in 1 .. Number(w, k) : At(w, k, c)
  BY Filled DEF TableInv, Placed
<1>2. v \in Nat /\ Number(w, k) \in 1 .. N * Nk /\ count = N * Nk /\ N * Nk \in Nat
  BY Sizes, NumberFacts, Filled
<1>3. Probe(v, c) = v /\ \A d \in 1 .. c : Probe(v, d) # NONE
  BY <1>1 DEF At, Path
<1>4. c # count
  <2> SUFFICES ASSUME c = count PROVE FALSE
    OBVIOUS
  <2>1. k = Nk - 1 /\ w = N - 1
    BY <1>2, NumberFacts
  <2>2. v = LastElement
    BY <2>1 DEF LastElement
  <2>3. Run \subseteq Keys /\ Cardinality(Run) = N * Nk
    <3>1. LastElement \in Nat /\ N * Nk \in Nat /\ N * Nk <= HashSize
      BY <1>2, <2>2, Sizes
    <3> QED
      BY <3>1, ProbedKeys DEF Run
  <2>4. Run \subseteq Occupied
    <3> SUFFICES ASSUME NEW d \in 0 .. N * Nk - 1 PROVE hashTable[Hash(LastElement, d)] # NONE
      BY <2>3 DEF Occupied, Run
    <3>1. d + 1 \in 1 .. c /\ (d + 1) - 1 = d
      BY <1>2
    <3>2. Probe(v, d + 1) # NONE
      BY <3>1, <1>3
    <3> QED
      BY <3>1, <3>2, <2>2 DEF Probe
  <2>5. IsFiniteSet(Occupied) /\ Cardinality(Occupied) = N * Nk
    <3>1. IsFiniteSet(Keys)
      BY Sizes, FS_Interval DEF Keys
    <3>2. IsFiniteSet(Occupied)
      BY <3>1, FS_Subset DEF Occupied
    <3> QED
      BY <3>2, <1>2 DEF TableInv, TableTypeOK
  <2>6. Run = Occupied
    BY <2>3, <2>4, <2>5, FS_Subset
  <2>7. PICK l \in Cols : \E u \in Rows : Hash(Element[l][u], 0) \notin Run
    BY DEF Scattered
  <2>8. PICK u \in Rows : Hash(Element[l][u], 0) \notin Run
    BY <2>7
  <2>9. PICK e \in 1 .. Number(u, l) : At(u, l, e)
    BY Filled DEF TableInv, Placed
  <2>10. 1 \in 1 .. e
    BY NumberFacts, Sizes
  <2>11. Probe(Element[l][u], 1) # NONE
    BY <2>9, <2>10 DEF At, Path
  <2>12. Hash(Element[l][u], 0) \in Occupied
    BY <2>11, Sizes, HashFacts DEF Probe, Occupied
  <2> QED
    BY <2>6, <2>8, <2>12
<1>5. c \in 1 .. count - 1
  BY <1>2, <1>4
<1>6. c \in Hits(v)
  BY <1>3, <1>5 DEF Hits
<1>7. PICK u \in Rows, l \in Cols : get(v) = <<u, l>> /\ Element[l][u] = v
  BY <1>2, <1>6, GetFacts
<1>8. u = w /\ l = k
  BY <1>7, Filled DEF TableInv, Distinct
<1> QED
  BY <1>7, <1>8

(***************************************************************************)
(* get finds the indices of each element, when not all of them are in the  *)
(* run of the last.                                                        *)
(***************************************************************************)
THEOREM MapIsComplete ==
  ASSUME Scattered
  PROVE  Spec => []MapComplete
<1>1. TableInv => MapComplete
  <2> SUFFICES ASSUME TableInv, phase = "check", NEW w \in Rows, NEW k \in Cols
               PROVE  get(Element[k][w]) = <<w, k>>
    BY DEF MapComplete
  <2>1. j = Nk
    BY DEF TableInv, TableTypeOK
  <2> QED
    BY <2>1, GetFinds
<1> QED
  BY <1>1, TableInvariant, PTL
-----------------------------------------------------------------------------
(***************************************************************************)
(* The rows that have been checked, and the errors among them.             *)
(***************************************************************************)
Checked(n, w) == n < it \/ (n = it /\ \E c \in ChunkIds : ChunkStart(c) <= w /\ w < row[c])

CheckTypeOK ==
  /\ identities \in Problems
  /\ DOMAIN identities = 1 .. Len(identities) /\ Len(identities) \in Nat
  /\ it \in DOMAIN identities
  /\ row = [c \in ChunkIds |-> row[c]]
  /\ \A c \in ChunkIds : row[c] \in ChunkStart(c) .. ChunkEnd(c)
  /\ phase \in {"generate", "duplicated"} => it = 1 /\ \A c \in ChunkIds : row[c] = ChunkStart(c)
  /\ phase = "end" => it = Len(identities) /\ \A c \in ChunkIds : row[c] = ChunkEnd(c)

ErrorsSoFar ==
  errors = { e \in (DOMAIN identities) \X Rows \X Cols :
               <<e[2], e[3]>> \in Broken(identities[e[1]]) /\ Checked(e[1], e[2]) }

CheckInv == CheckTypeOK /\ ErrorsSoFar
(***************************************************************************)
(* The chunks are of rows, and every row is in one.                        *)
(***************************************************************************)
LEMMA ChunksCover ==
  /\ \A c \in ChunkIds : ChunkStart(c) \in 0 .. N /\ ChunkEnd(c) \in 0 .. N /\ ChunkStart(c) <= ChunkEnd(c)
  /\ \A w \in Rows : \E c \in ChunkIds : ChunkStart(c) <= w /\ w < ChunkEnd(c)
<1> DEFINE q == N \div Chunks
<1>1. N \in Nat \ {0} /\ Chunks \in Nat \ {0} /\ q \in Nat /\ q * Chunks <= N
  BY Sizes
<1> HIDE DEF q
<1>2. \A c : ChunkStart(c) = c * q /\ ChunkEnd(c) = IF c = Chunks - 1 THEN N ELSE c * q + q
  BY DEF ChunkStart, ChunkEnd, q
<1>3. ASSUME NEW c \in ChunkIds
      PROVE  ChunkStart(c) \in 0 .. N /\ ChunkEnd(c) \in 0 .. N /\ ChunkStart(c) <= ChunkEnd(c)
  <2>1. PICK d \in Nat : Chunks = c + 1 + d
    <3>1. Chunks - (c + 1) \in Nat /\ Chunks = c + 1 + (Chunks - (c + 1))
      BY <1>1 DEF ChunkIds
    <3> QED
      BY <3>1
  <2>2. q * Chunks = c * q + q + d * q /\ c * q \in Nat /\ d * q \in Nat
    BY <1>1, <2>1 DEF ChunkIds
  <2>3. c * q \in Nat /\ c * q + q <= N
    BY <1>1, <2>2
  <2> QED
    BY <1>1, <1>2, <2>3
<1>4. ASSUME NEW w \in Rows
      PROVE  \E c \in ChunkIds : ChunkStart(c) <= w /\ w < ChunkEnd(c)
  <2>1. w \in Nat /\ w < N
    BY <1>1 DEF Rows
  <2>2. CASE (Chunks - 1) * q <= w
    <3>1. Chunks - 1 \in ChunkIds
      BY <1>1 DEF ChunkIds
    <3>2. ChunkStart(Chunks - 1) <= w /\ w < ChunkEnd(Chunks - 1)
      BY <1>2, <2>1, <2>2
    <3> QED
      BY <3>1, <3>2
  <2>3. CASE ~((Chunks - 1) * q <= w)
    <3>1. q # 0
      BY <2>1, <2>3, <1>1
    <3> DEFINE c == w \div q
    <3>2. c \in Nat /\ q * c <= w /\ w < q * c + q
      BY <3>1, <2>1, <1>1
    <3> HIDE DEF c
    <3>3. q * c = c * q
      BY <3>2, <1>1
    <3>4. c < Chunks - 1
      <4> SUFFICES ASSUME c >= Chunks - 1 PROVE FALSE
        BY <3>2, <1>1
      <4>1. PICK d \in Nat : c = Chunks - 1 + d
        <5>1. c - (Chunks - 1) \in Nat /\ c = Chunks - 1 + (c - (Chunks - 1))
          BY <3>2, <1>1
        <5> QED
          BY <5>1
      <4>2. c * q = (Chunks - 1) * q + d * q /\ d * q \in Nat /\ (Chunks - 1) * q \in Nat
        BY <4>1, <1>1
      <4> QED
        BY <4>2, <3>2, <3>3, <2>1, <2>3
    <3>5. c \in ChunkIds /\ c # Chunks - 1
      BY <3>2, <3>4, <1>1 DEF ChunkIds
    <3>6. ChunkStart(c) <= w /\ w < ChunkEnd(c)
      BY <3>2, <3>3, <3>5, <1>2
    <3> QED
      BY <3>5, <3>6
  <2> QED
    BY <2>2, <2>3
<1> QED
  BY <1>3, <1>4

(***************************************************************************)
(* The identities, and the cells of one.                                   *)
(***************************************************************************)
LEMMA ProblemFacts ==
  ASSUME identities \in Problems
  PROVE  /\ DOMAIN identities = 1 .. Len(identities) /\ Len(identities) \in Nat \ {0}
         /\ \A n \in DOMAIN identities :
              LET p == identities[n]
              IN /\ p.polsCount \in 1 .. Nk /\ 0 .. p.polsCount - 1 \subseteq Cols
                 /\ \A k \in 0 .. p.polsCount - 1, w \in Rows : p.connections[k][w] \in Nat
                 /\ DOMAIN p.connections = 0 .. p.polsCount - 1
<1>1. /\ identities # <<>> /\ identities \in Seq({ identities[k] : k \in DOMAIN identities })
      /\ \A k \in DOMAIN identities :
           /\ identities[k].polsCount \in 1 .. Nk
           /\ identities[k].connections \in [0 .. identities[k].polsCount - 1 -> [Rows -> Nat]]
  BY ConnectionsAssumption
<1>2. DOMAIN identities = 1 .. Len(identities) /\ Len(identities) \in Nat \ {0}
  BY <1>1, LenProperties, EmptySeq
<1>3. ASSUME NEW n \in DOMAIN identities
      PROVE  LET p == identities[n]
             IN /\ p.polsCount \in 1 .. Nk /\ 0 .. p.polsCount - 1 \subseteq Cols
                /\ \A k \in 0 .. p.polsCount - 1, w \in Rows : p.connections[k][w] \in Nat
                /\ DOMAIN p.connections = 0 .. p.polsCount - 1
  <2> DEFINE m == identities[n].polsCount  f == identities[n].connections
  <2>1. m \in 1 .. Nk /\ f \in [0 .. m - 1 -> [Rows -> Nat]] /\ Nk \in Nat
    BY <1>1, Sizes
  <2> HIDE DEF m, f
  <2>2. /\ 0 .. m - 1 \subseteq Cols /\ DOMAIN f = 0 .. m - 1
        /\ \A k \in 0 .. m - 1, w \in Rows : f[k][w] \in Nat
    BY <2>1 DEF Cols
  <2> QED
    BY <2>1, <2>2 DEF m, f
<1> QED
  BY <1>2, <1>3

(***************************************************************************)
(* What a row of a chunk adds.                                             *)
(***************************************************************************)
LEMMA DefinedFacts ==
  ASSUME TableInv, j = Nk, identities \in Problems, it \in DOMAIN identities,
         NEW w \in Rows, NEW k \in IdentityCols, Defined(k, w)
  PROVE  <<w, k>> \in Broken(Identity) <=> ~Matches(k, w)
<1> DEFINE p == Identity  v == p.connections[k][w]
<1>1. p = identities[it] /\ IdentityCols = 0 .. p.polsCount - 1
  BY DEF Identity, IdentityCols
<1>2. v \in Nat /\ IdentityCols \subseteq Cols
  BY <1>1, ProblemFacts
<1>3. Connected(k, w) = get(v)
  BY DEF Connected
<1> HIDE DEF v
<1>4. PICK u \in Rows, l \in Cols : get(v) = <<u, l>> /\ Element[l][u] = v
  <2>1. get(v) # NONE
    BY <1>3 DEF Defined
  <2> QED
    BY <2>1, <1>2, GetFacts
<1>5. l \in IdentityCols
  BY <1>3, <1>4 DEF Defined
<1>6. Matches(k, w) <=> p.pols[k][w] = p.pols[l][u]
  BY <1>3, <1>4 DEF Matches
<1>7. \A d : d \in Cells(p) <=> \E x \in Rows, y \in IdentityCols : d = <<x, y>>
  BY <1>1 DEF Cells
<1>8. \A x \in Rows, y \in IdentityCols : Element[y][x] = v => x = u /\ y = l
  BY <1>2, <1>4, Filled DEF TableInv, Distinct
<1>9. <<w, k>> \in Broken(p) <=> \E d \in Cells(p) : v = Element[d[2]][d[1]] /\ p.pols[k][w] # p.pols[d[2]][d[1]]
  BY <1>7 DEF Broken, v
<1> HIDE DEF p
<1>10. ASSUME <<w, k>> \in Broken(p) PROVE ~Matches(k, w)
  <2>1. PICK d \in Cells(p) : v = Element[d[2]][d[1]] /\ p.pols[k][w] # p.pols[d[2]][d[1]]
    BY <1>9, <1>10
  <2>2. PICK x \in Rows, y \in IdentityCols : d = <<x, y>>
    BY <1>7
  <2>3. x = u /\ y = l
    BY <2>1, <2>2, <1>8
  <2> QED
    BY <2>1, <2>2, <2>3, <1>6
<1>11. ASSUME ~Matches(k, w) PROVE <<w, k>> \in Broken(p)
  <2>1. <<u, l>> \in Cells(p)
    BY <1>5, <1>7
  <2>2. p.pols[k][w] # p.pols[l][u] /\ v = Element[l][u]
    BY <1>4, <1>6, <1>11
  <2> QED
    BY <2>1, <2>2, <1>9
<1> QED
  BY <1>10, <1>11 DEF p

LEMMA InitChecks == Init => CheckInv
<1> SUFFICES ASSUME Init PROVE CheckInv
  OBVIOUS
<1>1. /\ identities \in Problems /\ phase = "generate" /\ it = 1 /\ errors = {}
      /\ row = [c \in ChunkIds |-> ChunkStart(c)]
  BY DEF Init
<1>2. DOMAIN identities = 1 .. Len(identities) /\ Len(identities) \in Nat \ {0}
  BY <1>1, ProblemFacts
<1>3. \A c \in ChunkIds : row[c] = ChunkStart(c) /\ row[c] \in ChunkStart(c) .. ChunkEnd(c)
  BY <1>1, ChunksCover
<1>4. CheckTypeOK
  BY <1>1, <1>2, <1>3 DEF CheckTypeOK
<1>5. \A n \in DOMAIN identities, w \in Rows : ~Checked(n, w)
  <2> SUFFICES ASSUME NEW n \in DOMAIN identities, NEW w \in Rows,
                      n < it \/ (n = it /\ \E c \in ChunkIds : ChunkStart(c) <= w /\ w < row[c])
               PROVE  FALSE
    BY DEF Checked
  <2>1. ~(n < it)
    BY <1>1, <1>2
  <2>2. PICK c \in ChunkIds : ChunkStart(c) <= w /\ w < ChunkStart(c)
    BY <2>1, <1>3
  <2> QED
    BY <2>2, ChunksCover, Sizes
<1>6. ErrorsSoFar
  BY <1>1, <1>5 DEF ErrorsSoFar
<1> QED
  BY <1>4, <1>6 DEF CheckInv

(***************************************************************************)
(* A row that is checked.                                                  *)
(***************************************************************************)
LEMMA CheckRowInv ==
  ASSUME TableInv, CheckInv, NEW c \in ChunkIds, CheckRow(c)
  PROVE  CheckInv'
<1> DEFINE w == row[c]
           added == { <<it, w, k>> : k \in { l \in IdentityCols : ~Matches(l, w) } }
<1>1. phase = "check" /\ w < ChunkEnd(c) /\ UNCHANGED <<identities, it>>
  BY DEF CheckRow
<1>2. /\ identities \in Problems /\ it \in DOMAIN identities /\ j = Nk
      /\ DOMAIN identities = 1 .. Len(identities) /\ Len(identities) \in Nat
      /\ row = [d \in ChunkIds |-> row[d]]
      /\ \A d \in ChunkIds : row[d] \in ChunkStart(d) .. ChunkEnd(d)
  BY <1>1 DEF CheckInv, CheckTypeOK, TableInv, TableTypeOK
<1>3. w \in Rows /\ w + 1 \in ChunkStart(c) .. ChunkEnd(c)
  BY <1>1, <1>2, ChunksCover, Sizes DEF Rows
<1>4. CASE /\ \A k \in IdentityCols : Defined(k, w)
           /\ errors' = errors \cup added
           /\ row' = [row EXCEPT ![c] = @ + 1] /\ UNCHANGED phase
  <2>1. \A d \in ChunkIds : row'[d] = IF d = c THEN w + 1 ELSE row[d]
    BY <1>2, <1>4
  <2>2. row' = [d \in ChunkIds |-> row'[d]]
    BY <1>2, <1>4
  <2>3. CheckTypeOK'
    <3>1. \A d \in ChunkIds : row'[d] \in ChunkStart(d) .. ChunkEnd(d)
      BY <1>2, <1>3, <2>1
    <3> QED
      BY <1>1, <1>2, <1>4, <2>2, <3>1 DEF CheckTypeOK
  <2>4. ASSUME NEW n \in DOMAIN identities, NEW u \in Rows
        PROVE  Checked(n, u)' <=> Checked(n, u) \/ (n = it /\ u = w)
    <3>1. \A d \in ChunkIds : (ChunkStart(d) <= u /\ u < row'[d])
                                <=> (ChunkStart(d) <= u /\ u < row[d]) \/ (d = c /\ u = w)
      <4> TAKE d \in ChunkIds
      <4>1. row[d] \in Nat /\ ChunkStart(d) \in Nat /\ u \in Nat /\ ChunkStart(d) <= row[d]
        BY <1>2, ChunksCover, Sizes
      <4> QED
        BY <4>1, <2>1
    <3> QED
      BY <3>1, <1>1 DEF Checked
  <2>5. \A e \in (DOMAIN identities) \X Rows \X Cols :
          e \in added <=> <<e[2], e[3]>> \in Broken(identities[e[1]]) /\ e[1] = it /\ e[2] = w
    <3> SUFFICES ASSUME NEW n \in DOMAIN identities, NEW u \in Rows, NEW k \in Cols
                 PROVE  <<n, u, k>> \in added <=> <<u, k>> \in Broken(identities[n]) /\ n = it /\ u = w
      OBVIOUS
    <3>1. <<n, u, k>> \in added <=> n = it /\ u = w /\ k \in IdentityCols /\ ~Matches(k, w)
      OBVIOUS
    <3>2. <<u, k>> \in Broken(Identity) => k \in IdentityCols
      BY DEF Broken, Cells, IdentityCols
    <3>3. k \in IdentityCols => (<<w, k>> \in Broken(Identity) <=> ~Matches(k, w))
      BY <1>2, <1>3, <1>4, DefinedFacts
    <3> HIDE DEF added, w
    <3> QED
      BY <3>1, <3>2, <3>3 DEF Identity
  <2>6. added \subseteq (DOMAIN identities) \X Rows \X Cols
    <3>1. IdentityCols \subseteq Cols
      BY <1>2, ProblemFacts DEF IdentityCols, Identity
    <3> QED
      BY <1>2, <1>3, <3>1
  <2>7. ErrorsSoFar'
    <3> HIDE DEF added, w
    <3> DEFINE D == (DOMAIN identities) \X Rows \X Cols
               B(e) == <<e[2], e[3]>> \in Broken(identities[e[1]])
    <3>1. errors = { e \in D : B(e) /\ Checked(e[1], e[2]) }
      BY DEF CheckInv, ErrorsSoFar
    <3>2. \A e \in D : Checked(e[1], e[2])' <=> Checked(e[1], e[2]) \/ (e[1] = it /\ e[2] = w)
      BY <2>4
    <3>3. \A e \in D : e \in errors' <=> B(e) /\ Checked(e[1], e[2])'
      BY <3>1, <3>2, <2>5, <1>4
    <3>4. errors' \subseteq D
      BY <3>1, <2>6, <1>4
    <3>5. errors' = { e \in D : B(e) /\ Checked(e[1], e[2])' }
      BY <3>3, <3>4
    <3> QED
      BY <3>5, <1>1 DEF ErrorsSoFar, Checked
  <2> QED
    BY <2>3, <2>7 DEF CheckInv
<1>5. CASE phase' = "undefined" /\ UNCHANGED <<errors, row>>
  BY <1>1, <1>5 DEF CheckInv, CheckTypeOK, ErrorsSoFar, Checked
<1> QED
  BY <1>4, <1>5 DEF CheckRow

(***************************************************************************)
(* At the barrier all the rows of the identity have been checked.          *)
(***************************************************************************)
LEMMA JoinInv ==
  ASSUME CheckInv, Join
  PROVE  CheckInv'
<1>1. /\ phase = "check" /\ \A c \in ChunkIds : row[c] = ChunkEnd(c)
      /\ UNCHANGED <<identities, errors>>
      /\ \/ /\ it < Len(identities) /\ it' = it + 1
            /\ row' = [c \in ChunkIds |-> ChunkStart(c)] /\ UNCHANGED phase
         \/ ~(it < Len(identities)) /\ phase' = "end" /\ UNCHANGED <<it, row>>
  BY DEF Join
<1>2. /\ identities \in Problems /\ it \in DOMAIN identities
      /\ DOMAIN identities = 1 .. Len(identities) /\ Len(identities) \in Nat
  BY DEF CheckInv, CheckTypeOK
<1>3. CASE it < Len(identities) /\ it' = it + 1 /\ row' = [c \in ChunkIds |-> ChunkStart(c)] /\ UNCHANGED phase
  <2>1. CheckTypeOK'
    <3>1. it' \in DOMAIN identities
      BY <1>2, <1>3
    <3>2. \A c \in ChunkIds : row'[c] \in ChunkStart(c) .. ChunkEnd(c)
      BY <1>3, ChunksCover
    <3> QED
      BY <1>1, <1>2, <1>3, <3>1, <3>2 DEF CheckTypeOK
  <2>2. ASSUME NEW n \in DOMAIN identities, NEW u \in Rows
        PROVE  Checked(n, u)' <=> Checked(n, u)
    <3>1. \E c \in ChunkIds : ChunkStart(c) <= u /\ u < row[c]
      BY <1>1, ChunksCover
    <3>2. \A c \in ChunkIds : ~(ChunkStart(c) <= u /\ u < row'[c])
      BY <1>3, ChunksCover, Sizes
    <3>3. Checked(n, u) <=> n <= it
      BY <3>1, <1>2 DEF Checked
    <3>4. Checked(n, u)' <=> n < it + 1
      BY <3>2, <1>3 DEF Checked
    <3> QED
      BY <3>3, <3>4, <1>2
  <2>3. ErrorsSoFar'
    <3>1. \A e \in (DOMAIN identities) \X Rows \X Cols : Checked(e[1], e[2])' <=> Checked(e[1], e[2])
      BY <2>2
    <3>2. errors = { e \in (DOMAIN identities) \X Rows \X Cols :
                       <<e[2], e[3]>> \in Broken(identities[e[1]]) /\ Checked(e[1], e[2])' }
      BY <3>1 DEF CheckInv, ErrorsSoFar
    <3> QED
      BY <3>2, <1>1 DEF ErrorsSoFar, Checked
  <2> QED
    BY <2>1, <2>3 DEF CheckInv
<1>4. CASE ~(it < Len(identities)) /\ phase' = "end" /\ UNCHANGED <<it, row>>
  BY <1>1, <1>2, <1>4 DEF CheckInv, CheckTypeOK, ErrorsSoFar, Checked
<1> QED
  BY <1>1, <1>3, <1>4

LEMMA CheckStep == TableInv /\ CheckInv /\ [Next]_vars => CheckInv'
<1> SUFFICES ASSUME TableInv, CheckInv, [Next]_vars PROVE CheckInv'
  OBVIOUS
<1>1. CASE Collide
  BY <1>1 DEF Collide, CheckInv, CheckTypeOK, ErrorsSoFar, Checked
<1>2. CASE Insert
  BY <1>2 DEF Insert, CheckInv, CheckTypeOK, ErrorsSoFar, Checked
<1>3. ASSUME NEW c \in ChunkIds, CheckRow(c) PROVE CheckInv'
  BY <1>3, CheckRowInv
<1>4. CASE Join
  BY <1>4, JoinInv
<1>5. CASE Stop \/ UNCHANGED vars
  BY <1>5 DEF Stop, vars, CheckInv, CheckTypeOK, ErrorsSoFar, Checked
<1> QED
  BY <1>1, <1>2, <1>3, <1>4, <1>5 DEF Next

LEMMA CheckInvariant == Spec => [](TableInv /\ CheckInv)
  BY InitTable, TableStep, InitChecks, CheckStep, PTL DEF Spec

(***************************************************************************)
(* When the connections are of cells of their own identity, every row is   *)
(* defined.                                                                *)
(***************************************************************************)
AllWired == \A k \in DOMAIN identities : Wired(identities[k])
NotUndefined == AllWired => phase # "undefined"

LEMMA WiredRows ==
  ASSUME TableInv, CheckInv, j = Nk, Scattered, AllWired, NEW w \in Rows, NEW k \in IdentityCols
  PROVE  Defined(k, w)
<1> DEFINE p == Identity
<1>1. identities \in Problems /\ it \in DOMAIN identities /\ p = identities[it] /\ IdentityCols = 0 .. p.polsCount - 1
  BY DEF CheckInv, CheckTypeOK, Identity, IdentityCols
<1>2. Wired(p) /\ k \in DOMAIN p.connections /\ IdentityCols \subseteq Cols
  BY <1>1, ProblemFacts DEF AllWired
<1> HIDE DEF p
<1>3. PICK d \in Cells(p) : p.connections[k][w] = Element[d[2]][d[1]]
  BY <1>2 DEF Wired
<1>4. PICK u \in Rows, l \in IdentityCols : d = <<u, l>>
  BY <1>1 DEF Cells
<1>5. get(Element[l][u]) = <<u, l>> /\ <<u, l>> # NONE
  <2>1. l \in Cols
    BY <1>2
  <2>2. get(Element[l][u]) = <<u, l>>
    BY <2>1, GetFinds
  <2> QED
    BY <2>1, <2>2, Sizes
<1>6. Connected(k, w) = <<u, l>>
  BY <1>3, <1>4, <1>5 DEF Connected, p
<1> QED
  BY <1>5, <1>6 DEF Defined

LEMMA DefinedStep ==
  ASSUME Scattered
  PROVE  TableInv /\ CheckInv /\ NotUndefined /\ [Next]_vars => NotUndefined'
<1> SUFFICES ASSUME TableInv, CheckInv, NotUndefined, [Next]_vars, AllWired'
             PROVE  phase' # "undefined"
  BY DEF NotUndefined
<1>1. UNCHANGED identities
  BY DEF Next, Collide, Insert, CheckRow, Join, Stop, vars
<1>2. AllWired
  BY <1>1 DEF AllWired
<1>3. phase # "undefined"
  BY <1>2 DEF NotUndefined
<1>4. ASSUME NEW c \in ChunkIds, CheckRow(c) PROVE phase' # "undefined"
  <2>1. phase = "check" /\ row[c] < ChunkEnd(c)
    BY <1>4 DEF CheckRow
  <2>2. j = Nk /\ row[c] \in ChunkStart(c) .. ChunkEnd(c)
    BY <2>1 DEF TableInv, TableTypeOK, CheckInv, CheckTypeOK
  <2>3. row[c] \in Rows
    BY <2>1, <2>2, ChunksCover, Sizes DEF Rows
  <2>4. \A k \in IdentityCols : Defined(k, row[c])
    BY <2>2, <2>3, <1>2, WiredRows
  <2> QED
    BY <2>1, <2>4, <1>4 DEF CheckRow
<1>5. CASE Collide \/ Insert \/ Join \/ Stop \/ UNCHANGED vars
  BY <1>3, <1>5 DEF Collide, Insert, Join, Stop, vars
<1> QED
  BY <1>4, <1>5 DEF Next

(***************************************************************************)
(* At the end all rows of all identities have been checked.                *)
(***************************************************************************)
LEMMA EndErrors ==
  ASSUME CheckInv, phase = "end"
  PROVE  errors = UNION { { <<k, c[1], c[2]>> : c \in Broken(identities[k]) } : k \in DOMAIN identities }
<1> DEFINE D == DOMAIN identities
           all == UNION { { <<k, c[1], c[2]>> : c \in Broken(identities[k]) } : k \in D }
<1>1. /\ identities \in Problems /\ D = 1 .. Len(identities) /\ Len(identities) \in Nat
      /\ it = Len(identities) /\ \A c \in ChunkIds : row[c] = ChunkEnd(c)
  BY DEF CheckInv, CheckTypeOK
<1>2. \A n \in D, w \in Rows : Checked(n, w)
  BY <1>1, ChunksCover DEF Checked
<1>3. errors = { e \in D \X Rows \X Cols : <<e[2], e[3]>> \in Broken(identities[e[1]]) }
  BY <1>2 DEF CheckInv, ErrorsSoFar
<1>4. \A n \in D : \A c \in Broken(identities[n]) : \E w \in Rows, k \in Cols : c = <<w, k>>
  BY <1>1, ProblemFacts DEF Broken, Cells
<1>5. ASSUME NEW e \in errors PROVE e \in all
  <2>1. PICK n \in D, w \in Rows, k \in Cols : e = <<n, w, k>> /\ <<w, k>> \in Broken(identities[n])
    BY <1>3
  <2> QED
    BY <2>1
<1>6. ASSUME NEW e \in all PROVE e \in errors
  <2>1. PICK n \in D : e \in { <<n, c[1], c[2]>> : c \in Broken(identities[n]) }
    OBVIOUS
  <2>2. PICK c \in Broken(identities[n]) : e = <<n, c[1], c[2]>>
    BY <2>1
  <2>3. PICK w \in Rows, k \in Cols : c = <<w, k>>
    BY <1>4, <2>2
  <2> QED
    BY <2>2, <2>3, <1>3
<1> QED
  BY <1>5, <1>6

(***************************************************************************)
(* When every connection column names cells of its own identity, no column *)
(* is read out of its bounds; and at the end the printed errors are        *)
(* exactly the cells that differ from the cell they are connected to.      *)
(***************************************************************************)
THEOREM ErrorsAreExact ==
  ASSUME Scattered
  PROVE  Spec => []ErrorsExact
<1>1. Init => NotUndefined
  BY DEF Init, NotUndefined
<1>2. TableInv /\ CheckInv /\ NotUndefined /\ [Next]_vars => NotUndefined'
  BY DefinedStep
<1>3. CheckInv /\ NotUndefined => ErrorsExact
  BY EndErrors DEF ErrorsExact, NotUndefined, AllWired
<1> QED
  BY <1>1, <1>2, <1>3, CheckInvariant, PTL DEF Spec

(***************************************************************************)
(* The variables keep their types: the probing looks at no more keys than  *)
(* are occupied, the two tables have the same free keys, and no chunk goes *)
(* past its rows.                                                          *)
(***************************************************************************)
THEOREM TypeCorrect == Spec => []TypeOK
<1>1. TableInv /\ CheckInv => TypeOK
  <2> SUFFICES ASSUME TableInv, CheckInv PROVE TypeOK
    OBVIOUS
  <2>1. phase \in {"generate", "check", "end", "duplicated", "undefined"} /\ i \in Rows /\ key \in Keys
    BY DEF TableInv, TableTypeOK
  <2>2. j \in 0 .. Nk
    BY Sizes DEF TableInv, TableTypeOK, Cols
  <2>3. count \in Nat /\ count <= N * Nk
    <3>1. CASE j = Nk
      BY <3>1, Filled, Sizes
    <3>2. CASE j \in Cols
      <4>1. Number(i, j) \in 1 .. N * Nk /\ Number(i, j) = count + 1
        BY <2>1, <3>2, NumberFacts DEF Number, TableInv, TableTypeOK
      <4>2. count = j * N + i /\ i \in Nat /\ j \in Nat /\ N \in Nat
        BY <2>1, <2>2, Sizes DEF TableInv, TableTypeOK
      <4>3. count \in Nat
        BY <4>2
      <4> QED
        BY <4>1, <4>3, Sizes
    <3> QED
      BY <3>1, <3>2 DEF TableInv, TableTypeOK
  <2>4. cost \in 1 .. count + 1
    BY <2>3 DEF TableInv, TableTypeOK
  <2>5. count = Cardinality({ k \in Keys : hashTable[k] # NONE })
    BY DEF TableInv, TableTypeOK, Occupied
  <2>6. \A k \in Keys : hashTable[k] = NONE <=> ijTable[k] = NONE
    <3> TAKE k \in Keys
    <3>1. CASE hashTable[k] = NONE
      BY <3>1 DEF TableInv, Sound
    <3>2. CASE hashTable[k] # NONE
      <4>1. PICK w \in Rows, l \in Cols : ijTable[k] = <<w, l>>
        BY <3>2 DEF TableInv, Sound
      <4> QED
        BY <4>1, <3>2, Sizes
    <3> QED
      BY <3>1, <3>2
  <2> QED
    BY <2>1, <2>2, <2>3, <2>4, <2>5, <2>6 DEF TypeOK, CheckInv, CheckTypeOK
<1> QED
  BY <1>1, CheckInvariant, PTL
=============================================================================
