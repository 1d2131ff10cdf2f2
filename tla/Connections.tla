---------------------------- MODULE Connections ----------------------------
(***************************************************************************)
(* Engine::checkConnectionIdentities.  A ConnectionMap is generated: an    *)
(* open-addressed hash table from the field element k_j * w^i to its       *)
(* indices i, j.  Then the rows of each identity are checked in parallel   *)
(* chunks: every column must have the value of the cell that its           *)
(* connection column names.                                                *)
(***************************************************************************)
EXTENDS Naturals, Sequences, FiniteSets

CONSTANTS
  N,          \* number of rows, ConnectionMap::n
  Nk,         \* ConnectionMap::nk, the most columns of a connection
  HashSize,   \* ConnectionMap::hashSize
  Element,    \* Element[j][i]: stands for k_j * w^i; only equality and the
              \* remainder modulo HashSize matter
  Chunks,     \* 64 in the code
  NONE,       \* ConnectionMap::NONE
  Problems    \* the connection identities, with their columns evaluated

Rows == 0 .. N - 1
Cols == 0 .. Nk - 1
Keys == 0 .. HashSize - 1

ASSUME ConnectionsAssumption ==
  /\ N \in Nat \ {0} /\ Nk \in Nat \ {0} /\ Chunks \in Nat \ {0}
  /\ HashSize \in Nat /\ HashSize >= 8 * N * Nk
  /\ Element \in [Cols -> [Rows -> Nat]]
  /\ NONE \notin Nat /\ NONE \notin Rows \X Cols
  /\ \A p \in Problems :
       /\ p # <<>> /\ p \in Seq({ p[k] : k \in DOMAIN p })
       /\ \A k \in DOMAIN p :
            /\ p[k].polsCount \in 1 .. Nk
            /\ DOMAIN p[k].pols = 0 .. p[k].polsCount - 1
            /\ p[k].connections \in [0 .. p[k].polsCount - 1 -> [Rows -> Nat]]

VARIABLES
  identities,   \* connectionIdentities with the columns pols and connections
  phase,        \* "generate", "check", "end", "duplicated" or "undefined"
  j, i,         \* the loop variables of generate
  key, cost,    \* and of its probing
  hashTable,    \* hashTable[key]: an element, or NONE
  ijTable,      \* ijTable[key]: its indices <<i, j>>
  count,        \* the number of elements in the table
  it,           \* the identity that is checked
  row,          \* row[c]: the loop variable w of the thread of chunk c
  errors        \* what is printed: <<it, w, j>>

table == <<hashTable, ijTable, count>>
vars == <<identities, phase, j, i, key, cost, table, it, row, errors>>

(***************************************************************************)
(* hash(value, deep): the offset it computes is not used, so the probing   *)
(* is linear.                                                              *)
(***************************************************************************)
Hash(value, deep) == (value + deep) % HashSize

ChunkIds == 0 .. Chunks - 1
ChunkStart(c) == c * (N \div Chunks)

\* A seeded fault of ChunkEnd: no chunk has the remainder.
ChunkEndEven(c) == ChunkStart(c) + (N \div Chunks)

ChunkEnd(c) == IF c = Chunks - 1 THEN N ELSE ChunkStart(c) + (N \div Chunks)

Init ==
  /\ identities \in Problems
  /\ phase = "generate"
  /\ j = 0 /\ i = 0
  /\ key = Hash(Element[0][0], 0) /\ cost = 1
  /\ hashTable = [k \in Keys |-> NONE]
  /\ ijTable = [k \in Keys |-> NONE]
  /\ count = 0
  /\ it = 1
  /\ row = [c \in ChunkIds |-> ChunkStart(c)]
  /\ errors = {}
-----------------------------------------------------------------------------
(***************************************************************************)
(* generate, one turn of the probing for Element[j][i]: it throws on a     *)
(* value that is in the table.                                             *)
(***************************************************************************)
value == Element[j][i]

Collide ==
  /\ phase = "generate" /\ hashTable[key] # NONE
  /\ IF hashTable[key] = value
     THEN phase' = "duplicated" /\ UNCHANGED <<key, cost>>
     ELSE /\ key' = Hash(value, cost)
          /\ cost' = cost + 1
          /\ UNCHANGED phase
  /\ UNCHANGED <<identities, j, i, table, it, row, errors>>

\* A seeded fault of Insert: the element is not counted.
InsertUncounted ==
  /\ phase = "generate" /\ hashTable[key] = NONE
  /\ hashTable' = [hashTable EXCEPT ![key] = value]
  /\ ijTable' = [ijTable EXCEPT ![key] = <<i, j>>]
  /\ i' = IF i = N - 1 THEN 0 ELSE i + 1
  /\ j' = IF i = N - 1 THEN j + 1 ELSE j
  /\ phase' = IF j' = Nk THEN "check" ELSE phase
  /\ key' = IF j' = Nk THEN key ELSE Hash(Element[j'][i'], 0)
  /\ cost' = 1
  /\ UNCHANGED <<identities, count, it, row, errors>>

Insert ==
  /\ phase = "generate" /\ hashTable[key] = NONE
  /\ hashTable' = [hashTable EXCEPT ![key] = value]
  /\ ijTable' = [ijTable EXCEPT ![key] = <<i, j>>]
  /\ count' = count + 1
  /\ i' = IF i = N - 1 THEN 0 ELSE i + 1
  /\ j' = IF i = N - 1 THEN j + 1 ELSE j
  /\ phase' = IF j' = Nk THEN "check" ELSE phase
  /\ key' = IF j' = Nk THEN key ELSE Hash(Element[j'][i'], 0)
  /\ cost' = 1
  /\ UNCHANGED <<identities, it, row, errors>>
-----------------------------------------------------------------------------
(***************************************************************************)
(* get(v): the loop looks at probe number c while c < count, and stops at  *)
(* the first free or matching key.                                         *)
(***************************************************************************)
Probe(v, c) == hashTable[Hash(v, c - 1)]

\* A seeded fault of Hits: only the first key is looked at.
HitsFirst(v) == { c \in {1} : Probe(v, c) = v }

Hits(v) == { c \in 1 .. count - 1 : Probe(v, c) = v /\ \A d \in 1 .. c : Probe(v, d) # NONE }

get(v) ==
  IF Hits(v) = {} THEN NONE
  ELSE ijTable[Hash(v, (CHOOSE c \in Hits(v) : \A d \in Hits(v) : c <= d) - 1)]

Identity == identities[it]
IdentityCols == 0 .. Identity.polsCount - 1

(***************************************************************************)
(* What column k at row w is connected to.  NONE is not handled, and       *)
(* neither is a column that this identity does not have: pols[_j] is then  *)
(* read out of its bounds.                                                 *)
(***************************************************************************)
Connected(k, w) == get(Identity.connections[k][w])
Defined(k, w) == Connected(k, w) # NONE /\ Connected(k, w)[2] \in IdentityCols
Matches(k, w) ==
  Identity.pols[k][w] = Identity.pols[Connected(k, w)[2]][Connected(k, w)[1]]

(***************************************************************************)
(* A row of a chunk, all its columns.                                      *)
(***************************************************************************)
CheckRow(c) ==
  /\ phase = "check" /\ row[c] < ChunkEnd(c)
  /\ IF \A k \in IdentityCols : Defined(k, row[c])
     THEN /\ errors' = errors \cup { <<it, row[c], k>> : k \in { l \in IdentityCols : ~Matches(l, row[c]) } }
          /\ row' = [row EXCEPT ![c] = @ + 1]
          /\ UNCHANGED phase
     ELSE /\ phase' = "undefined"
          /\ UNCHANGED <<errors, row>>
  /\ UNCHANGED <<identities, j, i, key, cost, table, it>>

(***************************************************************************)
(* The barrier after the chunks of an identity.                            *)
(***************************************************************************)
Join ==
  /\ phase = "check" /\ \A c \in ChunkIds : row[c] = ChunkEnd(c)
  /\ IF it < Len(identities)
     THEN it' = it + 1 /\ row' = [c \in ChunkIds |-> ChunkStart(c)] /\ UNCHANGED phase
     ELSE phase' = "end" /\ UNCHANGED <<it, row>>
  /\ UNCHANGED <<identities, j, i, key, cost, table, errors>>

Stop == phase \in {"end", "duplicated", "undefined"} /\ UNCHANGED vars

Next == Collide \/ Insert \/ (\E c \in ChunkIds : CheckRow(c)) \/ Join \/ Stop

Spec == Init /\ [][Next]_vars
-----------------------------------------------------------------------------
TypeOK ==
  /\ phase \in {"generate", "check", "end", "duplicated", "undefined"}
  /\ j \in 0 .. Nk /\ i \in Rows
  /\ key \in Keys /\ cost \in 1 .. count + 1
  /\ \A k \in Keys : hashTable[k] = NONE <=> ijTable[k] = NONE
  /\ count = Cardinality({ k \in Keys : hashTable[k] # NONE }) /\ count <= N * Nk
  /\ it \in DOMAIN identities
  /\ \A c \in ChunkIds : row[c] \in ChunkStart(c) .. ChunkEnd(c)

(***************************************************************************)
(* The last cell that is inserted, the only one that get may miss: it      *)
(* looks at one key fewer than there are elements.  It does not miss it if *)
(* some element has its own key elsewhere than in the run of as many keys  *)
(* that starts at the key of the last.                                     *)
(***************************************************************************)
LastElement == Element[Nk - 1][N - 1]
Run == { Hash(LastElement, d) : d \in 0 .. N * Nk - 1 }
Scattered == \E k \in Cols : \E w \in Rows : Hash(Element[k][w], 0) \notin Run

(***************************************************************************)
(* What generate verifies when it is compiled with                         *)
(* __CONNECTION_MAP_VERIFY__: get finds the indices of each element.       *)
(***************************************************************************)
MapComplete ==
  phase = "check" => \A w \in Rows : \A k \in Cols : get(Element[k][w]) = <<w, k>>

(***************************************************************************)
(* When every connection column names cells of its own identity, no column *)
(* is read out of its bounds, and the printed errors are exactly the cells *)
(* that differ from the cell they are connected to: each row of each       *)
(* identity is checked, whatever the chunks.                               *)
(***************************************************************************)
Cells(p) == { <<w, k>> : w \in Rows, k \in 0 .. p.polsCount - 1 }
Wired(p) == \A k \in DOMAIN p.connections : \A w \in Rows :
              \E c \in Cells(p) : p.connections[k][w] = Element[c[2]][c[1]]

Broken(p) ==
  { c \in Cells(p) : \E d \in Cells(p) :
      p.connections[c[2]][c[1]] = Element[d[2]][d[1]] /\ p.pols[c[2]][c[1]] # p.pols[d[2]][d[1]] }

ErrorsExact ==
  /\ (\A k \in DOMAIN identities : Wired(identities[k])) => phase # "undefined"
  /\ phase = "end" =>
       errors = UNION { { <<k, c[1], c[2]>> : c \in Broken(identities[k]) } : k \in DOMAIN identities }
=============================================================================
