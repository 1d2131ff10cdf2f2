--------------------------- MODULE Lookups_proofs ---------------------------
(***************************************************************************)
(* Proofs about module Lookups: for every number of rows, of chunks and of *)
(* identities, every columns and selectors and every interleaving of the   *)
(* identities, the errors printed are those there are.                     *)
(*                                                                         *)
(* The second half is about module Operations, where the values of an      *)
(* expression that the identities read come from: for all trees, the       *)
(* vector of operations gives the value of the tree at every row.  Its     *)
(* names are distinct from those of Lookups, and nothing of the one is     *)
(* used for the other.                                                     *)
(***************************************************************************)
EXTENDS Lookups, Operations, SequenceTheorems, FiniteSetTheorems, TLAPS

SelT(i, w) == Selected(identities[i].selT, w)
SelF(i, w) == Selected(identities[i].selF, w)

(***************************************************************************)
(* The rows with tuple v on either side, and those that identity i has     *)
(* gone through.                                                           *)
(***************************************************************************)
AllT(i, v) == { w \in Rows : SelT(i, w) /\ TupleT(i, w) = v }
AllF(i, v) == { w \in Rows : SelF(i, w) /\ TupleF(i, w) = v }
PastT(i, v) == { w \in AllT(i, v) : w < rowT[i] }
PastF(i, v) == { w \in AllF(i, v) : w < row[i] }

TypeOK ==
  /\ kind \in {"plookup", "permutation"}
  /\ Index = 1 .. Len(identities) /\ Len(identities) \in Nat \ {0}
  /\ phase \in {"T", "F", "remaining", "end"}
  /\ rowT \in [Index -> 0 .. N]
  /\ tt = [i \in Index |-> tt[i]]
  /\ cyclic = [i \in Index |-> cyclic[i]]
  /\ chunk \in [Index -> 0 .. Chunks]
  /\ row \in [Index -> 0 .. N]
  /\ stop \in [Index -> BOOLEAN]
  /\ index \in Nat \ {0}

PhaseOK ==
  /\ phase = "T" => errors = {} /\ \A i \in Index : row[i] = 0 /\ chunk[i] = 0 /\ ~stop[i]
  /\ phase # "T" => \A i \in Index : rowT[i] = N
  /\ phase \in {"T", "F"} => index = 1
  /\ phase \in {"remaining", "end"} => \A i \in Index : chunk[i] = Chunks
  /\ phase = "remaining" => kind = "permutation"
  /\ phase = "end" => kind = "plookup" \/ index > Len(identities)

(***************************************************************************)
(* The table has the tuples of the T side; a count is what the T side has  *)
(* of the tuple, less what the F side has used up.                         *)
(***************************************************************************)
TableOK ==
  \A i \in Index :
    /\ tt[i] = [v \in DOMAIN tt[i] |-> tt[i][v]]
    /\ \A v : v \in DOMAIN tt[i] <=> PastT(i, v) # {}
    /\ \A v \in DOMAIN tt[i] :
         /\ tt[i][v] \in Nat
         /\ tt[i][v] + (IF kind = "permutation" THEN Cardinality(PastF(i, v)) ELSE 0)
              = Cardinality(PastT(i, v))

(***************************************************************************)
(* The tuples that the F side has passed have been found.                  *)
(***************************************************************************)
FoundOK == \A i \in Index : \A w \in Rows : w < row[i] /\ SelF(i, w) => TupleF(i, w) \in DOMAIN tt[i]

(***************************************************************************)
(* The row is in the chunk.                                                *)
(***************************************************************************)
ChunkOK ==
  \A i \in Index :
    /\ chunk[i] < Chunks => ChunkStart(chunk[i]) <= row[i] /\ row[i] <= ChunkEnd(chunk[i])
    /\ chunk[i] = Chunks /\ ~stop[i] => row[i] = N

(***************************************************************************)
(* The errors of verifyF are those of the identities it has left, at the   *)
(* row where it stopped; the others are of tuples that remain.             *)
(***************************************************************************)
ErrorF(i) == <<i, Failure(i, TupleF(i, row[i])), TupleF(i, row[i]), row[i]>>

ErrorsOK ==
  /\ \A i \in Index : stop[i] => /\ row[i] \in Rows
                                 /\ SelF(i, row[i])
                                 /\ Failure(i, TupleF(i, row[i])) # "none"
                                 /\ ErrorF(i) \in errors
  /\ \A e \in errors :
       \/ e[1] \in Index /\ stop[e[1]] /\ e = ErrorF(e[1])
       \/ /\ e[1] \in Index /\ phase \in {"remaining", "end"} /\ kind = "permutation"
          /\ e[3] \in Remaining(e[1])
          /\ e = <<e[1], "remainingValues", e[3], tt[e[1]][e[3]]>>
  /\ phase \in {"remaining", "end"} /\ kind = "permutation" =>
       \A i \in Index : i < index /\ Remaining(i) # {} =>
         \E e \in errors : e[1] = i /\ e[2] = "remainingValues"

(***************************************************************************)
(* The rows counted for the progress are those of the chunks that have     *)
(* ended, each once.                                                       *)
(***************************************************************************)
Counted(i) == IF chunk[i] = Chunks THEN N ELSE ChunkStart(chunk[i])
CountedRows == { e \in Index \X Rows : e[2] < Counted(e[1]) }
DoneOK == done = Cardinality(CountedRows)

LookupInv == TypeOK /\ PhaseOK /\ TableOK /\ FoundOK /\ ChunkOK /\ ErrorsOK /\ DoneOK
-----------------------------------------------------------------------------
(***************************************************************************)
(* One more row.                                                           *)
(***************************************************************************)
LEMMA RowFacts ==
  /\ N \in Nat \ {0} /\ Rows = 0 .. N - 1 /\ Rows \subseteq Nat
  /\ IsFiniteSet(Rows) /\ Cardinality(Rows) = N
  BY LookupsAssumption, FS_Interval DEF Rows

LEMMA Upto ==
  ASSUME NEW Q \in SUBSET Rows, NEW n \in 0 .. N
  PROVE  /\ IsFiniteSet({ w \in Q : w < n }) /\ Cardinality({ w \in Q : w < n }) \in Nat
         /\ Cardinality({ w \in Q : w < n }) = 0 <=> { w \in Q : w < n } = {}
         /\ { w \in Q : w < n + 1 } = IF n \in Q THEN { w \in Q : w < n } \cup {n} ELSE { w \in Q : w < n }
         /\ Cardinality({ w \in Q : w < n + 1 }) =
              Cardinality({ w \in Q : w < n }) + (IF n \in Q THEN 1 ELSE 0)
<1> DEFINE A == { w \in Q : w < n }
           B == { w \in Q : w < n + 1 }
<1>1. A \in SUBSET Rows /\ IsFiniteSet(A)
  BY RowFacts, FS_Subset
<1>2. Cardinality(A) \in Nat /\ (Cardinality(A) = 0 <=> A = {})
  BY <1>1, FS_CardinalityType, FS_EmptySet
<1>3. B = IF n \in Q THEN A \cup {n} ELSE A
  <2>1. \A w \in Q : w \in Nat /\ n \in Nat
    BY RowFacts
  <2> QED
    BY <2>1
<1>4. n \notin A
  OBVIOUS
<1> HIDE DEF A, B
<1>5. Cardinality(B) = Cardinality(A) + (IF n \in Q THEN 1 ELSE 0)
  BY <1>1, <1>2, <1>3, <1>4, FS_AddElement
<1> QED
  BY <1>1, <1>2, <1>3, <1>5 DEF A, B

(***************************************************************************)
(* What the problem determines stays.                                      *)
(***************************************************************************)
LEMMA Kept ==
  ASSUME UNCHANGED problem
  PROVE  /\ UNCHANGED <<kind, identities, evaluations>>
         /\ UNCHANGED Index
         /\ \A i, w : /\ SelT(i, w)' = SelT(i, w) /\ SelF(i, w)' = SelF(i, w)
                      /\ TupleT(i, w)' = TupleT(i, w) /\ TupleF(i, w)' = TupleF(i, w)
         /\ \A i, v : AllT(i, v)' = AllT(i, v) /\ AllF(i, v)' = AllF(i, v)
<1>1. UNCHANGED <<kind, identities, evaluations>>
  BY DEF problem
<1>2. \A i, w : SelT(i, w)' = SelT(i, w) /\ SelF(i, w)' = SelF(i, w)
  BY <1>1 DEF SelT, SelF, Selected, SelValue
<1>3. \A i, w : TupleT(i, w)' = TupleT(i, w) /\ TupleF(i, w)' = TupleF(i, w)
  BY <1>1 DEF TupleT, TupleF, Tuple, SelValue
<1> QED
  BY <1>1, <1>2, <1>3 DEF AllT, AllF, Index

LEMMA PastKept ==
  ASSUME UNCHANGED <<problem, rowT, row>>
  PROVE  \A i, v : PastT(i, v)' = PastT(i, v) /\ PastF(i, v)' = PastF(i, v)
  BY Kept DEF PastT, PastF

LEMMA TableKept ==
  ASSUME TableOK, FoundOK, UNCHANGED <<problem, rowT, tt, row>>
  PROVE  TableOK' /\ FoundOK'
<1>1. \A i, v : PastT(i, v)' = PastT(i, v) /\ PastF(i, v)' = PastF(i, v)
  BY PastKept
<1>2. TableOK'
  BY <1>1, Kept DEF TableOK
<1> QED
  BY <1>2, Kept DEF FoundOK

LEMMA ChunkKept ==
  ASSUME ChunkOK, UNCHANGED <<problem, chunk, row, stop>>
  PROVE  ChunkOK'
  BY Kept DEF ChunkOK, ChunkStart, ChunkEnd

LEMMA DoneKept ==
  ASSUME DoneOK, UNCHANGED <<problem, chunk, done>>
  PROVE  DoneOK'
  BY Kept DEF DoneOK, CountedRows, Counted, ChunkStart

(***************************************************************************)
(* The chunks follow each other and end with the last row.                 *)
(***************************************************************************)
LEMMA ChunkFacts ==
  /\ Chunks \in Nat \ {0} /\ ChunkStart(0) = 0
  /\ \A k \in 0 .. Chunks - 1 :
       /\ ChunkStart(k) \in 0 .. N /\ ChunkEnd(k) \in 0 .. N /\ ChunkStart(k) <= ChunkEnd(k)
       /\ IF k = Chunks - 1 THEN ChunkEnd(k) = N ELSE ChunkEnd(k) = ChunkStart(k + 1)
<1> DEFINE q == N \div Chunks
<1>1. N \in Nat \ {0} /\ Chunks \in Nat \ {0}
  BY LookupsAssumption
<1>2. q \in Nat /\ q * Chunks <= N
  BY <1>1
<1> HIDE DEF q
<1>3. ChunkStart(0) = 0
  BY <1>2 DEF ChunkStart, q
<1> SUFFICES ASSUME NEW k \in 0 .. Chunks - 1
             PROVE  /\ ChunkStart(k) \in 0 .. N /\ ChunkEnd(k) \in 0 .. N /\ ChunkStart(k) <= ChunkEnd(k)
                    /\ IF k = Chunks - 1 THEN ChunkEnd(k) = N ELSE ChunkEnd(k) = ChunkStart(k + 1)
  BY <1>1, <1>3
<1>4. PICK d \in Nat : Chunks = (k + 1) + d
  <2>1. Chunks - (k + 1) \in Nat /\ Chunks = (k + 1) + (Chunks - (k + 1))
    BY <1>1
  <2> QED
    BY <2>1
<1>5. q * Chunks = q * (k + 1) + q * d /\ q * d \in Nat /\ q * (k + 1) = q * k + q /\ q * k \in Nat
  BY <1>2, <1>4
<1>6. q * k + q <= N
  BY <1>1, <1>2, <1>5
<1>7. ChunkStart(k) = q * k /\ ChunkStart(k + 1) = q * (k + 1)
      /\ ChunkEnd(k) = IF k = Chunks - 1 THEN N ELSE q * k + q
  BY DEF ChunkStart, ChunkEnd, q
<1> QED
  BY <1>1, <1>2, <1>5, <1>6, <1>7
-----------------------------------------------------------------------------
LEMMA InitInv == Init => LookupInv
<1> SUFFICES ASSUME Init PROVE LookupInv
  OBVIOUS
<1>1. PICK p \in Problems : kind = p.kind /\ identities = p.identities /\ evaluations = p.columns
  BY DEF Init
<1>2. /\ kind \in {"plookup", "permutation"}
      /\ identities \in Seq({ identities[i] : i \in DOMAIN identities }) /\ identities # <<>>
  <2>1. /\ p.kind \in {"plookup", "permutation"} /\ p.identities # <<>>
        /\ p.identities \in Seq({ p.identities[i] : i \in DOMAIN p.identities })
    BY LookupsAssumption
  <2> DEFINE q == p.identities
  <2>2. q \in Seq({ q[i] : i \in DOMAIN q }) /\ identities = q
    BY <1>1, <2>1
  <2> HIDE DEF q
  <2>3. identities \in Seq({ identities[i] : i \in DOMAIN identities })
    BY <2>2
  <2> QED
    BY <1>1, <2>1, <2>3
<1>3. Index = 1 .. Len(identities) /\ Len(identities) \in Nat \ {0}
  BY <1>2, LenProperties, EmptySeq DEF Index
<1>4. TypeOK
  BY <1>2, <1>3, RowFacts, ChunkFacts DEF Init, TypeOK
<1>5. PhaseOK /\ ErrorsOK
  BY DEF Init, PhaseOK, ErrorsOK
<1>6. \A i, v : i \in Index => PastT(i, v) = {}
  BY RowFacts DEF Init, PastT, AllT
<1>7. \A i \in Index : tt[i] = <<>>
  BY DEF Init
<1>8. TableOK
  BY <1>6, <1>7 DEF TableOK
<1>9. FoundOK
  BY RowFacts DEF Init, FoundOK
<1>10. ChunkOK
  BY ChunkFacts DEF Init, ChunkOK
<1>11. DoneOK
  <2>1. CountedRows = {}
    <3>1. \A i \in Index : Counted(i) = 0
      BY ChunkFacts DEF Init, Counted
    <3> QED
      BY <3>1, RowFacts DEF CountedRows
  <2> QED
    BY <2>1, FS_EmptySet DEF Init, DoneOK
<1> QED
  BY <1>4, <1>5, <1>8, <1>9, <1>10, <1>11 DEF LookupInv
-----------------------------------------------------------------------------
(***************************************************************************)
(* What is past is a finite set of rows.                                   *)
(***************************************************************************)
LEMMA PastFacts ==
  ASSUME TypeOK, NEW i \in Index, NEW v
  PROVE  /\ IsFiniteSet(PastT(i, v)) /\ IsFiniteSet(PastF(i, v))
         /\ Cardinality(PastT(i, v)) \in Nat /\ (Cardinality(PastT(i, v)) = 0 <=> PastT(i, v) = {})
         /\ Cardinality(PastF(i, v)) \in Nat /\ (Cardinality(PastF(i, v)) = 0 <=> PastF(i, v) = {})
<1>1. rowT[i] \in 0 .. N /\ row[i] \in 0 .. N
  BY DEF TypeOK
<1>2. AllT(i, v) \in SUBSET Rows /\ AllF(i, v) \in SUBSET Rows
  BY DEF AllT, AllF
<1> QED
  BY <1>1, <1>2, Upto DEF PastT, PastF

(***************************************************************************)
(* What a failure is, and what remains, is in the table.                   *)
(***************************************************************************)
LEMMA FailureKept ==
  ASSUME UNCHANGED <<problem, tt>>
  PROVE  /\ \A i, v : Failure(i, v)' = Failure(i, v)
         /\ \A i : Remaining(i)' = Remaining(i)
  BY Kept DEF Failure, Remaining

LEMMA ErrorKept ==
  ASSUME UNCHANGED <<problem, tt, row>>
  PROVE  \A i : ErrorF(i)' = ErrorF(i) /\ Failure(i, TupleF(i, row[i]))' = Failure(i, TupleF(i, row[i]))
  BY FailureKept, Kept DEF ErrorF

LEMMA PrepareInv ==
  ASSUME LookupInv, NEW i \in Index, PrepareRow(i)
  PROVE  LookupInv'
<1> USE DEF LookupInv
<1>1. /\ phase = "T" /\ rowT[i] < N /\ rowT[i] \in Rows /\ rowT' = [rowT EXCEPT ![i] = @ + 1]
      /\ UNCHANGED <<problem, phase, chunk, row, stop, done, index, errors>>
  BY RowFacts DEF PrepareRow, TypeOK
<1>2. UNCHANGED <<kind, identities, evaluations>> /\ UNCHANGED Index
  BY <1>1, Kept
<1>3. rowT' \in [Index -> 0 .. N] /\ rowT'[i] = rowT[i] + 1 /\ \A j \in Index \ {i} : rowT'[j] = rowT[j]
  BY <1>1, RowFacts DEF TypeOK
<1>4. \A j \in Index \ {i} : tt'[j] = tt[j]
  BY DEF PrepareRow, TypeOK
<1>5. tt'[i] = IF SelT(i, rowT[i]) THEN Inserted(tt[i], TupleT(i, rowT[i])) ELSE tt[i]
  BY DEF PrepareRow, TypeOK, SelT
<1>6. TypeOK'
  <2>1. tt' = [j \in Index |-> tt'[j]] /\ cyclic' = [j \in Index |-> cyclic'[j]]
    BY DEF PrepareRow, TypeOK
  <2> QED
    BY <2>1, <1>1, <1>2, <1>3 DEF TypeOK
<1>7. PhaseOK'
  BY <1>1, <1>2 DEF PhaseOK
<1>8. \A j \in Index : row[j] = 0 /\ ~stop[j] /\ errors = {}
  BY <1>1 DEF PhaseOK
<1>9. \A j \in Index : \A v : PastF(j, v) = {} /\ PastF(j, v)' = {}
  BY <1>1, <1>2, <1>8, RowFacts DEF PastF, AllF
<1>10. TableOK'
  <2>0. Cardinality({}) = 0
    BY FS_EmptySet
  <2> SUFFICES ASSUME NEW j \in Index
               PROVE  /\ tt'[j] = [v \in DOMAIN tt'[j] |-> tt'[j][v]]
                      /\ \A v : v \in DOMAIN tt'[j] <=> PastT(j, v)' # {}
                      /\ \A v \in DOMAIN tt'[j] : tt'[j][v] \in Nat /\ tt'[j][v] = Cardinality(PastT(j, v)')
    <3> SUFFICES ASSUME NEW j \in Index
                 PROVE  /\ tt'[j] = [v \in DOMAIN tt'[j] |-> tt'[j][v]]
                        /\ \A v : v \in DOMAIN tt'[j] <=> PastT(j, v)' # {}
                        /\ \A v \in DOMAIN tt'[j] :
                             /\ tt'[j][v] \in Nat
                             /\ tt'[j][v] + (IF kind = "permutation" THEN Cardinality(PastF(j, v)') ELSE 0)
                                  = Cardinality(PastT(j, v)')
      BY <1>2 DEF TableOK
    <3>1. \A v : Cardinality(PastF(j, v)') = 0
      BY <2>0, <1>9
    <3> QED
      BY <3>1
  <2>1. \A v \in DOMAIN tt[j] : tt[j][v] \in Nat /\ tt[j][v] = Cardinality(PastT(j, v))
    <3> TAKE v \in DOMAIN tt[j]
    <3>1. Cardinality(PastF(j, v)) = 0
      BY <2>0, <1>9
    <3>2. /\ tt[j][v] \in Nat
          /\ tt[j][v] + (IF kind = "permutation" THEN Cardinality(PastF(j, v)) ELSE 0)
               = Cardinality(PastT(j, v))
      BY DEF TableOK
    <3> QED
      BY <3>1, <3>2
  <2>2. tt[j] = [v \in DOMAIN tt[j] |-> tt[j][v]] /\ \A v : v \in DOMAIN tt[j] <=> PastT(j, v) # {}
    BY DEF TableOK
  <2>3. CASE j # i
    <3>1. \A v : PastT(j, v)' = PastT(j, v)
      BY <2>3, <1>1, <1>3, Kept DEF PastT
    <3>2. tt'[j] = tt[j]
      BY <2>3, <1>4
    <3> QED
      BY <3>1, <3>2, <2>1, <2>2
  <2>4. CASE j = i
    <3> DEFINE n == rowT[i]  u == TupleT(i, n)
    <3>1. \A v : /\ PastT(i, v) = { w \in AllT(i, v) : w < n }
                 /\ PastT(i, v)' = { w \in AllT(i, v) : w < n + 1 }
      BY <1>1, <1>3, Kept DEF PastT
    <3>2. \A v : n \in AllT(i, v) <=> SelT(i, n) /\ u = v
      BY <1>1 DEF AllT
    <3>3. \A v : /\ PastT(i, v)' = IF SelT(i, n) /\ u = v THEN PastT(i, v) \cup {n} ELSE PastT(i, v)
                 /\ Cardinality(PastT(i, v)') = Cardinality(PastT(i, v)) + (IF SelT(i, n) /\ u = v THEN 1 ELSE 0)
                 /\ Cardinality(PastT(i, v)) \in Nat /\ (Cardinality(PastT(i, v)) = 0 <=> PastT(i, v) = {})
      <4> TAKE v
      <4> DEFINE Q == AllT(i, v)
      <4>1. Q \in SUBSET Rows /\ n \in 0 .. N
        BY <1>1, RowFacts DEF AllT
      <4>2. /\ Cardinality({ w \in Q : w < n }) \in Nat
            /\ Cardinality({ w \in Q : w < n }) = 0 <=> { w \in Q : w < n } = {}
            /\ { w \in Q : w < n + 1 } = IF n \in Q THEN { w \in Q : w < n } \cup {n} ELSE { w \in Q : w < n }
            /\ Cardinality({ w \in Q : w < n + 1 }) =
                 Cardinality({ w \in Q : w < n }) + (IF n \in Q THEN 1 ELSE 0)
        <5> HIDE DEF n, Q
        <5> QED
          BY <4>1, Upto
      <4>3. n \in Q <=> SelT(i, n) /\ u = v
        BY <3>2
      <4>4. PastT(i, v) = { w \in Q : w < n } /\ PastT(i, v)' = { w \in Q : w < n + 1 }
        BY <3>1
      <4> HIDE DEF n, u, Q
      <4> QED
        BY <4>2, <4>3, <4>4
    <3> HIDE DEF n, u
    <3>4. CASE ~SelT(i, n)
      <4>1. tt'[i] = tt[i]
        BY <3>4, <1>5 DEF n
      <4>2. \A v : PastT(i, v)' = PastT(i, v)
        BY <3>3, <3>4
      <4> QED
        BY <4>1, <4>2, <2>1, <2>2, <2>4
    <3>5. CASE SelT(i, n)
      <4>1. tt'[i] = [v \in DOMAIN tt[i] \cup {u} |->
                        IF v # u THEN tt[i][v] ELSE IF u \in DOMAIN tt[i] THEN tt[i][u] + 1 ELSE 1]
        BY <3>5, <1>5 DEF n, u, Inserted
      <4>2. \A v : v \in DOMAIN tt'[i] <=> PastT(i, v)' # {}
        BY <4>1, <3>3, <3>5, <2>2, <2>4
      <4>3. ASSUME NEW v \in DOMAIN tt'[i]
            PROVE  tt'[i][v] \in Nat /\ tt'[i][v] = Cardinality(PastT(i, v)')
        <5>1. CASE v # u
          BY <5>1, <4>1, <3>3, <2>1, <2>4
        <5>2. CASE v = u /\ u \in DOMAIN tt[i]
          BY <5>2, <4>1, <3>3, <3>5, <2>1, <2>4
        <5>3. CASE v = u /\ u \notin DOMAIN tt[i]
          <6>1. Cardinality(PastT(i, v)) = 0
            BY <5>3, <2>2, <2>4, <3>3
          <6> QED
            BY <6>1, <5>3, <4>1, <3>3, <3>5
        <5> QED
          BY <5>1, <5>2, <5>3
      <4>4. tt'[i] = [v \in DOMAIN tt'[i] |-> tt'[i][v]]
        BY <4>1
      <4> QED
        BY <4>2, <4>3, <4>4, <2>4
    <3> QED
      BY <3>4, <3>5
  <2> QED
    BY <2>3, <2>4
<1>11. FoundOK'
  BY <1>1, <1>2, <1>8, RowFacts DEF FoundOK
<1>12. ChunkOK' /\ DoneOK'
  BY <1>1, ChunkKept, DoneKept
<1>13. ErrorsOK'
  BY <1>1, <1>2, <1>8 DEF ErrorsOK
<1> QED
  BY <1>6, <1>7, <1>10, <1>11, <1>12, <1>13

LEMMA JoinTInv ==
  ASSUME LookupInv, JoinT
  PROVE  LookupInv'
<1> USE DEF LookupInv
<1>1. /\ phase = "T" /\ phase' = "F" /\ \A i \in Index : rowT[i] = N
      /\ UNCHANGED <<problem, rowT, tt, cyclic, chunk, row, stop, done, index, errors>>
  BY DEF JoinT
<1>2. UNCHANGED <<kind, identities, evaluations>> /\ UNCHANGED Index
  BY <1>1, Kept
<1>3. TypeOK'
  BY <1>1, <1>2 DEF TypeOK
<1>4. PhaseOK' /\ ErrorsOK'
  BY <1>1, <1>2 DEF PhaseOK, ErrorsOK
<1> QED
  BY <1>1, <1>3, <1>4, TableKept, ChunkKept, DoneKept

(***************************************************************************)
(* A row of a chunk, and the step to the next one.                         *)
(***************************************************************************)
LEMMA InChunkFacts ==
  ASSUME LookupInv, NEW i \in Index, InChunk(i)
  PROVE  /\ phase = "F" /\ index = 1 /\ \A j \in Index : rowT[j] = N
         /\ ~stop[i] /\ row[i] \in Rows /\ row[i] + 1 \in 0 .. N
         /\ chunk[i] \in 0 .. Chunks - 1 /\ row[i] < ChunkEnd(chunk[i])
         /\ \A e \in errors : e[1] \in Index /\ stop[e[1]] /\ e = ErrorF(e[1])
<1>1. phase = "F" /\ ~stop[i] /\ chunk[i] < Chunks /\ row[i] < ChunkEnd(chunk[i])
  BY DEF InChunk
<1>2. chunk[i] \in 0 .. Chunks /\ row[i] \in 0 .. N
  BY DEF LookupInv, TypeOK
<1>3. chunk[i] \in 0 .. Chunks - 1
  BY <1>1, <1>2, ChunkFacts
<1>4. ChunkEnd(chunk[i]) \in 0 .. N
  BY <1>3, ChunkFacts
<1>5. row[i] \in Rows /\ row[i] + 1 \in 0 .. N
  BY <1>1, <1>2, <1>4, RowFacts
<1>6. index = 1 /\ \A j \in Index : rowT[j] = N
  BY <1>1 DEF LookupInv, PhaseOK
<1>7. \A e \in errors : e[1] \in Index /\ stop[e[1]] /\ e = ErrorF(e[1])
  BY <1>1 DEF LookupInv, ErrorsOK
<1> QED
  BY <1>1, <1>3, <1>5, <1>6, <1>7

LEMMA RowStep ==
  ASSUME LookupInv, NEW i \in Index, InChunk(i), row' = [row EXCEPT ![i] = @ + 1],
         UNCHANGED <<problem, rowT, chunk, stop>>
  PROVE  /\ row' \in [Index -> 0 .. N] /\ row'[i] = row[i] + 1
         /\ \A j \in Index \ {i} : row'[j] = row[j]
         /\ \A j \in Index : \A v : PastT(j, v)' = PastT(j, v) /\ (j # i => PastF(j, v)' = PastF(j, v))
         /\ \A v : LET here == SelF(i, row[i]) /\ TupleF(i, row[i]) = v
                   IN Cardinality(PastF(i, v)') = Cardinality(PastF(i, v)) + (IF here THEN 1 ELSE 0)
         /\ ChunkOK'
<1> DEFINE n == row[i]
<1>1. row \in [Index -> 0 .. N] /\ n \in Rows /\ n \in 0 .. N /\ n + 1 \in 0 .. N
  BY InChunkFacts, RowFacts DEF LookupInv, TypeOK
<1>2. /\ row' \in [Index -> 0 .. N] /\ row'[i] = n + 1
      /\ \A j \in Index \ {i} : row'[j] = row[j]
  BY <1>1
<1>3. \A j \in Index : \A v : PastT(j, v)' = PastT(j, v) /\ (j # i => PastF(j, v)' = PastF(j, v))
  BY <1>2, Kept DEF PastT, PastF
<1>4. ASSUME NEW v
      PROVE  Cardinality(PastF(i, v)') =
               Cardinality(PastF(i, v)) + (IF SelF(i, n) /\ TupleF(i, n) = v THEN 1 ELSE 0)
  <2> DEFINE Q == AllF(i, v)
  <2>1. Q \in SUBSET Rows
    BY DEF AllF
  <2>2. n \in Q <=> SelF(i, n) /\ TupleF(i, n) = v
    BY <1>1 DEF AllF
  <2>3. PastF(i, v) = { w \in Q : w < n } /\ PastF(i, v)' = { w \in Q : w < n + 1 }
    BY <1>2, Kept DEF PastF
  <2>4. Cardinality({ w \in Q : w < n + 1 }) = Cardinality({ w \in Q : w < n }) + (IF n \in Q THEN 1 ELSE 0)
    <3> HIDE DEF Q, n
    <3> QED
      BY <1>1, <2>1, Upto
  <2> HIDE DEF Q, n
  <2> QED
    BY <2>2, <2>3, <2>4
<1>5. ChunkOK'
  <2>1. n < ChunkEnd(chunk[i]) /\ ChunkEnd(chunk[i]) \in 0 .. N /\ chunk[i] \in 0 .. Chunks - 1
    BY InChunkFacts, ChunkFacts
  <2>2. ChunkStart(chunk[i]) <= n /\ ChunkStart(chunk[i]) \in 0 .. N /\ chunk[i] # Chunks /\ chunk[i] < Chunks
    BY <2>1, ChunkFacts DEF LookupInv, ChunkOK
  <2>3. UNCHANGED Index
    BY Kept
  <2> SUFFICES ASSUME NEW j \in Index
               PROVE  /\ chunk[j] < Chunks => ChunkStart(chunk[j]) <= row'[j] /\ row'[j] <= ChunkEnd(chunk[j])
                      /\ chunk[j] = Chunks /\ ~stop[j] => row'[j] = N
    BY <2>3 DEF ChunkOK, ChunkStart, ChunkEnd
  <2>4. CASE j = i
    BY <2>4, <2>1, <2>2, <1>1, <1>2
  <2>5. CASE j # i
    BY <2>5, <1>2 DEF LookupInv, ChunkOK
  <2> QED
    BY <2>4, <2>5
<1> QED
  BY <1>2, <1>3, <1>4, <1>5

(***************************************************************************)
(* The errors stay as long as only identities that go on change.           *)
(***************************************************************************)
LEMMA StoppedKept ==
  ASSUME ErrorsOK, phase = "F", UNCHANGED <<problem, phase, stop, errors>>,
         \A j \in Index : stop[j] => row'[j] = row[j] /\ tt'[j] = tt[j]
  PROVE  ErrorsOK'
<1>1. UNCHANGED <<kind, identities, evaluations>> /\ UNCHANGED Index
  BY Kept
<1>2. \A j \in Index : stop[j] => /\ row'[j] = row[j] /\ ErrorF(j)' = ErrorF(j)
                                  /\ Failure(j, TupleF(j, row[j]))' = Failure(j, TupleF(j, row[j]))
  BY <1>1, Kept DEF ErrorF, Failure
<1>3. \A j \in Index : stop[j] => /\ row[j] \in Rows /\ SelF(j, row[j])
                                  /\ Failure(j, TupleF(j, row[j])) # "none" /\ ErrorF(j) \in errors
  BY DEF ErrorsOK
<1>4. \A j \in Index : stop[j] => Failure(j, TupleF(j, row[j]))' # "none" /\ SelF(j, row[j])'
  BY <1>2, <1>3, Kept
<1>5. \A e \in errors : e[1] \in Index /\ stop[e[1]] /\ e = ErrorF(e[1])
  BY DEF ErrorsOK
<1> QED
  BY <1>1, <1>2, <1>3, <1>4, <1>5 DEF ErrorsOK

LEMMA SkipInv ==
  ASSUME LookupInv, NEW i \in Index, SkipRow(i)
  PROVE  LookupInv'
<1>1. /\ InChunk(i) /\ ~SelF(i, row[i]) /\ row' = [row EXCEPT ![i] = @ + 1]
      /\ UNCHANGED <<problem, phase, rowT, tt, cyclic, chunk, stop, done, index, errors>>
  BY DEF SkipRow, SelF
<1>2. UNCHANGED <<kind, identities, evaluations>> /\ UNCHANGED Index
  BY <1>1, Kept
<1>3. /\ row' \in [Index -> 0 .. N] /\ row'[i] = row[i] + 1
      /\ \A j \in Index \ {i} : row'[j] = row[j]
      /\ \A j \in Index : \A v : PastT(j, v)' = PastT(j, v) /\ (j # i => PastF(j, v)' = PastF(j, v))
      /\ \A v : LET here == SelF(i, row[i]) /\ TupleF(i, row[i]) = v
                IN Cardinality(PastF(i, v)') = Cardinality(PastF(i, v)) + (IF here THEN 1 ELSE 0)
      /\ ChunkOK'
  BY <1>1, RowStep
<1>4. /\ phase = "F" /\ index = 1 /\ ~stop[i] /\ row[i] \in Rows
      /\ \A e \in errors : e[1] \in Index /\ stop[e[1]] /\ e = ErrorF(e[1])
  BY <1>1, InChunkFacts
<1>5. TypeOK'
  BY <1>1, <1>2, <1>3 DEF LookupInv, TypeOK
<1>6. PhaseOK'
  BY <1>1, <1>2, <1>4 DEF LookupInv, PhaseOK
<1>7. \A j \in Index : \A v : Cardinality(PastF(j, v)') = Cardinality(PastF(j, v))
  BY <1>1, <1>3, PastFacts DEF LookupInv
<1>8. TableOK'
  BY <1>1, <1>2, <1>3, <1>7 DEF LookupInv, TableOK
<1>9. FoundOK'
  <2> SUFFICES ASSUME NEW j \in Index, NEW w \in Rows, w < row'[j], SelF(j, w)
               PROVE  TupleF(j, w) \in DOMAIN tt[j]
    BY <1>1, <1>2, Kept DEF FoundOK
  <2>1. w < row[j]
    BY <1>1, <1>3, <1>4, RowFacts
  <2> QED
    BY <2>1 DEF LookupInv, FoundOK
<1>10. ErrorsOK'
  <2>1. \A j \in Index : stop[j] => row'[j] = row[j]
    BY <1>3, <1>4
  <2> QED
    BY <2>1, <1>1, <1>4, StoppedKept DEF LookupInv
<1>11. DoneOK'
  BY <1>1, DoneKept DEF LookupInv
<1> QED
  BY <1>3, <1>5, <1>6, <1>8, <1>9, <1>10, <1>11 DEF LookupInv

LEMMA FindInv ==
  ASSUME LookupInv, NEW i \in Index, FindRow(i)
  PROVE  LookupInv'
<1> DEFINE n == row[i]  u == TupleF(i, n)
<1>1. /\ InChunk(i) /\ SelF(i, n) /\ Failure(i, u) = "none" /\ row' = [row EXCEPT ![i] = @ + 1]
      /\ tt' = IF kind = "permutation" THEN [tt EXCEPT ![i] = [tt[i] EXCEPT ![u] = tt[i][u] - 1]] ELSE tt
      /\ UNCHANGED <<problem, phase, rowT, cyclic, chunk, stop, done, index, errors>>
  BY DEF FindRow, SelF
<1>2. UNCHANGED <<kind, identities, evaluations>> /\ UNCHANGED Index
  BY <1>1, Kept
<1>3. /\ row' \in [Index -> 0 .. N] /\ row'[i] = n + 1
      /\ \A j \in Index \ {i} : row'[j] = row[j]
      /\ \A j \in Index : \A v : PastT(j, v)' = PastT(j, v) /\ (j # i => PastF(j, v)' = PastF(j, v))
      /\ \A v : Cardinality(PastF(i, v)') = Cardinality(PastF(i, v)) + (IF u = v THEN 1 ELSE 0)
      /\ ChunkOK'
  <2>1. \A v : LET here == SelF(i, n) /\ u = v
               IN Cardinality(PastF(i, v)') = Cardinality(PastF(i, v)) + (IF here THEN 1 ELSE 0)
    BY <1>1, RowStep
  <2> QED
    BY <2>1, <1>1, RowStep
<1>4. /\ phase = "F" /\ index = 1 /\ ~stop[i] /\ n \in Rows
      /\ \A e \in errors : e[1] \in Index /\ stop[e[1]] /\ e = ErrorF(e[1])
  BY <1>1, InChunkFacts
<1>5. u \in DOMAIN tt[i] /\ (kind = "permutation" => tt[i][u] # 0)
  BY <1>1 DEF Failure
<1>6. tt = [j \in Index |-> tt[j]] /\ tt[i] = [v \in DOMAIN tt[i] |-> tt[i][v]]
      /\ \A v \in DOMAIN tt[i] : tt[i][v] \in Nat
  BY DEF LookupInv, TypeOK, TableOK
<1>7. /\ tt' = [j \in Index |-> tt'[j]] /\ \A j \in Index \ {i} : tt'[j] = tt[j]
      /\ DOMAIN tt'[i] = DOMAIN tt[i] /\ tt'[i] = [v \in DOMAIN tt'[i] |-> tt'[i][v]]
      /\ \A v \in DOMAIN tt[i] :
           tt'[i][v] = IF kind = "permutation" /\ v = u THEN tt[i][v] - 1 ELSE tt[i][v]
  <2>1. CASE kind = "permutation"
    <3> DEFINE f == [tt[i] EXCEPT ![u] = tt[i][u] - 1]
    <3>1. /\ DOMAIN f = DOMAIN tt[i] /\ f = [v \in DOMAIN f |-> f[v]]
          /\ \A v \in DOMAIN tt[i] : f[v] = IF v = u THEN tt[i][v] - 1 ELSE tt[i][v]
      BY <1>5, <1>6
    <3>2. tt' = [tt EXCEPT ![i] = f]
      BY <2>1, <1>1
    <3> HIDE DEF f, u
    <3>3. tt' = [j \in Index |-> tt'[j]] /\ tt'[i] = f /\ \A j \in Index \ {i} : tt'[j] = tt[j]
      BY <3>2, <1>6
    <3> QED
      BY <3>1, <3>3, <2>1
  <2>2. CASE kind # "permutation"
    BY <2>2, <1>1, <1>6
  <2> QED
    BY <2>1, <2>2
<1> HIDE DEF n, u
<1>8. TypeOK'
  BY <1>1, <1>2, <1>3, <1>7 DEF LookupInv, TypeOK
<1>9. PhaseOK'
  BY <1>1, <1>2, <1>4 DEF LookupInv, PhaseOK
<1>10. TableOK'
  <2> SUFFICES ASSUME NEW j \in Index
               PROVE  /\ tt'[j] = [v \in DOMAIN tt'[j] |-> tt'[j][v]]
                      /\ \A v : v \in DOMAIN tt'[j] <=> PastT(j, v) # {}
                      /\ \A v \in DOMAIN tt'[j] :
                           /\ tt'[j][v] \in Nat
                           /\ tt'[j][v] + (IF kind = "permutation" THEN Cardinality(PastF(j, v)') ELSE 0)
                                = Cardinality(PastT(j, v))
    <3> SUFFICES ASSUME NEW j \in Index
                 PROVE  /\ tt'[j] = [v \in DOMAIN tt'[j] |-> tt'[j][v]]
                        /\ \A v : v \in DOMAIN tt'[j] <=> PastT(j, v)' # {}
                        /\ \A v \in DOMAIN tt'[j] :
                             /\ tt'[j][v] \in Nat
                             /\ tt'[j][v] + (IF kind = "permutation" THEN Cardinality(PastF(j, v)') ELSE 0)
                                  = Cardinality(PastT(j, v)')
      BY <1>2 DEF TableOK
    <3>1. \A v : PastT(j, v)' = PastT(j, v)
      BY <1>3
    <3> QED
      BY <3>1
  <2>1. /\ tt[j] = [v \in DOMAIN tt[j] |-> tt[j][v]]
        /\ \A v : v \in DOMAIN tt[j] <=> PastT(j, v) # {}
        /\ \A v \in DOMAIN tt[j] :
             /\ tt[j][v] \in Nat
             /\ tt[j][v] + (IF kind = "permutation" THEN Cardinality(PastF(j, v)) ELSE 0)
                  = Cardinality(PastT(j, v))
    BY DEF LookupInv, TableOK
  <2>2. CASE j # i
    <3>1. tt'[j] = tt[j] /\ \A v : PastF(j, v)' = PastF(j, v)
      BY <2>2, <1>3, <1>7
    <3> QED
      BY <3>1, <2>1
  <2>3. CASE j = i
    <3>1. ASSUME NEW v \in DOMAIN tt'[i]
          PROVE  /\ tt'[i][v] \in Nat
                 /\ tt'[i][v] + (IF kind = "permutation" THEN Cardinality(PastF(i, v)') ELSE 0)
                      = Cardinality(PastT(i, v))
      <4>1. v \in DOMAIN tt[i]
        BY <1>7
      <4>2. /\ tt[i][v] \in Nat
            /\ tt[i][v] + (IF kind = "permutation" THEN Cardinality(PastF(i, v)) ELSE 0)
                 = Cardinality(PastT(i, v))
        BY <4>1, <2>1, <2>3
      <4>3. Cardinality(PastF(i, v)) \in Nat /\ Cardinality(PastT(i, v)) \in Nat
        BY PastFacts DEF LookupInv
      <4>4. Cardinality(PastF(i, v)') = Cardinality(PastF(i, v)) + (IF u = v THEN 1 ELSE 0)
        BY <1>3
      <4>5. CASE kind = "permutation" /\ v = u
        BY <4>1, <4>2, <4>3, <4>4, <4>5, <1>5, <1>7
      <4>6. CASE ~(kind = "permutation" /\ v = u)
        BY <4>1, <4>2, <4>3, <4>4, <4>6, <1>7
      <4> QED
        BY <4>5, <4>6
    <3> QED
      BY <3>1, <2>1, <2>3, <1>7
  <2> QED
    BY <2>2, <2>3
<1>11. FoundOK'
  <2> SUFFICES ASSUME NEW j \in Index, NEW w \in Rows, w < row'[j], SelF(j, w)
               PROVE  TupleF(j, w) \in DOMAIN tt'[j]
    BY <1>1, <1>2, Kept DEF FoundOK
  <2>1. DOMAIN tt'[j] = DOMAIN tt[j]
    BY <1>7
  <2>2. CASE j = i /\ w = n
    BY <2>1, <2>2, <1>5 DEF u
  <2>3. CASE ~(j = i /\ w = n)
    <3>1. w < row[j]
      BY <2>3, <1>3, <1>4, RowFacts DEF n
    <3> QED
      BY <2>1, <3>1 DEF LookupInv, FoundOK
  <2> QED
    BY <2>2, <2>3
<1>12. ErrorsOK'
  <2>1. \A j \in Index : stop[j] => row'[j] = row[j] /\ tt'[j] = tt[j]
    BY <1>3, <1>4, <1>7
  <2> QED
    BY <2>1, <1>1, <1>4, StoppedKept DEF LookupInv
<1>13. DoneOK'
  BY <1>1, DoneKept DEF LookupInv
<1> QED
  BY <1>3, <1>8, <1>9, <1>10, <1>11, <1>12, <1>13 DEF LookupInv

LEMMA FailInv ==
  ASSUME LookupInv, NEW i \in Index, FailRow(i)
  PROVE  LookupInv'
<1>1. /\ InChunk(i) /\ SelF(i, row[i]) /\ Failure(i, TupleF(i, row[i])) # "none"
      /\ errors' = errors \cup {ErrorF(i)} /\ stop' = [stop EXCEPT ![i] = TRUE]
      /\ UNCHANGED <<problem, phase, rowT, tt, cyclic, chunk, row, done, index>>
  BY DEF FailRow, SelF, ErrorF
<1>2. UNCHANGED <<kind, identities, evaluations>> /\ UNCHANGED Index
  BY <1>1, Kept
<1>3. /\ phase = "F" /\ index = 1 /\ ~stop[i] /\ row[i] \in Rows /\ chunk[i] \in 0 .. Chunks - 1
      /\ \A e \in errors : e[1] \in Index /\ stop[e[1]] /\ e = ErrorF(e[1])
  BY <1>1, InChunkFacts
<1>4. stop' \in [Index -> BOOLEAN] /\ stop'[i] /\ \A j \in Index \ {i} : stop'[j] = stop[j]
  BY <1>1 DEF LookupInv, TypeOK
<1>5. TypeOK'
  BY <1>1, <1>2, <1>4 DEF LookupInv, TypeOK
<1>6. PhaseOK'
  BY <1>1, <1>2, <1>3 DEF LookupInv, PhaseOK
<1>7. TableOK' /\ FoundOK'
  BY <1>1, TableKept DEF LookupInv
<1>8. ChunkOK'
  <2>1. \A j \in Index : chunk[j] = Chunks /\ ~stop'[j] => ~stop[j]
    BY <1>4
  <2> QED
    BY <2>1, <1>1, <1>2 DEF LookupInv, ChunkOK, ChunkStart, ChunkEnd
<1>9. ErrorsOK'
  <2>1. \A j \in Index : /\ ErrorF(j)' = ErrorF(j) /\ SelF(j, row[j])' = SelF(j, row[j])
                         /\ Failure(j, TupleF(j, row[j]))' = Failure(j, TupleF(j, row[j]))
    BY <1>1, ErrorKept, Kept
  <2>2. ASSUME NEW j \in Index, stop'[j]
        PROVE  /\ row[j] \in Rows /\ SelF(j, row[j]) /\ Failure(j, TupleF(j, row[j])) # "none"
               /\ ErrorF(j) \in errors'
    <3>1. CASE j = i
      BY <3>1, <1>1, <1>3
    <3>2. CASE j # i
      BY <3>2, <2>2, <1>1, <1>4 DEF LookupInv, ErrorsOK
    <3> QED
      BY <3>1, <3>2
  <2>3. \A e \in errors' : e[1] \in Index /\ stop'[e[1]] /\ e = ErrorF(e[1])
    <3>1. ErrorF(i)[1] = i
      BY DEF ErrorF
    <3> QED
      BY <3>1, <1>1, <1>3, <1>4
  <2>4. \A e \in errors' : e = ErrorF(e[1])'
    BY <2>1, <2>3
  <2> QED
    BY <2>1, <2>2, <2>3, <2>4, <1>1, <1>2, <1>3 DEF ErrorsOK
<1>10. DoneOK'
  BY <1>1, DoneKept DEF LookupInv
<1> QED
  BY <1>5, <1>6, <1>7, <1>8, <1>9, <1>10 DEF LookupInv

(***************************************************************************)
(* The rows counted are of the identities' rows, and all of them when the  *)
(* F side is done.                                                         *)
(***************************************************************************)
LEMMA CountedFacts ==
  ASSUME TypeOK
  PROVE  /\ IsFiniteSet(Index \X Rows) /\ Cardinality(Index \X Rows) = N * Len(identities)
         /\ CountedRows \subseteq Index \X Rows /\ IsFiniteSet(CountedRows)
         /\ Cardinality(CountedRows) \in Nat /\ Cardinality(CountedRows) <= N * Len(identities)
         /\ (\A i \in Index : chunk[i] = Chunks) => CountedRows = Index \X Rows
<1>1. IsFiniteSet(Index) /\ Cardinality(Index) = Len(identities) /\ Len(identities) \in Nat
  BY FS_Interval DEF TypeOK
<1>2. IsFiniteSet(Index \X Rows) /\ Cardinality(Index \X Rows) = N * Len(identities)
  <2>1. IsFiniteSet(Index \X Rows) /\ Cardinality(Index \X Rows) = Cardinality(Index) * Cardinality(Rows)
    BY <1>1, RowFacts, FS_Product
  <2>2. Len(identities) * N = N * Len(identities)
    BY <1>1, RowFacts
  <2> QED
    BY <2>1, <2>2, <1>1, RowFacts
<1>3. CountedRows \subseteq Index \X Rows
  BY DEF CountedRows
<1>4. IsFiniteSet(CountedRows) /\ Cardinality(CountedRows) <= N * Len(identities)
  BY <1>2, <1>3, FS_Subset
<1>5. Cardinality(CountedRows) \in Nat
  BY <1>4, FS_CardinalityType
<1>6. ASSUME \A i \in Index : chunk[i] = Chunks
      PROVE  CountedRows = Index \X Rows
  BY <1>6, RowFacts DEF CountedRows, Counted
<1> QED
  BY <1>2, <1>3, <1>4, <1>5, <1>6

LEMMA EndInv ==
  ASSUME LookupInv, NEW i \in Index, EndChunk(i)
  PROVE  LookupInv'
<1> DEFINE c == chunk[i]
           a == ChunkStart(c)
           b == IF stop[i] THEN N ELSE ChunkEnd(c)
<1>1. /\ phase = "F" /\ c < Chunks /\ (stop[i] \/ row[i] = ChunkEnd(c))
      /\ done' = done + b - a
      /\ chunk' = [chunk EXCEPT ![i] = IF stop[i] THEN Chunks ELSE @ + 1]
      /\ UNCHANGED <<problem, phase, rowT, tt, cyclic, row, stop, index, errors>>
  BY DEF EndChunk
<1>2. UNCHANGED <<kind, identities, evaluations>> /\ UNCHANGED Index
  BY <1>1, Kept
<1>3. /\ c \in 0 .. Chunks - 1 /\ Chunks \in Nat \ {0}
      /\ a \in 0 .. N /\ b \in 0 .. N /\ a <= b /\ ChunkEnd(c) \in 0 .. N
      /\ IF c = Chunks - 1 THEN ChunkEnd(c) = N ELSE ChunkEnd(c) = ChunkStart(c + 1)
  <2>1. c \in 0 .. Chunks - 1 /\ Chunks \in Nat \ {0}
    BY <1>1, ChunkFacts DEF LookupInv, TypeOK
  <2> HIDE DEF c
  <2> QED
    BY <2>1, ChunkFacts, RowFacts
<1>4. /\ chunk' \in [Index -> 0 .. Chunks] /\ \A j \in Index \ {i} : chunk'[j] = chunk[j]
      /\ chunk'[i] = IF stop[i] THEN Chunks ELSE c + 1
  <2>1. chunk \in [Index -> 0 .. Chunks]
    BY DEF LookupInv, TypeOK
  <2> QED
    BY <2>1, <1>1, <1>3
<1>5. TypeOK'
  BY <1>1, <1>2, <1>4 DEF LookupInv, TypeOK
<1>6. PhaseOK'
  BY <1>1, <1>2 DEF LookupInv, PhaseOK
<1>7. TableOK' /\ FoundOK'
  BY <1>1, TableKept DEF LookupInv
<1>8. ErrorsOK'
  BY <1>1, StoppedKept DEF LookupInv
<1>9. ChunkOK'
  <2> SUFFICES ASSUME NEW j \in Index
               PROVE  /\ chunk'[j] < Chunks => ChunkStart(chunk'[j]) <= row[j] /\ row[j] <= ChunkEnd(chunk'[j])
                      /\ chunk'[j] = Chunks /\ ~stop[j] => row[j] = N
    BY <1>1, <1>2 DEF ChunkOK, ChunkStart, ChunkEnd
  <2>1. CASE j # i
    BY <2>1, <1>4 DEF LookupInv, ChunkOK
  <2>2. CASE j = i /\ stop[i]
    BY <2>2, <1>3, <1>4
  <2>3. CASE j = i /\ ~stop[i]
    <3>1. chunk'[i] = c + 1 /\ row[i] = ChunkEnd(c)
      BY <2>3, <1>1, <1>4
    <3>2. CASE c = Chunks - 1
      BY <3>1, <3>2, <2>3, <1>3
    <3>3. CASE c # Chunks - 1
      <4>1. c + 1 \in 0 .. Chunks - 1 /\ ChunkEnd(c) = ChunkStart(c + 1)
        BY <3>3, <1>3
      <4>2. ChunkStart(c + 1) \in 0 .. N /\ ChunkEnd(c + 1) \in 0 .. N /\ ChunkStart(c + 1) <= ChunkEnd(c + 1)
        BY <4>1, ChunkFacts
      <4> HIDE DEF c
      <4> QED
        BY <4>1, <4>2, <3>1, <2>3
    <3> QED
      BY <3>2, <3>3
  <2> QED
    BY <2>1, <2>2, <2>3
<1>10. DoneOK'
  <2> DEFINE D == {i} \X (a .. b - 1)
  <2>1. Counted(i) = a /\ Counted(i)' = b
    <3>1. Counted(i) = a
      BY <1>1, <1>3 DEF Counted
    <3>2. chunk'[i] = (IF stop[i] THEN Chunks ELSE c + 1)
      BY <1>4
    <3>3. Counted(i)' = IF chunk'[i] = Chunks THEN N ELSE ChunkStart(chunk'[i])
      BY DEF Counted, ChunkStart
    <3> HIDE DEF c
    <3>4. CASE stop[i]
      BY <3>1, <3>2, <3>3, <3>4
    <3>5. CASE ~stop[i] /\ c = Chunks - 1
      BY <3>1, <3>2, <3>3, <3>5, <1>3
    <3>6. CASE ~stop[i] /\ c # Chunks - 1
      BY <3>1, <3>2, <3>3, <3>6, <1>3
    <3> QED
      BY <3>1, <3>4, <3>5, <3>6
  <2>2. \A j \in Index \ {i} : Counted(j)' = Counted(j)
    BY <1>4 DEF Counted, ChunkStart
  <2>3. CountedRows' = { e \in Index \X Rows : e[2] < Counted(e[1])' }
    BY <1>2 DEF CountedRows
  <2>4. CountedRows' = CountedRows \cup D /\ CountedRows \cap D = {}
    <3> HIDE DEF a, b
    <3>1. ASSUME NEW j \in Index, NEW w \in Rows
          PROVE  /\ w < Counted(j)' <=> w < Counted(j) \/ <<j, w>> \in D
                 /\ ~(w < Counted(j) /\ <<j, w>> \in D)
      BY <2>1, <2>2, <1>3, RowFacts
    <3>2. \A e \in D : e = <<i, e[2]>> /\ e[2] \in Rows /\ e \in Index \X Rows
      BY <1>3, RowFacts
    <3>3. \A j \in Index, w \in Rows : <<j, w>> \in CountedRows <=> w < Counted(j)
      BY DEF CountedRows
    <3>4. \A j \in Index, w \in Rows : <<j, w>> \in CountedRows' <=> w < Counted(j)'
      BY <2>3
    <3>5. CountedRows \subseteq Index \X Rows /\ CountedRows' \subseteq Index \X Rows
      BY <2>3 DEF CountedRows
    <3> HIDE DEF D
    <3>6. ASSUME NEW e
          PROVE  /\ e \in CountedRows' <=> e \in CountedRows \cup D
                 /\ e \notin CountedRows \cap D
      <4>1. CASE e \in Index \X Rows
        <5>1. PICK j \in Index, w \in Rows : e = <<j, w>>
          BY <4>1
        <5> QED
          BY <5>1, <3>1, <3>3, <3>4
      <4>2. CASE e \notin Index \X Rows
        BY <4>2, <3>2, <3>5
      <4> QED
        BY <4>1, <4>2
    <3> QED
      BY <3>6
  <2>5. IsFiniteSet(D) /\ Cardinality(D) = b - a
    <3> HIDE DEF a, b
    <3>1. IsFiniteSet(a .. b - 1) /\ Cardinality(a .. b - 1) = b - a
      <4>1. a \in Int /\ b - 1 \in Int /\ a <= b /\ b \in Int
        BY <1>3
      <4>2. /\ IsFiniteSet(a .. b - 1)
            /\ Cardinality(a .. b - 1) = IF a > b - 1 THEN 0 ELSE (b - 1) - a + 1
        BY <4>1, FS_Interval
      <4> QED
        BY <4>1, <4>2
    <3>2. IsFiniteSet({i}) /\ Cardinality({i}) = 1
      BY FS_Singleton
    <3>3. Cardinality(D) = 1 * (b - a) /\ IsFiniteSet(D)
      BY <3>1, <3>2, FS_Product
    <3> QED
      BY <3>3, <1>3
  <2>6. IsFiniteSet(CountedRows) /\ Cardinality(CountedRows) \in Nat
    BY CountedFacts DEF LookupInv
  <2> HIDE DEF D
  <2>7. Cardinality(CountedRows') = Cardinality(CountedRows) + Cardinality(D)
    <3>1. Cardinality(CountedRows \cap D) = 0
      BY <2>4, FS_EmptySet
    <3>2. Cardinality(CountedRows \cup D) =
            Cardinality(CountedRows) + Cardinality(D) - Cardinality(CountedRows \cap D)
      BY <2>5, <2>6, FS_Union
    <3>3. Cardinality(D) \in Nat
      BY <2>5, FS_CardinalityType
    <3> QED
      BY <3>1, <3>2, <3>3, <2>4, <2>6
  <2>8. done = Cardinality(CountedRows) /\ done' = done + b - a
    BY <1>1 DEF LookupInv, DoneOK
  <2>9. a \in Nat /\ b \in Nat
    BY <1>3
  <2> HIDE DEF a, b
  <2>10. done' = Cardinality(CountedRows')
    BY <2>5, <2>6, <2>7, <2>8, <2>9
  <2>11. Cardinality(CountedRows)' = Cardinality(CountedRows')
    OBVIOUS
  <2> QED
    BY <2>10, <2>11 DEF DoneOK
<1> QED
  BY <1>5, <1>6, <1>7, <1>8, <1>9, <1>10 DEF LookupInv

LEMMA JoinFInv ==
  ASSUME LookupInv, JoinF
  PROVE  LookupInv'
<1>1. /\ phase = "F" /\ \A i \in Index : chunk[i] = Chunks
      /\ phase' = IF kind = "permutation" THEN "remaining" ELSE "end"
      /\ UNCHANGED <<problem, rowT, tt, cyclic, chunk, row, stop, done, index, errors>>
  BY DEF JoinF
<1>2. UNCHANGED <<kind, identities, evaluations>> /\ UNCHANGED Index
  BY <1>1, Kept
<1>3. kind \in {"plookup", "permutation"} /\ index = 1
  BY <1>1 DEF LookupInv, TypeOK, PhaseOK
<1>4. TypeOK'
  BY <1>1, <1>2 DEF LookupInv, TypeOK
<1>5. PhaseOK'
  BY <1>1, <1>2, <1>3 DEF LookupInv, PhaseOK
<1>6. ErrorsOK'
  <2>1. \A i : ErrorF(i)' = ErrorF(i) /\ Failure(i, TupleF(i, row[i]))' = Failure(i, TupleF(i, row[i]))
    BY <1>1, ErrorKept
  <2>2. \A i : SelF(i, row[i])' = SelF(i, row[i])
    BY <1>1, Kept
  <2>3. \A i \in Index : stop[i] => /\ row[i] \in Rows /\ SelF(i, row[i])
                                    /\ Failure(i, TupleF(i, row[i])) # "none" /\ ErrorF(i) \in errors
    BY DEF LookupInv, ErrorsOK
  <2>4. \A e \in errors : e[1] \in Index /\ stop[e[1]] /\ e = ErrorF(e[1])
    BY <1>1 DEF LookupInv, ErrorsOK
  <2>5. \A i \in Index : ~(i < index)
    BY <1>3 DEF LookupInv, TypeOK
  <2> QED
    BY <2>1, <2>2, <2>3, <2>4, <2>5, <1>1, <1>2 DEF ErrorsOK
<1> QED
  BY <1>1, <1>4, <1>5, <1>6, TableKept, ChunkKept, DoneKept DEF LookupInv

(***************************************************************************)
(* The three parts of ErrorsOK when only the phase, the index and the      *)
(* errors change.                                                          *)
(***************************************************************************)
LEMMA RemainingKept ==
  ASSUME LookupInv, UNCHANGED <<problem, rowT, tt, cyclic, chunk, row, stop, done>>,
         phase' \in {"remaining", "end"}, phase = "remaining", errors \subseteq errors',
         \A e \in errors' \ errors : /\ e[1] \in Index /\ e[3] \in Remaining(e[1])
                                     /\ e = <<e[1], "remainingValues", e[3], tt[e[1]][e[3]]>>,
         \A i \in Index : i < index' /\ Remaining(i) # {} =>
           \E e \in errors' : e[1] = i /\ e[2] = "remainingValues"
  PROVE  ErrorsOK'
<1>1. UNCHANGED <<kind, identities, evaluations>> /\ UNCHANGED Index
  BY Kept
<1>2. kind = "permutation"
  BY DEF LookupInv, PhaseOK
<1>3. \A i : ErrorF(i)' = ErrorF(i) /\ Failure(i, TupleF(i, row[i]))' = Failure(i, TupleF(i, row[i]))
  BY ErrorKept
<1>4. \A i : SelF(i, row[i])' = SelF(i, row[i]) /\ Remaining(i)' = Remaining(i)
  BY Kept, FailureKept
<1>5. \A i \in Index : stop[i] => /\ row[i] \in Rows /\ SelF(i, row[i])
                                  /\ Failure(i, TupleF(i, row[i])) # "none" /\ ErrorF(i) \in errors'
  BY DEF LookupInv, ErrorsOK
<1>6. \A e \in errors' : \/ e[1] \in Index /\ stop[e[1]] /\ e = ErrorF(e[1])
                         \/ /\ e[1] \in Index /\ e[3] \in Remaining(e[1])
                            /\ e = <<e[1], "remainingValues", e[3], tt[e[1]][e[3]]>>
  <2> TAKE e \in errors'
  <2>1. CASE e \in errors
    BY <2>1 DEF LookupInv, ErrorsOK
  <2>2. CASE e \notin errors
    BY <2>2
  <2> QED
    BY <2>1, <2>2
<1>7. \A i \in Index' : stop'[i] => /\ row'[i] \in Rows /\ SelF(i, row[i])'
                                    /\ Failure(i, TupleF(i, row[i]))' # "none" /\ ErrorF(i)' \in errors'
  BY <1>1, <1>3, <1>4, <1>5
<1>8. \A e \in errors' :
        \/ e[1] \in Index' /\ stop'[e[1]] /\ e = ErrorF(e[1])'
        \/ /\ e[1] \in Index' /\ e[3] \in Remaining(e[1])'
           /\ e = <<e[1], "remainingValues", e[3], tt'[e[1]][e[3]]>>
  BY <1>1, <1>3, <1>4, <1>6
<1>9. \A i \in Index' : i < index' /\ Remaining(i)' # {} =>
        \E e \in errors' : e[1] = i /\ e[2] = "remainingValues"
  BY <1>1, <1>4
<1> QED
  BY <1>1, <1>2, <1>7, <1>8, <1>9 DEF ErrorsOK

LEMMA ReportInv ==
  ASSUME LookupInv, ReportRemaining
  PROVE  LookupInv'
<1>1. PICK v \in Remaining(index) :
        errors' = errors \cup {<<index, "remainingValues", v, tt[index][v]>>}
  BY DEF ReportRemaining
<1>2. /\ phase = "remaining" /\ index <= Len(identities) /\ index' = index + 1
      /\ UNCHANGED <<problem, phase, rowT, tt, cyclic, chunk, row, stop, done>>
  BY DEF ReportRemaining
<1>3. index \in Index /\ UNCHANGED <<kind, identities, evaluations>> /\ UNCHANGED Index
  BY <1>2, Kept DEF LookupInv, TypeOK
<1>4. TypeOK'
  BY <1>2, <1>3 DEF LookupInv, TypeOK
<1>5. PhaseOK'
  BY <1>2, <1>3 DEF LookupInv, PhaseOK
<1>6. ErrorsOK'
  <2>1. \A e \in errors' \ errors : /\ e[1] \in Index /\ e[3] \in Remaining(e[1])
                                    /\ e = <<e[1], "remainingValues", e[3], tt[e[1]][e[3]]>>
    BY <1>1, <1>3
  <2>2. ASSUME NEW i \in Index, i < index + 1, Remaining(i) # {}
        PROVE  \E e \in errors' : e[1] = i /\ e[2] = "remainingValues"
    <3>1. CASE i = index
      <4> DEFINE e == <<index, "remainingValues", v, tt[index][v]>>
      <4>1. e \in errors' /\ e[1] = index /\ e[2] = "remainingValues"
        BY <1>1
      <4> QED
        BY <4>1, <3>1
    <3>2. CASE i # index
      <4>1. i < index
        BY <2>2, <3>2 DEF LookupInv, TypeOK
      <4>2. kind = "permutation"
        BY <1>2 DEF LookupInv, PhaseOK
      <4>3. \E e \in errors : e[1] = i /\ e[2] = "remainingValues"
        BY <4>1, <4>2, <2>2, <1>2 DEF LookupInv, ErrorsOK
      <4> QED
        BY <4>3, <1>1
    <3> QED
      BY <3>1, <3>2
  <2>3. errors \subseteq errors'
    BY <1>1
  <2> QED
    BY <2>1, <2>2, <2>3, <1>2, RemainingKept
<1> QED
  BY <1>2, <1>4, <1>5, <1>6, TableKept, ChunkKept, DoneKept DEF LookupInv

LEMMA NoneInv ==
  ASSUME LookupInv, NoneRemaining
  PROVE  LookupInv'
<1>1. /\ phase = "remaining" /\ index <= Len(identities) /\ index' = index + 1 /\ Remaining(index) = {}
      /\ UNCHANGED <<problem, phase, rowT, tt, cyclic, chunk, row, stop, done, errors>>
  BY DEF NoneRemaining
<1>2. UNCHANGED <<kind, identities, evaluations>> /\ UNCHANGED Index
  BY <1>1, Kept
<1>3. TypeOK'
  BY <1>1, <1>2 DEF LookupInv, TypeOK
<1>4. PhaseOK'
  BY <1>1, <1>2 DEF LookupInv, PhaseOK
<1>5. ErrorsOK'
  <2>1. ASSUME NEW i \in Index, i < index + 1, Remaining(i) # {}
        PROVE  \E e \in errors : e[1] = i /\ e[2] = "remainingValues"
    <3>1. i < index
      BY <2>1, <1>1 DEF LookupInv, TypeOK
    <3>2. kind = "permutation"
      BY <1>1 DEF LookupInv, PhaseOK
    <3> QED
      BY <3>1, <3>2, <2>1, <1>1 DEF LookupInv, ErrorsOK
  <2> QED
    BY <2>1, <1>1, RemainingKept
<1> QED
  BY <1>1, <1>3, <1>4, <1>5, TableKept, ChunkKept, DoneKept DEF LookupInv

LEMMA FinishInv ==
  ASSUME LookupInv, Finish
  PROVE  LookupInv'
<1>1. /\ phase = "remaining" /\ index > Len(identities) /\ phase' = "end"
      /\ UNCHANGED <<problem, rowT, tt, cyclic, chunk, row, stop, done, index, errors>>
  BY DEF Finish
<1>2. UNCHANGED <<kind, identities, evaluations>> /\ UNCHANGED Index
  BY <1>1, Kept
<1>3. TypeOK'
  BY <1>1, <1>2 DEF LookupInv, TypeOK
<1>4. PhaseOK'
  BY <1>1, <1>2 DEF LookupInv, PhaseOK
<1>5. ErrorsOK'
  <2>1. \A i \in Index : i < index /\ Remaining(i) # {} =>
          \E e \in errors : e[1] = i /\ e[2] = "remainingValues"
    BY <1>1 DEF LookupInv, ErrorsOK, PhaseOK
  <2> QED
    BY <2>1, <1>1, RemainingKept
<1> QED
  BY <1>1, <1>3, <1>4, <1>5, TableKept, ChunkKept, DoneKept DEF LookupInv

LEMMA StutterInv ==
  ASSUME LookupInv, UNCHANGED vars
  PROVE  LookupInv'
<1>1. UNCHANGED <<problem, phase, rowT, tt, cyclic, chunk, row, stop, done, index, errors>>
  BY DEF vars, control
<1>2. UNCHANGED <<kind, identities, evaluations>> /\ UNCHANGED Index
  BY <1>1, Kept
<1>3. TypeOK' /\ PhaseOK'
  BY <1>1, <1>2 DEF LookupInv, TypeOK, PhaseOK
<1>4. ErrorsOK'
  BY <1>1, <1>2, ErrorKept, FailureKept, Kept DEF LookupInv, ErrorsOK
<1> QED
  BY <1>1, <1>3, <1>4, TableKept, ChunkKept, DoneKept DEF LookupInv

LEMMA InvStep == LookupInv /\ [Next]_vars => LookupInv'
<1> SUFFICES ASSUME LookupInv, [Next]_vars PROVE LookupInv'
  OBVIOUS
<1>1. ASSUME NEW i \in Index, IdentityStep(i) PROVE LookupInv'
  BY <1>1, PrepareInv, SkipInv, FindInv, FailInv, EndInv DEF IdentityStep
<1>2. CASE JoinT
  BY <1>2, JoinTInv
<1>3. CASE JoinF
  BY <1>3, JoinFInv
<1>4. CASE ReportRemaining
  BY <1>4, ReportInv
<1>5. CASE NoneRemaining
  BY <1>5, NoneInv
<1>6. CASE Finish
  BY <1>6, FinishInv
<1>7. CASE Stop \/ UNCHANGED vars
  BY <1>7, StutterInv DEF Stop
<1> QED
  BY <1>1, <1>2, <1>3, <1>4, <1>5, <1>6, <1>7 DEF Next

LEMMA Invariants == Spec => []LookupInv
  BY InitInv, InvStep, PTL DEF Spec
-----------------------------------------------------------------------------
(***************************************************************************)
(* The progress of verifyF never exceeds 100%, and ends there: the chunks  *)
(* cover the rows of each identity once, and leaving early counts the rest.*)
(***************************************************************************)
THEOREM ProgressIsComplete == Spec => []ProgressComplete
<1>1. LookupInv => ProgressComplete
  <2> SUFFICES ASSUME LookupInv PROVE ProgressComplete
    OBVIOUS
  <2>1. done = Cardinality(CountedRows)
    BY DEF LookupInv, DoneOK
  <2>2. ASSUME phase \in {"remaining", "end"} PROVE done = N * Len(identities)
    <3>1. \A i \in Index : chunk[i] = Chunks
      BY <2>2 DEF LookupInv, PhaseOK
    <3>2. CountedRows = Index \X Rows
      BY <3>1, CountedFacts DEF LookupInv
    <3> QED
      BY <2>1, <3>2, CountedFacts DEF LookupInv
  <2> QED
    BY <2>1, <2>2, CountedFacts DEF LookupInv, ProgressComplete
<1> QED
  BY <1>1, Invariants, PTL

(***************************************************************************)
(* When a side has been gone through, what is past is all of it.           *)
(***************************************************************************)
LEMMA SidesWhole ==
  ASSUME LookupInv, NEW i \in Index, NEW v
  PROVE  /\ phase # "T" => PastT(i, v) = AllT(i, v)
         /\ row[i] = N => PastF(i, v) = AllF(i, v)
         /\ CountF(i, v) = Cardinality(AllF(i, v)) /\ CountT(i, v) = Cardinality(AllT(i, v))
         /\ IsFiniteSet(AllF(i, v)) /\ CountF(i, v) \in Nat /\ (CountF(i, v) = 0 <=> AllF(i, v) = {})
         /\ IsFiniteSet(AllT(i, v)) /\ CountT(i, v) \in Nat /\ (CountT(i, v) = 0 <=> AllT(i, v) = {})
<1>1. AllT(i, v) \in SUBSET Rows /\ AllF(i, v) \in SUBSET Rows
  BY DEF AllT, AllF
<1>2. phase # "T" => rowT[i] = N
  BY DEF LookupInv, PhaseOK
<1>3. \A w \in Rows : w < N
  BY RowFacts
<1>4. CountF(i, v) = Cardinality(AllF(i, v)) /\ CountT(i, v) = Cardinality(AllT(i, v))
  BY DEF CountF, CountT, AllF, AllT, SelF, SelT
<1>5. IsFiniteSet(AllF(i, v)) /\ IsFiniteSet(AllT(i, v))
  BY <1>1, RowFacts, FS_Subset
<1>6. /\ CountF(i, v) \in Nat /\ (CountF(i, v) = 0 <=> AllF(i, v) = {})
      /\ CountT(i, v) \in Nat /\ (CountT(i, v) = 0 <=> AllT(i, v) = {})
  BY <1>4, <1>5, FS_CardinalityType, FS_EmptySet
<1> QED
  BY <1>1, <1>2, <1>3, <1>4, <1>5, <1>6 DEF PastT, PastF

(***************************************************************************)
(* Where an identity has stopped, the T side has not the tuple, or fewer   *)
(* of it than the F side.                                                  *)
(***************************************************************************)
LEMMA StopFacts ==
  ASSUME LookupInv, NEW i \in Index, stop[i]
  PROVE  LET u == TupleF(i, row[i])
         IN /\ phase # "T" /\ row[i] \in AllF(i, u) /\ ErrorF(i) \in errors
            /\ \/ Failure(i, u) = "notFound" /\ AllT(i, u) = {}
               \/ /\ Failure(i, u) = "notEnought" /\ kind = "permutation"
                  /\ CountF(i, u) > CountT(i, u) /\ CountT(i, u) > 0
<1> DEFINE n == row[i]  u == TupleF(i, n)
<1>1. n \in Rows /\ SelF(i, n) /\ Failure(i, u) # "none" /\ ErrorF(i) \in errors
  BY DEF LookupInv, ErrorsOK
<1>2. phase # "T"
  BY DEF LookupInv, PhaseOK
<1>3. n \in AllF(i, u)
  BY <1>1 DEF AllF
<1>4. PastT(i, u) = AllT(i, u) /\ (u \in DOMAIN tt[i] <=> AllT(i, u) # {})
  <2>1. u \in DOMAIN tt[i] <=> PastT(i, u) # {}
    BY DEF LookupInv, TableOK
  <2> HIDE DEF u
  <2> QED
    BY <2>1, <1>2, SidesWhole
<1>5. CASE u \notin DOMAIN tt[i]
  BY <1>1, <1>2, <1>3, <1>4, <1>5 DEF Failure
<1>6. CASE u \in DOMAIN tt[i]
  <2>1. Failure(i, u) = "notEnought" /\ kind = "permutation" /\ tt[i][u] = 0
    BY <1>1, <1>6 DEF Failure
  <2>2. 0 + Cardinality(PastF(i, u)) = Cardinality(PastT(i, u))
    BY <2>1, <1>6 DEF LookupInv, TableOK
  <2> HIDE DEF u
  <2>3. Cardinality(PastF(i, u)) = CountT(i, u) /\ CountT(i, u) \in Nat /\ CountT(i, u) # 0
    BY <2>2, <1>4, <1>6, PastFacts, SidesWhole DEF LookupInv
  <2>4. CountF(i, u) > Cardinality(PastF(i, u))
    <3>1. PastF(i, u) \cup {n} \in SUBSET AllF(i, u) /\ n \notin PastF(i, u) /\ n \in Nat
      BY <1>1, <1>3, RowFacts DEF PastF
    <3>2. IsFiniteSet(PastF(i, u)) /\ Cardinality(PastF(i, u)) \in Nat
      BY PastFacts DEF LookupInv
    <3> HIDE DEF n
    <3>3. Cardinality(PastF(i, u) \cup {n}) = Cardinality(PastF(i, u)) + 1
      BY <3>1, <3>2, FS_AddElement
    <3>4. Cardinality(PastF(i, u) \cup {n}) <= Cardinality(AllF(i, u))
      BY <3>1, SidesWhole, FS_Subset
    <3>5. CountF(i, u) = Cardinality(AllF(i, u)) /\ CountF(i, u) \in Nat
      BY SidesWhole
    <3> QED
      BY <3>2, <3>3, <3>4, <3>5
  <2>5. CountF(i, u) > CountT(i, u) /\ CountT(i, u) > 0
    BY <2>3, <2>4, SidesWhole
  <2> QED
    BY <2>1, <2>5, <1>1, <1>2, <1>3 DEF u
<1> QED
  BY <1>5, <1>6

(***************************************************************************)
(* An error is that of an identity that stopped, or of a tuple left over.  *)
(***************************************************************************)
LEMMA ErrorFacts ==
  ASSUME LookupInv, NEW e \in errors
  PROVE  /\ e[1] \in Index
         /\ \/ /\ stop[e[1]] /\ e = ErrorF(e[1])
               /\ e[2] = Failure(e[1], TupleF(e[1], row[e[1]]))
               /\ e[3] = TupleF(e[1], row[e[1]]) /\ e[4] = row[e[1]]
            \/ /\ phase \in {"remaining", "end"} /\ kind = "permutation"
               /\ e[3] \in Remaining(e[1]) /\ e[2] = "remainingValues" /\ e[4] = tt[e[1]][e[3]]
<1>1. CASE e[1] \in Index /\ stop[e[1]] /\ e = ErrorF(e[1])
  <2>1. \A i : /\ ErrorF(i)[2] = Failure(i, TupleF(i, row[i]))
               /\ ErrorF(i)[3] = TupleF(i, row[i]) /\ ErrorF(i)[4] = row[i]
    BY DEF ErrorF
  <2> QED
    BY <1>1, <2>1
<1>2. CASE /\ e[1] \in Index /\ phase \in {"remaining", "end"} /\ kind = "permutation"
           /\ e[3] \in Remaining(e[1])
           /\ e = <<e[1], "remainingValues", e[3], tt[e[1]][e[3]]>>
  BY <1>2
<1> QED
  BY <1>1, <1>2 DEF LookupInv, ErrorsOK

(***************************************************************************)
(* The row of a "not found" error is the first whose tuple is not on the T *)
(* side, and verifyF prints at most one error of an identity.              *)
(***************************************************************************)
THEOREM FirstFailureIsExact == Spec => []FirstFailure
<1>1. LookupInv => FirstFailure
  <2> SUFFICES ASSUME LookupInv, NEW e \in errors, e[2] = "notFound"
               PROVE  /\ \A w \in Rows : Selected(identities[e[1]].selT, w) => TupleT(e[1], w) # e[3]
                      /\ \A u \in 0 .. e[4] - 1 : Selected(identities[e[1]].selF, u) =>
                           \E w \in Rows : /\ Selected(identities[e[1]].selT, w)
                                           /\ TupleT(e[1], w) = TupleF(e[1], u)
                      /\ \A d \in errors : d[1] = e[1] /\ d[2] \in {"notFound", "notEnought"} => d = e
    BY DEF FirstFailure
  <2> DEFINE i == e[1]
  <2>1. /\ i \in Index /\ stop[i] /\ e = ErrorF(i) /\ Failure(i, TupleF(i, row[i])) = "notFound"
        /\ e[3] = TupleF(i, row[i]) /\ e[4] = row[i]
    BY ErrorFacts
  <2> HIDE DEF i
  <2>2. phase # "T" /\ AllT(i, TupleF(i, row[i])) = {} /\ row[i] \in Rows
    BY <2>1, StopFacts DEF AllF
  <2>3. \A w \in Rows : Selected(identities[i].selT, w) => TupleT(i, w) # e[3]
    BY <2>1, <2>2 DEF AllT, SelT
  <2>4. ASSUME NEW u \in 0 .. e[4] - 1, Selected(identities[i].selF, u)
        PROVE  \E w \in Rows : Selected(identities[i].selT, w) /\ TupleT(i, w) = TupleF(i, u)
    <3>1. u \in Rows /\ u < row[i]
      BY <2>1, <2>2, RowFacts
    <3>2. TupleF(i, u) \in DOMAIN tt[i]
      BY <3>1, <2>1, <2>4 DEF LookupInv, FoundOK, SelF
    <3>3. PastT(i, TupleF(i, u)) # {}
      BY <3>2, <2>1 DEF LookupInv, TableOK
    <3> QED
      BY <3>3 DEF PastT, AllT, SelT
  <2>5. \A d \in errors : d[1] = i /\ d[2] \in {"notFound", "notEnought"} => d = e
    BY <2>1, ErrorFacts
  <2> QED
    BY <2>3, <2>4, <2>5 DEF i
<1> QED
  BY <1>1, Invariants, PTL

(***************************************************************************)
(* The rows that were looked up are those that are past, once the F side   *)
(* has been gone through or left.                                          *)
(***************************************************************************)
LEMMA UsedFacts ==
  ASSUME LookupInv, NEW i \in Index, stop[i] \/ row[i] = N, NEW v
  PROVE  CountUsed(i, v) = Cardinality(PastF(i, v)) /\ CountUsed(i, v) \in Nat
<1>1. row[i] \in Nat /\ \A w \in Rows : w \in Nat /\ w < N
  BY RowFacts DEF LookupInv, TypeOK
<1>2. ASSUME NEW e \in errors, e[1] = i, e[2] # "remainingValues" PROVE stop[i] /\ e[4] = row[i]
  BY <1>2, ErrorFacts
<1>3. ASSUME NEW w \in Rows PROVE LookedUp(i, w) <=> w < row[i]
  <2>1. CASE stop[i]
    <3>1. ErrorF(i) \in errors /\ ErrorF(i)[1] = i /\ ErrorF(i)[4] = row[i]
      BY <2>1, StopFacts DEF ErrorF
    <3>2. ErrorF(i)[2] # "remainingValues"
      BY DEF ErrorF, Failure
    <3> QED
      BY <3>1, <3>2, <1>2 DEF LookedUp
  <2>2. CASE ~stop[i]
    BY <2>2, <1>1, <1>2 DEF LookedUp
  <2> QED
    BY <2>1, <2>2
<1>4. { w \in Rows : Selected(identities[i].selF, w) /\ TupleF(i, w) = v /\ LookedUp(i, w) } = PastF(i, v)
  BY <1>3 DEF PastF, AllF, SelF
<1> QED
  BY <1>4, PastFacts DEF CountUsed, LookupInv

(***************************************************************************)
(* The counts of permutation errors: "not enough" when F has more of the   *)
(* tuple than T and has used up what T has; "remaining" with the number    *)
(* that is left of those looked up, and whenever something is left.        *)
(***************************************************************************)
THEOREM ErrorsAreCounted == Spec => []ErrorsCount
<1>1. ASSUME LookupInv, NEW e \in errors, e[2] = "notEnought"
      PROVE  /\ CountF(e[1], e[3]) > CountT(e[1], e[3]) /\ CountT(e[1], e[3]) > 0
             /\ CountUsed(e[1], e[3]) = CountT(e[1], e[3])
  <2> DEFINE i == e[1]  v == e[3]
  <2>1. /\ i \in Index /\ stop[i] /\ v = TupleF(i, row[i])
        /\ Failure(i, TupleF(i, row[i])) = "notEnought"
    BY <1>1, ErrorFacts
  <2> HIDE DEF i, v
  <2>2. CountF(i, v) > CountT(i, v) /\ CountT(i, v) > 0 /\ phase # "T"
    BY <1>1, <2>1, StopFacts
  <2>3. v \in DOMAIN tt[i] /\ kind = "permutation" /\ tt[i][v] = 0
    BY <2>1 DEF Failure
  <2>4. 0 + Cardinality(PastF(i, v)) = Cardinality(PastT(i, v)) /\ Cardinality(PastF(i, v)) \in Nat
    BY <1>1, <2>1, <2>3, PastFacts DEF LookupInv, TableOK
  <2>5. Cardinality(PastT(i, v)) = CountT(i, v)
    BY <1>1, <2>1, <2>2, SidesWhole
  <2>6. CountUsed(i, v) = CountT(i, v)
    BY <1>1, <2>1, <2>4, <2>5, UsedFacts
  <2> QED
    BY <2>2, <2>6 DEF i, v
<1>2. ASSUME LookupInv, phase \in {"remaining", "end"}, kind = "permutation", NEW i \in Index, NEW v
      PROVE  /\ v \in DOMAIN tt[i] => /\ tt[i][v] \in Nat /\ CountUsed(i, v) \in Nat
                                     /\ CountT(i, v) = CountUsed(i, v) + tt[i][v]
             /\ v \notin DOMAIN tt[i] => CountT(i, v) = 0 /\ CountUsed(i, v) \in Nat
  <2>1. stop[i] \/ row[i] = N
    BY <1>2 DEF LookupInv, PhaseOK, ChunkOK
  <2>2. CountUsed(i, v) = Cardinality(PastF(i, v)) /\ CountUsed(i, v) \in Nat
    BY <1>2, <2>1, UsedFacts
  <2>3. PastT(i, v) = AllT(i, v) /\ Cardinality(PastT(i, v)) = CountT(i, v)
        /\ (CountT(i, v) = 0 <=> AllT(i, v) = {})
    BY <1>2, SidesWhole
  <2>4. CASE v \in DOMAIN tt[i]
    <3>1. tt[i][v] \in Nat /\ tt[i][v] + Cardinality(PastF(i, v)) = Cardinality(PastT(i, v))
      BY <1>2, <2>4 DEF LookupInv, TableOK
    <3> QED
      BY <3>1, <2>2, <2>3, <2>4
  <2>5. CASE v \notin DOMAIN tt[i]
    BY <1>2, <2>2, <2>3, <2>5 DEF LookupInv, TableOK
  <2> QED
    BY <2>4, <2>5
<1>3. ASSUME LookupInv, NEW e \in errors, e[2] = "remainingValues"
      PROVE  e[4] > 0 /\ CountT(e[1], e[3]) = CountUsed(e[1], e[3]) + e[4]
  <2> DEFINE i == e[1]  v == e[3]
  <2>1. /\ i \in Index /\ phase \in {"remaining", "end"} /\ kind = "permutation"
        /\ v \in Remaining(i) /\ e[4] = tt[i][v]
    <3>1. \A x, u : Failure(x, u) # "remainingValues"
      BY DEF Failure
    <3> QED
      BY <1>3, <3>1, ErrorFacts
  <2> HIDE DEF i, v
  <2>2. v \in DOMAIN tt[i] /\ e[4] > 0
    BY <2>1 DEF Remaining
  <2>3. CountT(i, v) = CountUsed(i, v) + e[4]
    BY <1>2, <1>3, <2>1, <2>2
  <2> QED
    BY <2>2, <2>3 DEF i, v
<1>4. ASSUME LookupInv, phase = "end", kind = "permutation", NEW i \in Index, NEW v,
             CountT(i, v) > CountUsed(i, v)
      PROVE  \E e \in errors : e[1] = i /\ e[2] = "remainingValues"
  <2>1. v \in DOMAIN tt[i] /\ tt[i][v] \in Nat /\ tt[i][v] > 0
    BY <1>2, <1>4
  <2>2. Remaining(i) # {} /\ i < index
    BY <1>4, <2>1 DEF Remaining, LookupInv, PhaseOK, TypeOK
  <2> QED
    BY <1>4, <2>2 DEF LookupInv, ErrorsOK
<1>5. LookupInv => ErrorsCount
  BY <1>1, <1>3, <1>4 DEF ErrorsCount
<1> QED
  BY <1>5, Invariants, PTL

(***************************************************************************)
(* What verifyF compares is what the identity means when the selectors are *)
(* there, or when what stands in for them is 1.                            *)
(***************************************************************************)
LEMMA TupleIsMeaning ==
  ASSUME NEW i \in Index, HasSelectors(i) \/ FirstIsOne
  PROVE  /\ \A w \in Rows : /\ Meaning(identities[i].selF, identities[i].f, w) = TupleF(i, w)
                            /\ Meaning(identities[i].selT, identities[i].t, w) = TupleT(i, w)
         /\ \A v : RowsF(i, v) = AllF(i, v) /\ RowsT(i, v) = AllT(i, v)
<1>1. ASSUME NEW w \in Rows, NEW sel, NEW xs, sel # NONE \/ FirstIsOne
      PROVE  Meaning(sel, xs, w) = Tuple(sel, xs, w)
  <2>1. SelValue(sel, w) = IF sel = NONE THEN 1 ELSE evaluations[sel][w]
    BY <1>1 DEF SelValue, FirstIsOne
  <2> QED
    BY <2>1 DEF Meaning, Tuple
<1>2. \A w \in Rows : /\ Meaning(identities[i].selF, identities[i].f, w) = TupleF(i, w)
                      /\ Meaning(identities[i].selT, identities[i].t, w) = TupleT(i, w)
  BY <1>1 DEF HasSelectors, TupleF, TupleT
<1> QED
  BY <1>2 DEF RowsF, RowsT, AllF, AllT, SelF, SelT

(***************************************************************************)
(* At the end an identity has an error exactly if it stopped, or if a      *)
(* permutation has tuples left.                                            *)
(***************************************************************************)
LEMMA ReportedFacts ==
  ASSUME LookupInv, phase = "end", NEW i \in Index
  PROVE  Reported(i) <=> stop[i] \/ (kind = "permutation" /\ Remaining(i) # {})
<1>1. ASSUME Reported(i) PROVE stop[i] \/ (kind = "permutation" /\ Remaining(i) # {})
  <2>1. PICK e \in errors : e[1] = i
    BY <1>1 DEF Reported
  <2> QED
    BY <2>1, ErrorFacts
<1>2. ASSUME stop[i] PROVE Reported(i)
  <2>1. ErrorF(i) \in errors /\ ErrorF(i)[1] = i
    BY <1>2 DEF LookupInv, ErrorsOK, ErrorF
  <2> QED
    BY <2>1 DEF Reported
<1>3. ASSUME kind = "permutation", Remaining(i) # {} PROVE Reported(i)
  <2>1. i < index
    BY <1>3 DEF LookupInv, PhaseOK, TypeOK
  <2> QED
    BY <2>1, <1>3 DEF LookupInv, ErrorsOK, Reported
<1> QED
  BY <1>1, <1>2, <1>3

(***************************************************************************)
(* In any interleaving of the identities, one with selectors, or with a    *)
(* stand-in that is 1, has an error exactly if it does not hold.           *)
(***************************************************************************)
THEOREM VerdictIsExact == Spec => []VerdictExact
<1>1. LookupInv => VerdictExact
  <2> SUFFICES ASSUME LookupInv, phase = "end", NEW i \in Index, HasSelectors(i) \/ FirstIsOne
               PROVE  Reported(i) <=> ~Holds(i)
    BY DEF VerdictExact
  <2>1. \A v : /\ PastT(i, v) = AllT(i, v) /\ (row[i] = N => PastF(i, v) = AllF(i, v))
               /\ CountF(i, v) = Cardinality(RowsF(i, v)) /\ CountT(i, v) = Cardinality(RowsT(i, v))
               /\ CountF(i, v) \in Nat /\ (CountF(i, v) = 0 <=> AllF(i, v) = {})
               /\ CountT(i, v) \in Nat /\ (CountT(i, v) = 0 <=> AllT(i, v) = {})
               /\ RowsF(i, v) = AllF(i, v) /\ RowsT(i, v) = AllT(i, v)
    BY SidesWhole, TupleIsMeaning
  <2>2. \A v : /\ AllF(i, v) # {} => v \in MeaningsF(i)
               /\ AllT(i, v) # {} => v \in MeaningsT(i)
    BY TupleIsMeaning DEF AllF, AllT, MeaningsF, MeaningsT
  <2>3. Reported(i) <=> stop[i] \/ (kind = "permutation" /\ Remaining(i) # {})
    BY ReportedFacts
  <2>4. kind \in {"plookup", "permutation"}
    BY DEF LookupInv, TypeOK
  <2>5. /\ kind = "plookup" => (Holds(i) <=> \A v : AllF(i, v) # {} => AllT(i, v) # {})
        /\ kind = "permutation" => (Holds(i) <=> \A v : CountF(i, v) = CountT(i, v))
    <3>1. ASSUME kind = "plookup" PROVE Holds(i) <=> \A v : AllF(i, v) # {} => AllT(i, v) # {}
      <4>1. Holds(i) <=> \A v \in MeaningsF(i) : AllF(i, v) # {} => AllT(i, v) # {}
        BY <3>1, <2>1 DEF Holds
      <4> QED
        BY <4>1, <2>2
    <3>2. ASSUME kind = "permutation" PROVE Holds(i) <=> \A v : CountF(i, v) = CountT(i, v)
      <4>1. Holds(i) <=> \A v \in MeaningsF(i) \cup MeaningsT(i) : CountF(i, v) = CountT(i, v)
        BY <3>2, <2>1 DEF Holds
      <4>2. \A v : v \notin MeaningsF(i) \cup MeaningsT(i) => CountF(i, v) = 0 /\ CountT(i, v) = 0
        BY <2>1, <2>2
      <4> QED
        BY <4>1, <4>2
    <3> QED
      BY <3>1, <3>2
  <2>6. CASE stop[i]
    <3> DEFINE u == TupleF(i, row[i])
    <3>1. /\ row[i] \in AllF(i, u)
          /\ AllT(i, u) = {} \/ (kind = "permutation" /\ CountF(i, u) > CountT(i, u))
      BY <2>6, StopFacts
    <3> HIDE DEF u
    <3>2. AllF(i, u) # {}
      BY <3>1
    <3>3. CASE kind = "plookup"
      BY <3>1, <3>2, <3>3, <2>3, <2>5, <2>6
    <3>4. CASE kind = "permutation"
      <4>1. CountF(i, u) # CountT(i, u)
        BY <3>1, <3>2, <2>1
      <4> QED
        BY <4>1, <3>4, <2>3, <2>5, <2>6
    <3> QED
      BY <3>3, <3>4, <2>4
  <2>7. CASE ~stop[i]
    <3>1. row[i] = N
      BY <2>7 DEF LookupInv, PhaseOK, ChunkOK
    <3>2. \A v : v \in DOMAIN tt[i] <=> AllT(i, v) # {}
      BY <2>1 DEF LookupInv, TableOK
    <3>3. \A v : AllF(i, v) # {} => v \in DOMAIN tt[i]
      <4>1. \A w \in Rows : SelF(i, w) => TupleF(i, w) \in DOMAIN tt[i]
        BY <3>1, RowFacts DEF LookupInv, FoundOK
      <4> QED
        BY <4>1 DEF AllF
    <3>4. CASE kind = "plookup"
      BY <3>2, <3>3, <3>4, <2>3, <2>5, <2>7
    <3>5. CASE kind = "permutation"
      <4>1. \A v \in DOMAIN tt[i] : tt[i][v] \in Nat /\ tt[i][v] + CountF(i, v) = CountT(i, v)
        <5> TAKE v \in DOMAIN tt[i]
        <5>1. tt[i][v] \in Nat /\ tt[i][v] + Cardinality(PastF(i, v)) = Cardinality(PastT(i, v))
          BY <3>5 DEF LookupInv, TableOK
        <5> QED
          BY <5>1, <3>1, <2>1
      <4>2. ASSUME Remaining(i) # {} PROVE ~ \A v : CountF(i, v) = CountT(i, v)
        <5>1. PICK v \in DOMAIN tt[i] : tt[i][v] > 0
          BY <4>2 DEF Remaining
        <5>2. CountF(i, v) # CountT(i, v)
          BY <5>1, <4>1, <2>1
        <5> QED
          BY <5>2
      <4>3. ASSUME Remaining(i) = {}, NEW v PROVE CountF(i, v) = CountT(i, v)
        <5>1. CASE v \in DOMAIN tt[i]
          <6>1. tt[i][v] = 0
            BY <5>1, <4>1, <4>3 DEF Remaining
          <6> QED
            BY <6>1, <5>1, <4>1, <2>1
        <5>2. CASE v \notin DOMAIN tt[i]
          BY <5>2, <3>2, <3>3, <2>1
        <5> QED
          BY <5>1, <5>2
      <4> QED
        BY <4>2, <4>3, <3>5, <2>3, <2>5, <2>7
    <3> QED
      BY <3>4, <3>5, <2>4
  <2> QED
    BY <2>6, <2>7
<1> QED
  BY <1>1, Invariants, PTL
-----------------------------------------------------------------------------
(***************************************************************************)
(* What a Cyclic knows of the rows R, none of them 0, that it was told.    *)
(***************************************************************************)
States == {"INIT", "OFFSET_SET", "PERIOD_SET", "CYCLIC", "NO_CYCLIC"}

Knows(c, R) ==
  /\ c \in [state : States, offset : Nat, period : Nat, last : Nat]
  /\ c.state = "INIT" => R = {} /\ c.last = 0
  /\ c.state = "OFFSET_SET" => R = {c.last} /\ c.offset = c.last
  /\ c.state = "PERIOD_SET" => /\ R = {c.offset, c.last} /\ c.offset < c.last
                               /\ c.period = c.last - c.offset
  /\ c.state = "CYCLIC" => /\ {c.offset, c.offset + c.period, c.last} \subseteq R
                           /\ c.period > 0 /\ c.offset + c.period < c.last
                           /\ \A b \in R : c.offset <= b /\ b <= c.last
                           /\ Spaced(R, c.period)
  /\ c.state = "NO_CYCLIC" => /\ c.last \in R /\ \A b \in R : b <= c.last
                              /\ \A d \in Nat \ {0} : ~Spaced(R, d)

CyclicOK == kind = "plookup" => \A i \in Index : Knows(cyclic[i], Seen(i))

LEMMA CyclicAdd ==
  ASSUME NEW c, NEW R \in SUBSET (Nat \ {0}), Knows(c, R), NEW n \in Nat \ {0}, \A b \in R : b < n
  PROVE  Knows(Cycle(c, n), R \cup {n})
<1> DEFINE S == R \cup {n}
<1>1. c \in [state : States, offset : Nat, period : Nat, last : Nat]
  BY DEF Knows
<1>2. c.state \in States /\ c.offset \in Nat /\ c.period \in Nat /\ c.last \in Nat
      /\ c = [state |-> c.state, offset |-> c.offset, period |-> c.period, last |-> c.last]
  BY <1>1
<1>3. c.last < n
  BY <1>2 DEF Knows, States
<1>4. ~Ignored(c, n)
  BY <1>2, <1>3 DEF Ignored
<1>5. S \in SUBSET (Nat \ {0})
  OBVIOUS
<1>6. CASE c.state = "INIT"
  <2>1. Cycle(c, n) = [state |-> "OFFSET_SET", offset |-> n, period |-> c.period, last |-> n]
    BY <1>2, <1>4, <1>6 DEF Cycle, FirstRow
  <2>2. R = {}
    BY <1>6 DEF Knows
  <2> QED
    BY <2>1, <2>2, <1>2 DEF Knows, States
<1>7. CASE c.state = "OFFSET_SET"
  <2>1. Cycle(c, n) = [state |-> "PERIOD_SET", offset |-> c.offset, period |-> n - c.offset, last |-> n]
    BY <1>2, <1>4, <1>7 DEF Cycle, SecondRow
  <2>2. R = {c.last} /\ c.offset = c.last /\ n - c.offset \in Nat
    BY <1>2, <1>3, <1>7 DEF Knows
  <2> QED
    BY <2>1, <2>2, <1>2, <1>3 DEF Knows, States
<1>8. CASE c.state \in {"PERIOD_SET", "CYCLIC"} /\ n = c.last + c.period
  <2>1. Cycle(c, n) = [state |-> "CYCLIC", offset |-> c.offset, period |-> c.period, last |-> n]
    BY <1>2, <1>4, <1>8 DEF Cycle, NextRow
  <2>2. /\ {c.offset, c.offset + c.period, c.last} \subseteq R
        /\ c.period > 0 /\ c.offset + c.period <= c.last
        /\ \A b \in R : c.offset <= b /\ b <= c.last
        /\ Spaced(R, c.period)
    <3>1. CASE c.state = "PERIOD_SET"
      <4>1. R = {c.offset, c.last} /\ c.offset < c.last /\ c.period = c.last - c.offset
        BY <3>1 DEF Knows
      <4> QED
        BY <4>1, <1>2 DEF Spaced
    <3>2. CASE c.state = "CYCLIC"
      BY <3>2, <1>2 DEF Knows
    <3> QED
      BY <3>1, <3>2, <1>8
  <2>3. Spaced(S, c.period)
    <3> SUFFICES ASSUME NEW a \in S, NEW e \in S, e > a
                 PROVE  /\ a + c.period \in S
                        /\ \A b \in S : b > a => b >= a + c.period
      BY DEF Spaced
    <3>1. a \in R /\ a <= c.last /\ a \in Nat
      BY <2>2, <1>5
    <3>2. CASE a = c.last
      BY <3>2, <1>2, <1>8, <2>2, <1>5
    <3>3. CASE a # c.last
      <4>1. c.last > a /\ c.last \in R
        BY <3>1, <3>3, <2>2, <1>2
      <4>2. a + c.period \in R /\ \A b \in R : b > a => b >= a + c.period
        BY <3>1, <4>1, <2>2 DEF Spaced
      <4>3. n >= a + c.period
        BY <4>1, <4>2, <3>1, <1>2, <1>3
      <4> QED
        BY <4>2, <4>3
    <3> QED
      BY <3>2, <3>3
  <2>4. {c.offset, c.offset + c.period, n} \subseteq S /\ c.offset + c.period < n
    BY <2>2, <1>2, <1>3
  <2>5. \A b \in S : c.offset <= b /\ b <= n
    BY <2>2, <1>2, <1>3, <1>5
  <2> QED
    BY <2>1, <2>2, <2>3, <2>4, <2>5, <1>2 DEF Knows, States
<1>9. CASE c.state \in {"PERIOD_SET", "CYCLIC"} /\ n # c.last + c.period
  <2>1. Cycle(c, n) = [state |-> "NO_CYCLIC", offset |-> c.offset, period |-> c.period, last |-> n]
    BY <1>2, <1>4, <1>9 DEF Cycle, NextRow
  <2>2. /\ {c.offset, c.offset + c.period, c.last} \subseteq R /\ c.offset < c.last /\ c.period > 0
        /\ \A b \in R : b <= c.last /\ (b > c.offset => b >= c.offset + c.period)
    <3>1. CASE c.state = "PERIOD_SET"
      <4>1. R = {c.offset, c.last} /\ c.offset < c.last /\ c.period = c.last - c.offset
        BY <3>1 DEF Knows
      <4> QED
        BY <4>1, <1>2
    <3>2. CASE c.state = "CYCLIC"
      <4>1. /\ {c.offset, c.offset + c.period, c.last} \subseteq R
            /\ c.period > 0 /\ c.offset + c.period < c.last
            /\ \A b \in R : c.offset <= b /\ b <= c.last
            /\ Spaced(R, c.period)
        BY <3>2 DEF Knows
      <4>2. c.last > c.offset /\ c.offset \in R /\ c.last \in R
        BY <4>1, <1>2
      <4> QED
        BY <4>1, <4>2 DEF Spaced
    <3> QED
      BY <3>1, <3>2, <1>9
  <2>3. ASSUME NEW d \in Nat \ {0}, Spaced(S, d) PROVE FALSE
    <3>1. c.offset \in S /\ c.last \in S /\ c.offset + c.period \in S /\ n \in S /\ n > c.offset /\ n > c.last
      BY <2>2, <1>2, <1>3
    <3>2. c.offset + d \in S /\ c.last + d \in S
      BY <3>1, <2>3 DEF Spaced
    <3>3. c.last + d = n
      BY <3>2, <2>2, <1>2, <1>5
    <3>4. c.offset + c.period >= c.offset + d
      BY <3>1, <2>2, <2>3, <1>2 DEF Spaced
    <3>5. c.offset + d \in R
      BY <3>2, <3>3, <2>2, <1>2
    <3>6. c.offset + d >= c.offset + c.period
      BY <3>5, <2>2, <1>2
    <3> QED
      BY <3>3, <3>4, <3>6, <1>2, <1>9
  <2>4. n \in S /\ \A b \in S : b <= n
    BY <1>5
  <2> QED
    BY <2>1, <2>3, <2>4, <1>2 DEF Knows, States
<1>10. CASE c.state = "NO_CYCLIC"
  <2>1. Cycle(c, n) = [state |-> "NO_CYCLIC", offset |-> c.offset, period |-> c.period, last |-> n]
    BY <1>2, <1>4, <1>10 DEF Cycle
  <2>2. ASSUME NEW d \in Nat \ {0}, Spaced(S, d) PROVE FALSE
    <3>1. Spaced(R, d)
      <4> SUFFICES ASSUME NEW a \in R, NEW e \in R, e > a
                   PROVE  a + d \in R /\ \A b \in R : b > a => b >= a + d
        BY DEF Spaced
      <4>1. a + d \in S /\ \A b \in S : b > a => b >= a + d
        BY <2>2 DEF Spaced
      <4>2. a + d # n
        BY <4>1, <1>5
      <4> QED
        BY <4>1, <4>2
    <3> QED
      BY <3>1, <1>10 DEF Knows
  <2>3. n \in S /\ \A b \in S : b <= n
    BY <1>5
  <2> QED
    BY <2>1, <2>2, <2>3, <1>2 DEF Knows, States
<1> QED
  BY <1>2, <1>6, <1>7, <1>8, <1>9, <1>10 DEF States

(***************************************************************************)
(* Row 0 is ignored: it is not later than "no row yet".                    *)
(***************************************************************************)
LEMMA CyclicZero ==
  ASSUME NEW c, Knows(c, {})
  PROVE  Cycle(c, 0) = c
<1>1. c.state = "INIT" /\ c.last = 0
  <2>1. c.state \in States /\ c.offset \in Nat /\ c.period \in Nat /\ c.last \in Nat
    BY DEF Knows
  <2>2. c.state # "NO_CYCLIC" /\ c.state # "CYCLIC" /\ c.state # "PERIOD_SET" /\ c.state # "OFFSET_SET"
    BY DEF Knows
  <2>3. c.state = "INIT"
    BY <2>1, <2>2 DEF States
  <2> QED
    BY <2>3 DEF Knows
<1> QED
  BY <1>1 DEF Cycle, Ignored

LEMMA SeenFacts ==
  ASSUME TypeOK, NEW i \in Index
  PROVE  /\ Seen(i) \in SUBSET (Nat \ {0}) /\ Seen(i) \in SUBSET Rows /\ IsFiniteSet(Seen(i))
         /\ \A w \in Seen(i) : w < rowT[i]
<1>1. rowT[i] \in 0 .. N
  BY DEF TypeOK
<1>2. Seen(i) \in SUBSET (Nat \ {0}) /\ Seen(i) \in SUBSET Rows /\ \A w \in Seen(i) : w < rowT[i]
  BY <1>1, RowFacts DEF Seen
<1> QED
  BY <1>2, RowFacts, FS_Subset

LEMMA CyclicInit == Init => CyclicOK
<1> SUFFICES ASSUME Init, NEW i \in Index PROVE Knows(cyclic[i], Seen(i))
  BY DEF CyclicOK
<1>1. Seen(i) = {}
  BY DEF Init, Seen
<1>2. cyclic[i] = [state |-> "INIT", offset |-> 0, period |-> 0, last |-> 0]
  BY DEF Init, NewCyclic
<1> QED
  BY <1>1, <1>2 DEF Knows, States

LEMMA CyclicStep == LookupInv /\ CyclicOK /\ [Next]_vars => CyclicOK'
<1> SUFFICES ASSUME LookupInv, CyclicOK, [Next]_vars PROVE CyclicOK'
  OBVIOUS
<1>1. ASSUME UNCHANGED <<problem, rowT, cyclic>> PROVE CyclicOK'
  <2>1. UNCHANGED <<kind, identities, evaluations>> /\ UNCHANGED Index
    BY <1>1, Kept
  <2>2. \A i : Seen(i)' = Seen(i)
    BY <1>1, <2>1 DEF Seen, Selected, SelValue
  <2> QED
    BY <1>1, <2>1, <2>2 DEF CyclicOK
<1>2. ASSUME NEW i \in Index, PrepareRow(i) PROVE CyclicOK'
  <2> DEFINE n == rowT[i]  R == Seen(i)  c == cyclic[i]
  <2>1. /\ n < N /\ n \in Rows /\ rowT' = [rowT EXCEPT ![i] = n + 1] /\ UNCHANGED problem
        /\ cyclic' = IF SelT(i, n) /\ kind = "plookup" THEN [cyclic EXCEPT ![i] = Cycle(c, n)] ELSE cyclic
    BY <1>2, RowFacts DEF PrepareRow, LookupInv, TypeOK, SelT
  <2>2. UNCHANGED <<kind, identities, evaluations>> /\ UNCHANGED Index
    BY <2>1, Kept
  <2> SUFFICES ASSUME kind = "plookup", NEW j \in Index PROVE Knows(cyclic'[j], Seen(j)')
    BY <2>2 DEF CyclicOK
  <2>3. rowT'[i] = n + 1 /\ \A k \in Index \ {i} : rowT'[k] = rowT[k]
    BY <2>1 DEF LookupInv, TypeOK
  <2>4. /\ cyclic'[i] = IF SelT(i, n) THEN Cycle(c, n) ELSE c
        /\ \A k \in Index \ {i} : cyclic'[k] = cyclic[k]
    BY <2>1 DEF LookupInv, TypeOK
  <2>5. CASE j # i
    <3>1. Seen(j)' = Seen(j) /\ cyclic'[j] = cyclic[j]
      BY <2>2, <2>3, <2>4, <2>5 DEF Seen, Selected, SelValue
    <3> QED
      BY <3>1 DEF CyclicOK
  <2>6. CASE j = i
    <3>1. Knows(c, R) /\ R \in SUBSET (Nat \ {0}) /\ \A w \in R : w < n
      BY <2>6, SeenFacts DEF CyclicOK, LookupInv
    <3>2. n \in Nat
      BY <2>1, RowFacts
    <3>3. Seen(i)' = { w \in 1 .. (n + 1) - 1 : SelT(i, w) } /\ R = { w \in 1 .. n - 1 : SelT(i, w) }
      BY <2>2, <2>3 DEF Seen, SelT, Selected, SelValue
    <3> HIDE DEF n, R, c
    <3>4. Seen(i)' = IF SelT(i, n) /\ n # 0 THEN R \cup {n} ELSE R
      BY <3>2, <3>3
    <3>5. CASE ~SelT(i, n)
      BY <3>5, <3>1, <3>4, <2>4, <2>6
    <3>6. CASE SelT(i, n) /\ n = 0
      <4>1. R = {}
        BY <3>1, <3>6
      <4> QED
        BY <4>1, <3>1, <3>4, <3>6, <2>4, <2>6, CyclicZero
    <3>7. CASE SelT(i, n) /\ n # 0
      BY <3>7, <3>1, <3>2, <3>4, <2>4, <2>6, CyclicAdd
    <3> QED
      BY <3>5, <3>6, <3>7
  <2> QED
    BY <2>5, <2>6
<1>3. ASSUME NEW i \in Index, IdentityStep(i) PROVE CyclicOK'
  BY <1>1, <1>2, <1>3 DEF IdentityStep, SkipRow, FindRow, FailRow, EndChunk
<1>4. CASE JoinT \/ JoinF \/ ReportRemaining \/ NoneRemaining \/ Finish
  BY <1>1, <1>4 DEF JoinT, JoinF, ReportRemaining, NoneRemaining, Finish
<1>5. CASE Stop \/ UNCHANGED vars
  BY <1>1, <1>5 DEF Stop, vars, control
<1> QED
  BY <1>3, <1>4, <1>5 DEF Next

LEMMA CyclicInvariant == Spec => []CyclicOK
  BY CyclicInit, CyclicStep, Invariants, PTL DEF Spec

(***************************************************************************)
(* The note of a plookup: cyclic exactly when the rows other than row 0    *)
(* are three or more and equally spaced, with their first and distance;    *)
(* full-cyclic only if that goes on around the last row.                   *)
(***************************************************************************)
THEOREM NotesAreExact == Spec => []CyclicExact
<1>1. LookupInv /\ CyclicOK => CyclicExact
  <2> SUFFICES ASSUME LookupInv, CyclicOK, kind = "plookup", NEW i \in Index
               PROVE  LET c == cyclic[i]
                      IN /\ isCyclic(c) <=> Cardinality(Seen(i)) >= 3 /\ \E d \in Rows \ {0} : Spaced(Seen(i), d)
                         /\ isCyclic(c) => IsFirst(c.offset, Seen(i)) /\ Spaced(Seen(i), c.period)
                         /\ rowT[i] = N /\ isFullCyclic(c, N) =>
                              \A a \in Seen(i) : (a + c.period) % N \in Seen(i)
    BY DEF CyclicExact
  <2> DEFINE c == cyclic[i]  R == Seen(i)
  <2>1. /\ Knows(c, R) /\ R \in SUBSET (Nat \ {0}) /\ R \in SUBSET Rows /\ IsFiniteSet(R)
    BY SeenFacts DEF CyclicOK, LookupInv
  <2> HIDE DEF c, R
  <2>2. c.state \in States /\ c.offset \in Nat /\ c.period \in Nat /\ c.last \in Nat
    BY <2>1 DEF Knows
  <2>3. ASSUME c.state = "CYCLIC"
        PROVE  /\ Cardinality(R) >= 3 /\ c.period \in Rows \ {0} /\ Spaced(R, c.period)
               /\ IsFirst(c.offset, R) /\ c.last \in R /\ \A b \in R : b <= c.last
    <3>1. /\ {c.offset, c.offset + c.period, c.last} \subseteq R
          /\ c.period > 0 /\ c.offset + c.period < c.last
          /\ \A b \in R : c.offset <= b /\ b <= c.last
          /\ Spaced(R, c.period)
      BY <2>1, <2>3 DEF Knows
    <3>2. c.period \in Rows \ {0}
      BY <3>1, <2>1, <2>2, RowFacts
    <3>3. Cardinality(R) >= 3
      <4> DEFINE x == c.offset  y == c.offset + c.period  z == c.last
      <4>1. x # y /\ y # z /\ x # z
        BY <3>1, <2>2
      <4>2. {x, y, z} \in SUBSET R
        BY <3>1
      <4> HIDE DEF x, y, z
      <4>3. IsFiniteSet({x}) /\ Cardinality({x}) = 1
        BY FS_Singleton
      <4>4. IsFiniteSet({x} \cup {y}) /\ Cardinality({x} \cup {y}) = 2
        BY <4>1, <4>3, FS_AddElement
      <4>5. z \notin {x} \cup {y}
        BY <4>1
      <4>6. Cardinality(({x} \cup {y}) \cup {z}) = 3
        BY <4>4, <4>5, FS_AddElement
      <4>7. {x, y, z} = ({x} \cup {y}) \cup {z}
        OBVIOUS
      <4>8. Cardinality({x, y, z}) <= Cardinality(R)
        BY <4>2, <2>1, FS_Subset
      <4>9. Cardinality(R) \in Nat
        BY <2>1, FS_CardinalityType
      <4> QED
        BY <4>6, <4>7, <4>8, <4>9
    <3> QED
      BY <3>1, <3>2, <3>3 DEF IsFirst
  <2>4. ASSUME Cardinality(R) >= 3, NEW d \in Rows \ {0}, Spaced(R, d) PROVE c.state = "CYCLIC"
    <3>1. c.state # "INIT"
      <4>1. c.state = "INIT" => R = {}
        BY <2>1 DEF Knows
      <4>2. Cardinality({}) = 0
        BY FS_EmptySet
      <4> QED
        BY <4>1, <4>2, <2>4
    <3>2. c.state # "OFFSET_SET"
      <4>1. Cardinality({c.last}) = 1
        BY FS_Singleton
      <4> QED
        BY <4>1, <2>1, <2>4 DEF Knows
    <3>3. c.state # "PERIOD_SET"
      <4> SUFFICES ASSUME c.state = "PERIOD_SET" PROVE FALSE
        OBVIOUS
      <4> DEFINE x == c.offset  z == c.last
      <4>1. R = {x, z} /\ x # z
        BY <2>1, <2>2 DEF Knows
      <4> HIDE DEF x, z
      <4>2. IsFiniteSet({x}) /\ Cardinality({x}) = 1
        BY FS_Singleton
      <4>3. z \notin {x} /\ R = {x} \cup {z}
        BY <4>1
      <4>4. Cardinality(R) = 2
        BY <4>2, <4>3, FS_AddElement
      <4> QED
        BY <4>4, <2>4
    <3>4. c.state # "NO_CYCLIC"
      BY <2>1, <2>4, RowFacts DEF Knows
    <3> QED
      BY <3>1, <3>2, <3>3, <3>4, <2>2 DEF States
  <2>5. ASSUME isFullCyclic(c, N), NEW a \in R PROVE (a + c.period) % N \in R
    <3>1. c.state = "CYCLIC" /\ (c.last + c.period) % N = c.offset
      BY <2>5 DEF isFullCyclic, isCyclic
    <3>2. CASE a = c.last
      BY <3>1, <3>2, <2>3 DEF IsFirst
    <3>3. CASE a # c.last
      <4>1. c.last > a /\ c.last \in R
        BY <3>1, <3>3, <2>1, <2>2, <2>3
      <4>2. a + c.period \in R
        BY <4>1, <3>1, <2>3 DEF Spaced
      <4>3. a + c.period \in 0 .. N - 1 /\ N \in Nat \ {0}
        BY <4>2, <2>1, RowFacts
      <4>4. (a + c.period) % N = a + c.period
        BY <4>3
      <4> QED
        BY <4>2, <4>4
    <3> QED
      BY <3>2, <3>3
  <2> QED
    BY <2>3, <2>4, <2>5 DEF isCyclic, c, R
<1> QED
  BY <1>1, Invariants, CyclicInvariant, PTL
-----------------------------------------------------------------------------
(***************************************************************************)
(* Module Operations: the vector of an expression and its tree.            *)
(***************************************************************************)

(***************************************************************************)
(* What holds of 0 and of the successor of every n of which it holds,      *)
(* holds of all natural numbers; and what holds of every node of which all *)
(* lower nodes have it, holds of all nodes.                                *)
(***************************************************************************)
LEMMA LeastNumber ==
  ASSUME NEW S \in SUBSET Nat, S # {}
  PROVE  \E n \in S : \A m \in S : n <= m
<1>1. PICK n \in S : \A m \in S : ~(<<m, n>> \in OpToRel(<, Nat))
  BY NatLessThanWellFounded, WFMin
<1>2. \A m \in S : ~(m < n)
  BY <1>1 DEF OpToRel
<1> QED
  BY <1>2

LEMMA NumberInduction ==
  ASSUME NEW S, 0 \in S, \A n \in Nat : n \in S => n + 1 \in S
  PROVE  Nat \subseteq S
<1> SUFFICES ASSUME Nat \ S # {} PROVE FALSE
  OBVIOUS
<1>1. PICK n \in Nat \ S : \A m \in Nat \ S : n <= m
  BY LeastNumber
<1>2. n # 0 /\ n - 1 \in Nat /\ n - 1 < n
  BY <1>1
<1>3. n - 1 \in S
  BY <1>1, <1>2
<1>4. (n - 1) + 1 \in S /\ (n - 1) + 1 = n
  BY <1>2, <1>3
<1> QED
  BY <1>1, <1>4

LEMMA NodeFacts ==
  /\ RowCount \in Nat /\ RowCount > 0 /\ Prime \in Nat /\ Prime > 0
  /\ \A t \in Nodes : Height(t) \in Nat
  /\ \A t \in Nodes : t.op = "leaf" => t.id \in DOMAIN Leaf
  /\ \A t \in Nodes : t.op # "leaf" =>
       /\ t.op \in {"add", "addc", "sub", "mul", "mulc", "neg"}
       /\ Arity(t.op) \in 1 .. 2
       /\ \A v \in 1 .. Arity(t.op) : t.values[v] \in Nodes /\ Height(t.values[v]) < Height(t)
       /\ t.values[1] \in Nodes /\ Height(t.values[1]) < Height(t)
       /\ Arity(t.op) # 1 => t.values[2] \in Nodes /\ Height(t.values[2]) < Height(t)
<1>1. RowCount \in Nat /\ RowCount > 0 /\ Prime \in Nat /\ Prime > 0 /\ \A t \in Nodes : Height(t) \in Nat
  BY OperationsAssumption
<1>2. ASSUME NEW t \in Nodes, t.op # "leaf"
      PROVE  /\ t.op \in {"add", "addc", "sub", "mul", "mulc", "neg"}
             /\ \A v \in 1 .. Arity(t.op) : t.values[v] \in Nodes /\ Height(t.values[v]) < Height(t)
  BY <1>2, OperationsAssumption
<1>3. \A t \in Nodes : t.op = "leaf" => t.id \in DOMAIN Leaf
  BY OperationsAssumption
<1>4. \A op : Arity(op) \in 1 .. 2 /\ 1 \in 1 .. Arity(op) /\ (Arity(op) # 1 => 2 \in 1 .. Arity(op))
  BY DEF Arity
<1>5. ASSUME NEW t \in Nodes, t.op # "leaf"
      PROVE  /\ t.values[1] \in Nodes /\ Height(t.values[1]) < Height(t)
             /\ Arity(t.op) # 1 => t.values[2] \in Nodes /\ Height(t.values[2]) < Height(t)
  BY <1>2, <1>4, <1>5
<1> QED
  BY <1>1, <1>2, <1>3, <1>4, <1>5

LEMMA NodeInduction ==
  ASSUME NEW S, \A t \in Nodes : (\A c \in Nodes : Height(c) < Height(t) => c \in S) => t \in S
  PROVE  Nodes \subseteq S
<1> SUFFICES ASSUME NEW t \in Nodes, t \notin S PROVE FALSE
  OBVIOUS
<1> DEFINE H == { Height(c) : c \in Nodes \ S }
<1>1. H \in SUBSET Nat /\ H # {}
  BY NodeFacts
<1>2. PICK n \in H : \A m \in H : n <= m
  BY <1>1, LeastNumber
<1>3. PICK x \in Nodes \ S : Height(x) = n
  BY <1>2
<1>4. \A c \in Nodes : Height(c) < Height(x) => c \in S
  <2> SUFFICES ASSUME NEW c \in Nodes, Height(c) < Height(x), c \notin S PROVE FALSE
    OBVIOUS
  <2>1. Height(c) \in H /\ Height(c) \in Nat /\ Height(x) \in Nat
    BY NodeFacts
  <2> QED
    BY <1>2, <1>3, <2>1
<1> QED
  BY <1>3, <1>4

(***************************************************************************)
(* A function on the nodes may be defined by recursion: there is one that  *)
(* takes each node to what G makes of the values of the nodes below it.    *)
(***************************************************************************)
FromBelow(G, M, d, t) ==
  IF t.op = "leaf" THEN G[t][d][d]
  ELSE G[t][M[t.values[1]]][IF Arity(t.op) = 1 THEN d ELSE M[t.values[2]]]

LEMMA FromBelowType ==
  ASSUME NEW V, NEW d \in V, NEW G \in [Nodes -> [V -> [V -> V]]], NEW M \in [Nodes -> V], NEW t \in Nodes
  PROVE  FromBelow(G, M, d, t) \in V
<1>1. CASE t.op = "leaf"
  BY <1>1 DEF FromBelow
<1>2. CASE t.op # "leaf"
  <2>1. t.values[1] \in Nodes /\ (Arity(t.op) # 1 => t.values[2] \in Nodes)
    BY <1>2, NodeFacts
  <2>2. M[t.values[1]] \in V /\ (IF Arity(t.op) = 1 THEN d ELSE M[t.values[2]]) \in V
    BY <2>1
  <2> QED
    BY <1>2, <2>2 DEF FromBelow
<1> QED
  BY <1>1, <1>2

LEMMA FromBelowSame ==
  ASSUME NEW G, NEW d, NEW M, NEW L, NEW t \in Nodes,
         \A c \in Nodes : Height(c) < Height(t) => M[c] = L[c]
  PROVE  FromBelow(G, M, d, t) = FromBelow(G, L, d, t)
<1>1. CASE t.op = "leaf"
  BY <1>1 DEF FromBelow
<1>2. CASE t.op # "leaf"
  <2>1. M[t.values[1]] = L[t.values[1]] /\ (Arity(t.op) # 1 => M[t.values[2]] = L[t.values[2]])
    BY <1>2, NodeFacts
  <2> QED
    BY <2>1 DEF FromBelow
<1> QED
  BY <1>1, <1>2

LEMMA NodeRecursion ==
  ASSUME NEW V, NEW d \in V, NEW G \in [Nodes -> [V -> [V -> V]]]
  PROVE  \E M \in [Nodes -> V] : \A t \in Nodes : M[t] = FromBelow(G, M, d, t)
<1> DEFINE DefinedTo(M, h) == M \in [Nodes -> V] /\ \A t \in Nodes : Height(t) < h => M[t] = FromBelow(G, M, d, t)
           S == { h \in Nat : \E M : DefinedTo(M, h) }
<1>1. 0 \in S
  <2>1. DefinedTo([t \in Nodes |-> d], 0)
    BY NodeFacts
  <2> QED
    BY <2>1
<1>2. ASSUME NEW h \in Nat, h \in S PROVE h + 1 \in S
  <2>1. PICK M : DefinedTo(M, h)
    BY <1>2
  <2> DEFINE L == [t \in Nodes |-> FromBelow(G, M, d, t)]
  <2>2. L \in [Nodes -> V] /\ \A t \in Nodes : L[t] = FromBelow(G, M, d, t)
    BY <2>1, FromBelowType
  <2> HIDE DEF L
  <2>3. \A t \in Nodes : Height(t) < h => L[t] = M[t]
    BY <2>1, <2>2
  <2>4. ASSUME NEW t \in Nodes, Height(t) < h + 1 PROVE L[t] = FromBelow(G, L, d, t)
    <3>1. \A c \in Nodes : Height(c) < Height(t) => M[c] = L[c]
      BY <2>3, <2>4, NodeFacts
    <3>2. FromBelow(G, M, d, t) = FromBelow(G, L, d, t)
      BY <3>1, FromBelowSame
    <3> QED
      BY <2>2, <3>2
  <2>5. DefinedTo(L, h + 1)
    BY <2>2, <2>4
  <2> QED
    BY <2>5
<1>3. Nat \subseteq S
  <2> HIDE DEF S
  <2> QED
    BY <1>1, <1>2, NumberInduction
<1>4. ASSUME NEW M, NEW L, NEW g \in Nat, NEW h \in Nat, DefinedTo(M, g), DefinedTo(L, h)
      PROVE  \A t \in Nodes : Height(t) < g /\ Height(t) < h => M[t] = L[t]
  <2> DEFINE T == { t \in Nodes : Height(t) < g /\ Height(t) < h => M[t] = L[t] }
  <2>1. ASSUME NEW t \in Nodes, \A c \in Nodes : Height(c) < Height(t) => c \in T PROVE t \in T
    <3> SUFFICES ASSUME Height(t) < g, Height(t) < h PROVE M[t] = L[t]
      OBVIOUS
    <3>1. \A c \in Nodes : Height(c) < Height(t) => M[c] = L[c]
      BY <2>1, NodeFacts
    <3>2. M[t] = FromBelow(G, M, d, t) /\ L[t] = FromBelow(G, L, d, t)
      BY <1>4
    <3> QED
      BY <3>1, <3>2, FromBelowSame
  <2>2. Nodes \subseteq T
    <3> HIDE DEF T
    <3> QED
      BY <2>1, NodeInduction
  <2> QED
    BY <2>2
<1> DEFINE F == [h \in Nat |-> CHOOSE M : DefinedTo(M, h)]
           L == [t \in Nodes |-> F[Height(t) + 1][t]]
<1>5. \A h \in Nat : DefinedTo(F[h], h)
  BY <1>3
<1> HIDE DEF F
<1>6. L \in [Nodes -> V] /\ \A t \in Nodes : L[t] = F[Height(t) + 1][t]
  <2>1. \A t \in Nodes : Height(t) + 1 \in Nat
    BY NodeFacts
  <2>2. \A t \in Nodes : F[Height(t) + 1] \in [Nodes -> V]
    BY <1>5, <2>1
  <2> QED
    BY <2>2
<1> HIDE DEF L
<1>7. ASSUME NEW t \in Nodes PROVE L[t] = FromBelow(G, L, d, t)
  <2> DEFINE M == F[Height(t) + 1]
  <2>1. Height(t) + 1 \in Nat /\ Height(t) < Height(t) + 1 /\ DefinedTo(M, Height(t) + 1)
    BY <1>5, NodeFacts
  <2>2. M[t] = FromBelow(G, M, d, t)
    BY <2>1
  <2>3. ASSUME NEW c \in Nodes, Height(c) < Height(t) PROVE M[c] = L[c]
    <3>1. Height(c) + 1 \in Nat /\ Height(c) < Height(c) + 1 /\ DefinedTo(F[Height(c) + 1], Height(c) + 1)
      BY <1>5, NodeFacts
    <3>2. Height(c) < Height(t) + 1
      BY <2>3, NodeFacts
    <3> HIDE DEF M, DefinedTo
    <3>3. M[c] = F[Height(c) + 1][c]
      BY <1>4, <2>1, <3>1, <3>2
    <3> QED
      BY <1>6, <3>3
  <2>4. L[t] = M[t]
    BY <1>6
  <2> HIDE DEF M
  <2> QED
    BY <2>2, <2>3, <2>4, FromBelowSame
<1> QED
  BY <1>6, <1>7

(***************************************************************************)
(* The operations of the field.                                            *)
(***************************************************************************)
Residues == 0 .. Prime - 1
FieldOps == {"add", "addc", "sub", "mul", "mulc", "neg"}

LEMMA ResidueFacts ==
  ASSUME NEW x \in Int
  PROVE  x % Prime \in Residues
<1>1. Prime \in Nat /\ Prime > 0
  BY NodeFacts
<1> QED
  BY <1>1 DEF Residues

LEMMA ApplyType ==
  ASSUME NEW op \in FieldOps, NEW a \in Residues, NEW b \in Residues
  PROVE  Apply(op, a, b) \in Residues
<1>1. a \in Int /\ b \in Int /\ 0 \in Residues
  BY NodeFacts DEF Residues
<1>2. a + b \in Int /\ a - b \in Int /\ -a \in Int
  BY <1>1
<1>3. a * b \in Int
  BY <1>1
<1>4. (a + b) % Prime \in Residues /\ (a - b) % Prime \in Residues /\ (-a) % Prime \in Residues
      /\ (a * b) % Prime \in Residues
  BY <1>2, <1>3, ResidueFacts
<1>5. CASE op \in {"add", "addc"}
  BY <1>4, <1>5 DEF Apply
<1>6. CASE op = "sub"
  BY <1>4, <1>6 DEF Apply
<1>7. CASE op \in {"mul", "mulc"}
  BY <1>4, <1>7 DEF Apply
<1>8. CASE op = "neg"
  BY <1>4, <1>8 DEF Apply
<1> QED
  BY <1>5, <1>6, <1>7, <1>8 DEF FieldOps

(***************************************************************************)
(* The meaning of a node is that of its operation on the meanings of its   *)
(* values.                                                                 *)
(***************************************************************************)
Second(f, t) == IF Arity(t.op) = 1 THEN 0 ELSE f[t.values[2]]
IsMeaning(f, r) ==
  f = [t \in Nodes |-> IF t.op = "leaf" THEN Leaf[t.id][r]
                       ELSE Apply(t.op, f[t.values[1]], IF Arity(t.op) = 1 THEN 0 ELSE f[t.values[2]])]

LEMMA LeafType ==
  ASSUME NEW r \in 0 .. RowCount - 1, NEW id \in DOMAIN Leaf
  PROVE  Leaf[id][r] \in Residues
<1>1. Leaf[id] \in [0 .. RowCount - 1 -> 0 .. Prime - 1]
  BY OperationsAssumption
<1> QED
  BY <1>1 DEF Residues

LEMMA MeaningExists ==
  ASSUME NEW r \in 0 .. RowCount - 1
  PROVE  \E f : IsMeaning(f, r)
<1> DEFINE Made(t, a, b) == IF t.op = "leaf" THEN Leaf[t.id][r] ELSE Apply(t.op, a, b)
           G == [t \in Nodes |-> [a \in Residues |-> [b \in Residues |-> Made(t, a, b)]]]
<1>1. ASSUME NEW t \in Nodes, NEW a \in Residues, NEW b \in Residues
      PROVE  Made(t, a, b) \in Residues
  <2>1. CASE t.op = "leaf"
    BY <2>1, LeafType, NodeFacts
  <2>2. CASE t.op # "leaf"
    BY <2>2, ApplyType, NodeFacts DEF FieldOps
  <2> QED
    BY <2>1, <2>2
<1>2. 0 \in Residues
  BY NodeFacts DEF Residues
<1>3. G \in [Nodes -> [Residues -> [Residues -> Residues]]]
  <2> HIDE DEF Made
  <2> QED
    BY <1>1
<1>4. \A t \in Nodes, a \in Residues, b \in Residues : G[t][a][b] = Made(t, a, b)
  OBVIOUS
<1> HIDE DEF G
<1>5. PICK M \in [Nodes -> Residues] : \A t \in Nodes : M[t] = FromBelow(G, M, 0, t)
  BY <1>2, <1>3, NodeRecursion, ZenonT(30)
<1>6. ASSUME NEW t \in Nodes
      PROVE  M[t] = IF t.op = "leaf" THEN Leaf[t.id][r]
                    ELSE Apply(t.op, M[t.values[1]], IF Arity(t.op) = 1 THEN 0 ELSE M[t.values[2]])
  <2>1. CASE t.op = "leaf"
    <3>1. M[t] = G[t][0][0]
      BY <1>5, <2>1 DEF FromBelow
    <3> QED
      BY <1>2, <1>4, <2>1, <3>1
  <2>2. CASE t.op # "leaf"
    <3> DEFINE a == M[t.values[1]]
               b == IF Arity(t.op) = 1 THEN 0 ELSE M[t.values[2]]
    <3>1. a \in Residues /\ b \in Residues
      BY <1>2, <2>2, NodeFacts
    <3>2. M[t] = G[t][a][b]
      BY <1>5, <2>2 DEF FromBelow
    <3> HIDE DEF a, b
    <3>3. M[t] = Apply(t.op, a, b)
      BY <1>4, <2>2, <3>1, <3>2
    <3> QED
      BY <2>2, <3>3 DEF a, b
  <2> QED
    BY <2>1, <2>2
<1>7. M = [t \in Nodes |-> M[t]]
  BY <1>5
<1>8. IsMeaning(M, r)
  BY <1>6, <1>7 DEF IsMeaning
<1> QED
  BY <1>8

LEMMA MeaningFacts ==
  ASSUME NEW r \in 0 .. RowCount - 1, NEW t \in Nodes
  PROVE  /\ TreeValue(r)[t] \in Residues
         /\ t.op = "leaf" => TreeValue(r)[t] = Leaf[t.id][r]
         /\ t.op # "leaf" => TreeValue(r)[t] = Apply(t.op, TreeValue(r)[t.values[1]], Second(TreeValue(r), t))
<1> DEFINE F == CHOOSE f : IsMeaning(f, r)
<1>1. IsMeaning(F, r)
  BY MeaningExists
<1>2. TreeValue(r) = F
  BY DEF TreeValue, IsMeaning
<1> HIDE DEF F
<1>3. \A x \in Nodes :
        F[x] = IF x.op = "leaf" THEN Leaf[x.id][r]
               ELSE Apply(x.op, F[x.values[1]], IF Arity(x.op) = 1 THEN 0 ELSE F[x.values[2]])
  BY <1>1 DEF IsMeaning
<1> DEFINE S == { x \in Nodes : F[x] \in Residues }
<1>4. ASSUME NEW x \in Nodes, \A c \in Nodes : Height(c) < Height(x) => c \in S PROVE x \in S
  <2>1. CASE x.op = "leaf"
    BY <1>3, <2>1, LeafType, NodeFacts
  <2>2. CASE x.op # "leaf"
    <3> DEFINE a == F[x.values[1]]
               b == IF Arity(x.op) = 1 THEN 0 ELSE F[x.values[2]]
    <3>1. a \in Residues /\ b \in Residues /\ x.op \in FieldOps
      BY <1>4, <2>2, NodeFacts DEF Residues, FieldOps
    <3>2. F[x] = Apply(x.op, a, b)
      BY <1>3, <2>2
    <3> HIDE DEF a, b
    <3> QED
      BY <3>1, <3>2, ApplyType
  <2> QED
    BY <2>1, <2>2
<1>5. Nodes \subseteq S
  <2> HIDE DEF S
  <2> QED
    BY <1>4, NodeInduction
<1> QED
  BY <1>2, <1>3, <1>5 DEF Second

(***************************************************************************)
(* The leaves of a node are those of its values, one after the other.      *)
(***************************************************************************)
LeafSeqs == Seq(DOMAIN Leaf)
IsLeaves(f) ==
  f = [t \in Nodes |-> IF t.op = "leaf" THEN <<t.id>>
                       ELSE f[t.values[1]] \o (IF Arity(t.op) = 1 THEN <<>> ELSE f[t.values[2]])]

LEMMA LeavesExist == \E f : IsLeaves(f)
<1> DEFINE Made(t, a, b) == IF t.op = "leaf" THEN <<t.id>> ELSE a \o b
           G == [t \in Nodes |-> [a \in LeafSeqs |-> [b \in LeafSeqs |-> Made(t, a, b)]]]
<1>1. ASSUME NEW t \in Nodes, NEW a \in LeafSeqs, NEW b \in LeafSeqs
      PROVE  Made(t, a, b) \in LeafSeqs
  <2>1. CASE t.op = "leaf"
    <3>1. t.id \in DOMAIN Leaf
      BY <2>1, NodeFacts
    <3> QED
      BY <2>1, <3>1 DEF LeafSeqs
  <2>2. CASE t.op # "leaf"
    BY <2>2, ConcatProperties DEF LeafSeqs
  <2> QED
    BY <2>1, <2>2
<1>2. <<>> \in LeafSeqs
  BY EmptySeq DEF LeafSeqs
<1>3. G \in [Nodes -> [LeafSeqs -> [LeafSeqs -> LeafSeqs]]]
  <2> HIDE DEF Made
  <2> QED
    BY <1>1
<1>4. \A t \in Nodes, a \in LeafSeqs, b \in LeafSeqs : G[t][a][b] = Made(t, a, b)
  OBVIOUS
<1> HIDE DEF G
<1>5. PICK M \in [Nodes -> LeafSeqs] : \A t \in Nodes : M[t] = FromBelow(G, M, <<>>, t)
  BY <1>2, <1>3, NodeRecursion, ZenonT(30)
<1>6. ASSUME NEW t \in Nodes
      PROVE  M[t] = IF t.op = "leaf" THEN <<t.id>>
                    ELSE M[t.values[1]] \o (IF Arity(t.op) = 1 THEN <<>> ELSE M[t.values[2]])
  <2>1. CASE t.op = "leaf"
    <3>1. M[t] = G[t][<<>>][<<>>]
      BY <1>5, <2>1 DEF FromBelow
    <3> QED
      BY <1>2, <1>4, <2>1, <3>1
  <2>2. CASE t.op # "leaf"
    <3> DEFINE a == M[t.values[1]]
               b == IF Arity(t.op) = 1 THEN <<>> ELSE M[t.values[2]]
    <3>1. a \in LeafSeqs /\ b \in LeafSeqs
      BY <1>2, <2>2, NodeFacts
    <3>2. M[t] = G[t][a][b]
      BY <1>5, <2>2 DEF FromBelow
    <3> HIDE DEF a, b
    <3>3. M[t] = a \o b
      BY <1>4, <2>2, <3>1, <3>2
    <3> QED
      BY <2>2, <3>3 DEF a, b
  <2> QED
    BY <2>1, <2>2
<1>7. M = [t \in Nodes |-> M[t]]
  BY <1>5
<1>8. IsLeaves(M)
  BY <1>6, <1>7 DEF IsLeaves
<1> QED
  BY <1>8

LEMMA LeavesFacts ==
  ASSUME NEW t \in Nodes
  PROVE  /\ Leaves[t] \in LeafSeqs
         /\ t.op = "leaf" => Leaves[t] = <<t.id>>
         /\ t.op # "leaf" =>
              Leaves[t] = Leaves[t.values[1]] \o (IF Arity(t.op) = 1 THEN <<>> ELSE Leaves[t.values[2]])
<1> DEFINE F == CHOOSE f : IsLeaves(f)
<1>1. IsLeaves(F)
  BY LeavesExist
<1>2. Leaves = F
  BY DEF Leaves, IsLeaves
<1> HIDE DEF F
<1>3. \A x \in Nodes :
        F[x] = IF x.op = "leaf" THEN <<x.id>>
               ELSE F[x.values[1]] \o (IF Arity(x.op) = 1 THEN <<>> ELSE F[x.values[2]])
  BY <1>1 DEF IsLeaves
<1> DEFINE S == { x \in Nodes : F[x] \in LeafSeqs }
<1>4. ASSUME NEW x \in Nodes, \A c \in Nodes : Height(c) < Height(x) => c \in S PROVE x \in S
  <2>1. CASE x.op = "leaf"
    <3>1. x.id \in DOMAIN Leaf /\ F[x] = <<x.id>>
      BY <1>3, <2>1, NodeFacts
    <3>2. <<x.id>> \in LeafSeqs
      BY <3>1 DEF LeafSeqs
    <3> QED
      BY <3>1, <3>2
  <2>2. CASE x.op # "leaf"
    <3> DEFINE a == F[x.values[1]]
               b == IF Arity(x.op) = 1 THEN <<>> ELSE F[x.values[2]]
    <3>1. a \in LeafSeqs /\ b \in LeafSeqs
      BY <1>4, <2>2, NodeFacts, EmptySeq DEF LeafSeqs
    <3>2. F[x] = a \o b
      BY <1>3, <2>2
    <3> HIDE DEF a, b
    <3> QED
      BY <3>1, <3>2, ConcatProperties DEF LeafSeqs
  <2> QED
    BY <2>1, <2>2
<1>5. Nodes \subseteq S
  <2> HIDE DEF S
  <2> QED
    BY <1>4, NodeInduction
<1> QED
  BY <1>2, <1>3, <1>5
-----------------------------------------------------------------------------
(***************************************************************************)
(* The invariant: the sets of the variables.                               *)
(***************************************************************************)
Settings == [type : {"NONE", "LEAF", "OP"}, id : Nat \cup DOMAIN Leaf]
OperationSet == [op : FieldOps, values : [1 .. 2 -> Settings], result : Residues]
FrameSet == [node : Nodes, destination : Nat, value : 1 .. 3]

OpTypeInv ==
  /\ tree \in Trees
  /\ operations \in Seq(OperationSet) /\ Len(operations) > 0
  /\ frames \in Seq(FrameSet)
  /\ dependencies \in LeafSeqs
  /\ isCompiled \in BOOLEAN /\ stillZero \in BOOLEAN
  /\ isCompiled <=> frames = <<>>
  /\ evalRow \in 0 .. RowCount /\ evaluation \in Seq(Residues) /\ Len(evaluation) = evalRow
  /\ opIndex \in 0 .. Len(operations)
  /\ ~isCompiled => evalRow = 0 /\ opIndex = 0

(***************************************************************************)
(* Each operation stands for a node of the tree, f[k]: its values are set  *)
(* to those of the node, a value that is an operation to one further back, *)
(* but for those that the calls on the stack have not come to.             *)
(***************************************************************************)
Open(stack, k, v) == \E j \in 1 .. Len(stack) : stack[j].destination = k /\ v >= stack[j].value
Unfilled(k, v) == v > Arity(operations[k].op) \/ Open(frames, k, v)

Filled(f, k, v) ==
  LET t == f[k].values[v]
      o == operations[k].values[v]
  IN  \/ t.op = "leaf" /\ o = [type |-> "LEAF", id |-> t.id]
      \/ \E m \in k + 1 .. Len(operations) : o = [type |-> "OP", id |-> m] /\ f[m] = t

Placed(f) ==
  /\ f \in Seq(Nodes) /\ Len(f) = Len(operations) /\ f[1] = tree
  /\ \A k \in 1 .. Len(operations) : f[k].op = operations[k].op
  /\ \A j \in 1 .. Len(frames) :
       /\ frames[j].destination \in 1 .. Len(operations)
       /\ frames[j].node = f[frames[j].destination]
       /\ frames[j].value <= Arity(frames[j].node.op) + 1
  /\ \A i, j \in 1 .. Len(frames) : i < j => frames[i].destination < frames[j].destination
  /\ \A k \in 1 .. Len(operations), v \in 1 .. 2 :
       IF Unfilled(k, v) THEN operations[k].values[v] = Unset ELSE Filled(f, k, v)

(***************************************************************************)
(* What the loop of eval has passed has its result at this row.            *)
(***************************************************************************)
Computed(f) ==
  isCompiled =>
    \A k \in opIndex + 1 .. Len(operations) : operations[k].result = TreeValue(evalRow)[f[k]]

PlaceInv == \E f : Placed(f) /\ Computed(f)
-----------------------------------------------------------------------------
(***************************************************************************)
(* Setting one value of one operation.                                     *)
(***************************************************************************)
LEMMA OperationFacts ==
  ASSUME OpTypeInv, NEW k \in 1 .. Len(operations)
  PROVE  /\ operations[k] \in OperationSet
         /\ operations[k].op \in FieldOps /\ operations[k].op # "leaf"
         /\ operations[k].values \in [1 .. 2 -> Settings] /\ operations[k].result \in Residues
         /\ \A v \in 1 .. 2 : operations[k].values[v] \in Settings
<1>1. operations[k] \in OperationSet
  BY ElementOfSeq DEF OpTypeInv
<1> QED
  BY <1>1 DEF OperationSet, FieldOps

LEMMA SetValueFacts ==
  ASSUME OpTypeInv, NEW o \in Settings, Top.destination \in 1 .. Len(operations), Top.value \in 1 .. 2
  PROVE  /\ SetValue(o) \in Seq(OperationSet) /\ Len(SetValue(o)) = Len(operations)
         /\ \A k \in 1 .. Len(operations) :
              /\ SetValue(o)[k].op = operations[k].op
              /\ SetValue(o)[k].result = operations[k].result
              /\ \A v \in 1 .. 2 : SetValue(o)[k].values[v] =
                   IF k = Top.destination /\ v = Top.value THEN o ELSE operations[k].values[v]
<1> DEFINE d == Top.destination
           u == Top.value
           e == [operations[d] EXCEPT !.values[u] = o]
<1>1. operations \in Seq(OperationSet) /\ DOMAIN operations = 1 .. Len(operations)
  BY LenProperties DEF OpTypeInv
<1>2. e \in OperationSet /\ e.op = operations[d].op /\ e.result = operations[d].result
      /\ \A v \in 1 .. 2 : e.values[v] = IF v = u THEN o ELSE operations[d].values[v]
  <2>1. operations[d] \in OperationSet
    BY OperationFacts
  <2> QED
    BY <2>1 DEF OperationSet
<1>3. SetValue(o) = [operations EXCEPT ![d] = e]
  BY <1>1 DEF SetValue
<1> HIDE DEF e
<1>4. /\ SetValue(o) \in Seq(OperationSet) /\ Len(SetValue(o)) = Len(operations)
      /\ \A k \in 1 .. Len(operations) : SetValue(o)[k] = IF k = d THEN e ELSE operations[k]
  BY <1>1, <1>2, <1>3, ExceptSeq
<1> QED
  BY <1>2, <1>4

(***************************************************************************)
(* The calls on the stack.                                                 *)
(***************************************************************************)
LEMMA FrameFacts ==
  ASSUME OpTypeInv, frames # <<>>
  PROVE  /\ Len(frames) \in Nat /\ Len(frames) > 0 /\ DOMAIN frames = 1 .. Len(frames)
         /\ \A j \in 1 .. Len(frames) : frames[j] \in FrameSet /\ frames[j].value \in 1 .. 3
         /\ Top = frames[Len(frames)] /\ Top \in FrameSet
<1>1. frames \in Seq(FrameSet)
  BY DEF OpTypeInv
<1>2. Len(frames) \in Nat /\ Len(frames) > 0 /\ DOMAIN frames = 1 .. Len(frames)
  BY <1>1, EmptySeq, LenProperties
<1>3. \A j \in 1 .. Len(frames) : frames[j] \in FrameSet
  BY <1>1, ElementOfSeq
<1> QED
  BY <1>2, <1>3 DEF Top, FrameSet

LEMMA TopFacts ==
  ASSUME OpTypeInv, NEW f, Placed(f), HasValue
  PROVE  /\ frames # <<>> /\ ~isCompiled
         /\ Top.destination \in 1 .. Len(operations) /\ Top.value \in 1 .. 2
         /\ Top.node = f[Top.destination] /\ f[Top.destination] \in Nodes
         /\ f[Top.destination].op = operations[Top.destination].op
         /\ Top.value \in 1 .. Arity(operations[Top.destination].op)
         /\ Value = f[Top.destination].values[Top.value] /\ Value \in Nodes
         /\ Unfilled(Top.destination, Top.value)
<1>1. frames # <<>> /\ ~isCompiled /\ Top.value <= Arity(Top.node.op)
  BY DEF HasValue, OpTypeInv
<1> DEFINE n == Len(frames)
           d == Top.destination
<1>2. n \in 1 .. Len(frames) /\ Top = frames[n] /\ Top.value \in 1 .. 3
  BY <1>1, FrameFacts
<1>3. d \in 1 .. Len(operations) /\ Top.node = f[d]
  BY <1>2 DEF Placed
<1>4. f[d] \in Nodes /\ f[d].op = operations[d].op /\ f[d].op # "leaf"
  <2>1. f \in Seq(Nodes) /\ d \in 1 .. Len(f)
    BY <1>3 DEF Placed
  <2>2. f[d] \in Nodes
    BY <2>1, ElementOfSeq
  <2>3. operations[d].op # "leaf" /\ f[d].op = operations[d].op
    BY <1>3, OperationFacts DEF Placed
  <2> QED
    BY <2>2, <2>3
<1>5. Top.value \in 1 .. Arity(f[d].op) /\ Arity(f[d].op) \in 1 .. 2
  BY <1>1, <1>2, <1>3, <1>4, NodeFacts
<1>6. f[d].values[Top.value] \in Nodes
  BY <1>4, <1>5, NodeFacts
<1>7. Open(frames, d, Top.value)
  BY <1>2 DEF Open
<1> QED
  BY <1>1, <1>2, <1>3, <1>4, <1>5, <1>6, <1>7 DEF Value, Unfilled

LEMMA AdvancedFacts ==
  ASSUME OpTypeInv, NEW f, Placed(f), HasValue
  PROVE  /\ Advanced \in Seq(FrameSet) /\ Len(Advanced) = Len(frames) /\ Advanced # <<>>
         /\ \A j \in 1 .. Len(frames) :
              /\ Advanced[j].node = frames[j].node /\ Advanced[j].destination = frames[j].destination
              /\ Advanced[j].value = IF j = Len(frames) THEN frames[j].value + 1 ELSE frames[j].value
         /\ \A k \in 1 .. Len(operations), v \in 1 .. 2 :
              Open(Advanced, k, v) <=> Open(frames, k, v) /\ ~(k = Top.destination /\ v = Top.value)
<1> DEFINE n == Len(frames)
           e == [Top EXCEPT !.value = @ + 1]
<1>1. n \in 1 .. Len(frames) /\ Top = frames[n] /\ Top \in FrameSet /\ Top.value \in 1 .. 2
      /\ DOMAIN frames = 1 .. n /\ n \in Nat
  BY FrameFacts, TopFacts
<1>2. e \in FrameSet /\ e.node = Top.node /\ e.destination = Top.destination /\ e.value = Top.value + 1
  BY <1>1 DEF FrameSet
<1>3. Advanced = [frames EXCEPT ![n] = e]
  BY <1>1 DEF Advanced
<1> HIDE DEF e
<1>4. frames \in Seq(FrameSet)
  BY DEF OpTypeInv
<1>5. /\ Advanced \in Seq(FrameSet) /\ Len(Advanced) = n
      /\ \A j \in 1 .. n : Advanced[j] = IF j = n THEN e ELSE frames[j]
  BY <1>1, <1>2, <1>3, <1>4, ExceptSeq
<1>6. Advanced # <<>>
  <2> SUFFICES ASSUME Advanced = <<>> PROVE FALSE
    OBVIOUS
  <2>1. Len(Advanced) = 0
    OBVIOUS
  <2> QED
    BY <1>1, <1>5, <2>1
<1>7. \A j \in 1 .. n :
        /\ Advanced[j].node = frames[j].node /\ Advanced[j].destination = frames[j].destination
        /\ Advanced[j].value = IF j = n THEN frames[j].value + 1 ELSE frames[j].value
  BY <1>1, <1>2, <1>5
<1>8. \A v \in 1 .. 2 : v >= Top.value + 1 <=> v >= Top.value /\ v # Top.value
  BY <1>1
<1>9. ASSUME NEW x \in 1 .. n, x # n
      PROVE  frames[x].destination # Top.destination
  <2>1. x < n
    <3>1. n \in Nat /\ x \in 1 .. n /\ x # n
      BY <1>1, <1>9
    <3> HIDE DEF n
    <3> QED
      BY <3>1
  <2>2. frames[x].destination < Top.destination /\ Top.destination \in 1 .. Len(operations)
    BY <1>1, <2>1 DEF Placed
  <2>3. frames[x].destination \in 1 .. Len(operations)
    BY DEF Placed
  <2> QED
    BY <2>2, <2>3
<1>10. ASSUME NEW k, NEW v \in 1 .. 2, NEW x \in 1 .. n
       PROVE  Advanced[x].destination = k /\ v >= Advanced[x].value <=>
                frames[x].destination = k /\ v >= frames[x].value /\ ~(k = Top.destination /\ v = Top.value)
  <2>1. CASE x = n
    <3>1. Advanced[x].destination = Top.destination /\ Advanced[x].value = Top.value + 1
          /\ frames[x].destination = Top.destination /\ frames[x].value = Top.value
      BY <1>1, <1>7, <2>1
    <3> QED
      BY <1>8, <3>1
  <2>2. CASE x # n
    <3>1. Advanced[x].destination = frames[x].destination /\ Advanced[x].value = frames[x].value
      BY <1>7, <2>2
    <3> QED
      BY <1>9, <2>2, <3>1
  <2> QED
    BY <2>1, <2>2
<1>11. \A k \in 1 .. Len(operations), v \in 1 .. 2 :
         Open(Advanced, k, v) <=> Open(frames, k, v) /\ ~(k = Top.destination /\ v = Top.value)
  BY <1>5, <1>10 DEF Open
<1> QED
  BY <1>5, <1>6, <1>7, <1>11

LEMMA OpenAppend ==
  ASSUME NEW S, NEW s \in Seq(S), NEW e \in S, NEW k, NEW v
  PROVE  Open(Append(s, e), k, v) <=> Open(s, k, v) \/ (e.destination = k /\ v >= e.value)
<1>1. Len(Append(s, e)) = Len(s) + 1 /\ Append(s, e)[Len(s) + 1] = e /\ Len(s) \in Nat
      /\ \A j \in 1 .. Len(s) : Append(s, e)[j] = s[j]
  BY AppendProperties, LenProperties
<1>2. 1 .. Len(s) + 1 = (1 .. Len(s)) \cup {Len(s) + 1}
  BY <1>1
<1> QED
  BY <1>1, <1>2 DEF Open

(***************************************************************************)
(* Initially the vector is the operation of the tree, with no value set.   *)
(***************************************************************************)
Fresh(op) == [op |-> op, values |-> <<Unset, Unset>>, result |-> 0]

LEMMA FreshFacts ==
  ASSUME NEW op \in FieldOps
  PROVE  /\ Fresh(op) \in OperationSet /\ Fresh(op).op = op /\ Fresh(op).result = 0
         /\ \A v \in 1 .. 2 : Fresh(op).values[v] = Unset
<1>1. 0 \in Residues
  BY NodeFacts DEF Residues
<1>2. Unset \in Settings
  BY DEF Unset, Settings
<1>3. <<Unset, Unset>> \in [1 .. 2 -> Settings] /\ \A v \in 1 .. 2 : <<Unset, Unset>>[v] = Unset
  BY <1>2
<1> HIDE DEF Unset
<1> QED
  BY <1>1, <1>3 DEF Fresh, OperationSet

LEMMA CalledFacts ==
  ASSUME NEW ops \in Seq(OperationSet), NEW node \in Nodes, node.op # "leaf"
  PROVE  Called(Append(ops, EmptyOperation), node, Len(ops) + 1) = Append(ops, Fresh(node.op))
<1> DEFINE S == OperationSet \cup {EmptyOperation}
           e == [EmptyOperation EXCEPT !.op = node.op]
           s == Append(ops, EmptyOperation)
           n == Len(ops)
<1>1. e = Fresh(node.op)
  BY DEF EmptyOperation, Fresh
<1>2. node.op \in FieldOps
  BY NodeFacts DEF FieldOps
<1>3. e \in S
  BY <1>1, <1>2, FreshFacts
<1>4. ops \in Seq(S) /\ n \in Nat
  BY LenProperties, SeqMonotonic
<1>5. /\ s \in Seq(S) /\ Len(s) = n + 1
      /\ \A i \in 1 .. n : s[i] = ops[i]
      /\ s[n + 1] = EmptyOperation
  BY <1>4, AppendProperties
<1>6. DOMAIN s = 1 .. n + 1 /\ n + 1 \in 1 .. Len(s)
  BY <1>4, <1>5, LenProperties
<1> HIDE DEF s, S
<1>7. Called(s, node, n + 1) = [s EXCEPT ![n + 1] = e]
  BY <1>5, <1>6 DEF Called
<1> HIDE DEF e
<1> DEFINE c == [s EXCEPT ![n + 1] = e]
<1>8. c \in Seq(S) /\ Len(c) = n + 1 /\ \A i \in 1 .. n + 1 : c[i] = IF i = n + 1 THEN e ELSE s[i]
  BY <1>3, <1>5, <1>6, ExceptSeq
<1> HIDE DEF c
<1> DEFINE a == Append(ops, e)
<1>9. a \in Seq(S) /\ Len(a) = n + 1 /\ (\A i \in 1 .. n : a[i] = ops[i]) /\ a[n + 1] = e
  BY <1>3, <1>4, AppendProperties
<1> HIDE DEF a
<1>10. \A i \in 1 .. n + 1 : c[i] = a[i]
  BY <1>4, <1>5, <1>8, <1>9
<1>11. c = a
  BY <1>8, <1>9, <1>10, SeqEqual
<1> QED
  BY <1>1, <1>7, <1>11 DEF c, a, s

LEMMA FrameType ==
  ASSUME NEW node \in Nodes, NEW d \in Nat
  PROVE  /\ Frame(node, d) \in FrameSet
         /\ Frame(node, d).node = node /\ Frame(node, d).destination = d /\ Frame(node, d).value = 1
BY DEF Frame, FrameSet

LEMMA OpInit ==
  ASSUME OperationsInit
  PROVE  OpTypeInv /\ PlaceInv /\ Len(operations) = 1
<1>1. tree \in Trees /\ tree \in Nodes /\ tree.op # "leaf"
  BY OperationsAssumption DEF OperationsInit
<1>2. tree.op \in FieldOps
  BY <1>1, NodeFacts DEF FieldOps
<1>3. operations = <<Fresh(tree.op)>>
  <2>1. <<>> \in Seq(OperationSet) /\ Len(<<>>) = 0
    BY EmptySeq
  <2>2. Append(<<>>, EmptyOperation) = <<EmptyOperation>> /\ Append(<<>>, Fresh(tree.op)) = <<Fresh(tree.op)>>
    OBVIOUS
  <2>3. Called(Append(<<>>, EmptyOperation), tree, Len(<<>>) + 1) = Append(<<>>, Fresh(tree.op))
    BY <1>1, <2>1, CalledFacts
  <2>4. operations = Called(<<EmptyOperation>>, tree, 1)
    BY DEF OperationsInit
  <2>5. Len(<<>>) + 1 = 1
    BY <2>1
  <2> QED
    BY <2>2, <2>3, <2>4, <2>5
<1>4. Fresh(tree.op) \in OperationSet /\ Fresh(tree.op).op = tree.op
      /\ \A v \in 1 .. 2 : Fresh(tree.op).values[v] = Unset
  BY <1>2, FreshFacts
<1> DEFINE e == Fresh(tree.op)
           b == Frame(tree, 1)
           f == <<tree>>
<1>5. /\ operations \in Seq(OperationSet) /\ Len(operations) = 1 /\ operations[1] = e
  <2>1. operations = <<e>> /\ e \in OperationSet
    BY <1>3, <1>4
  <2> HIDE DEF e
  <2> QED
    BY <2>1
<1>6. b \in FrameSet /\ b.node = tree /\ b.destination = 1 /\ b.value = 1
  BY <1>1, FrameType
<1>7. frames = <<b>>
  BY DEF OperationsInit
<1> HIDE DEF e, b
<1>8. frames \in Seq(FrameSet) /\ Len(frames) = 1 /\ frames[1] = b /\ frames # <<>>
  BY <1>6, <1>7
<1>9. f \in Seq(Nodes) /\ Len(f) = 1 /\ f[1] = tree
  BY <1>1
<1>10. OpTypeInv
  <2>1. dependencies \in LeafSeqs /\ evaluation \in Seq(Residues) /\ Len(evaluation) = 0
    BY EmptySeq DEF OperationsInit, LeafSeqs
  <2>2. evalRow = 0 /\ opIndex = 0 /\ isCompiled = FALSE /\ stillZero = TRUE
    BY DEF OperationsInit
  <2>3. evalRow \in 0 .. RowCount /\ opIndex \in 0 .. Len(operations)
    BY <1>5, <2>2, NodeFacts
  <2>4. isCompiled \in BOOLEAN /\ stillZero \in BOOLEAN /\ ~isCompiled
    BY <2>2
  <2>5. isCompiled <=> frames = <<>>
    BY <1>8, <2>4
  <2>6. Len(evaluation) = evalRow /\ Len(operations) > 0
    BY <1>5, <2>1, <2>2
  <2> QED
    BY <1>1, <1>5, <1>8, <2>1, <2>2, <2>3, <2>4, <2>5, <2>6 DEF OpTypeInv
<1>11. Placed(f)
  <2> HIDE DEF f
  <2>1. f[1].op = operations[1].op
    BY <1>4, <1>5, <1>9 DEF e
  <2>2. frames[1].value <= Arity(frames[1].node.op) + 1
    BY <1>6, <1>8 DEF Arity
  <2>3. \A v \in 1 .. 2 : Unfilled(1, v) /\ operations[1].values[v] = Unset
    <3>1. \A v \in 1 .. 2 : Open(frames, 1, v)
      BY <1>6, <1>8 DEF Open
    <3> QED
      BY <1>4, <1>5, <3>1 DEF e, Unfilled
  <2>4. \A j \in 1 .. Len(frames) : j = 1
    BY <1>8
  <2>5. \A k \in 1 .. Len(operations) : k = 1
    BY <1>5
  <2>6. \A j \in 1 .. Len(frames) :
          /\ frames[j].destination \in 1 .. Len(operations)
          /\ frames[j].node = f[frames[j].destination]
          /\ frames[j].value <= Arity(frames[j].node.op) + 1
    <3>1. frames[1].destination \in 1 .. Len(operations) /\ frames[1].node = f[frames[1].destination]
      BY <1>5, <1>6, <1>8, <1>9
    <3> QED
      BY <2>2, <2>4, <3>1
  <2>7. \A i, j \in 1 .. Len(frames) : ~(i < j)
    BY <1>8
  <2> QED
    BY <1>5, <1>9, <2>1, <2>3, <2>5, <2>6, <2>7 DEF Placed
<1>12. Computed(f)
  BY DEF Computed, OperationsInit
<1> QED
  BY <1>5, <1>10, <1>11, <1>12 DEF PlaceInv

(***************************************************************************)
(* A value that is an operation: its node is the next element of f.        *)
(***************************************************************************)
LEMMA CompiledOperation ==
  ASSUME OpTypeInv, NEW f, Placed(f), CompileOperation
  PROVE  LET n == Len(operations)
             o == [type |-> "OP", id |-> n + 1]
         IN /\ n \in Nat
            /\ operations' \in Seq(OperationSet) /\ Len(operations') = n + 1
            /\ \A k \in 1 .. n :
                 /\ operations'[k].op = operations[k].op
                 /\ \A v \in 1 .. 2 : operations'[k].values[v] =
                      IF k = Top.destination /\ v = Top.value THEN o ELSE operations[k].values[v]
            /\ operations'[n + 1].op = Value.op
            /\ \A v \in 1 .. 2 : operations'[n + 1].values[v] = Unset
            /\ frames' = Append(Advanced, Frame(Value, n + 1))
            /\ Frame(Value, n + 1) \in FrameSet
<1> DEFINE n == Len(operations)
           o == [type |-> "OP", id |-> n + 1]
           s == SetValue(o)
<1>1. HasValue /\ Value.op # "leaf"
  BY DEF CompileOperation
<1>2. Top.destination \in 1 .. n /\ Top.value \in 1 .. 2 /\ Value \in Nodes
  BY <1>1, TopFacts
<1>3. n \in Nat
  BY LenProperties DEF OpTypeInv
<1>4. o \in Settings
  BY <1>3 DEF Settings
<1>5. /\ s \in Seq(OperationSet) /\ Len(s) = n
      /\ \A k \in 1 .. n :
           /\ s[k].op = operations[k].op
           /\ \A v \in 1 .. 2 : s[k].values[v] =
                IF k = Top.destination /\ v = Top.value THEN o ELSE operations[k].values[v]
  <2> HIDE DEF o
  <2> QED
    BY <1>2, <1>4, SetValueFacts
<1>6. operations' = Called(Append(s, EmptyOperation), Value, n + 1)
      /\ frames' = Append(Advanced, Frame(Value, n + 1))
  BY DEF CompileOperation
<1> HIDE DEF s, o
<1> DEFINE e == Fresh(Value.op)
<1>7. operations' = Append(s, e)
  BY <1>1, <1>2, <1>5, <1>6, CalledFacts
<1>8. e \in OperationSet /\ e.op = Value.op /\ \A v \in 1 .. 2 : e.values[v] = Unset
  BY <1>1, <1>2, NodeFacts, FreshFacts DEF FieldOps
<1> HIDE DEF e
<1>9. /\ operations' \in Seq(OperationSet) /\ Len(operations') = n + 1
      /\ \A k \in 1 .. n : operations'[k] = s[k]
      /\ operations'[n + 1] = e
  BY <1>5, <1>7, <1>8, AppendProperties
<1>10. Frame(Value, n + 1) \in FrameSet
  BY <1>2, <1>3, FrameType
<1> QED
  BY <1>3, <1>5, <1>6, <1>8, <1>9, <1>10 DEF o


LEMMA TypeAfterCompileOperation ==
  ASSUME OpTypeInv, NEW f, Placed(f), CompileOperation
  PROVE  OpTypeInv'
<1>1. HasValue
  BY DEF CompileOperation
<1>2. /\ operations' \in Seq(OperationSet) /\ Len(operations') = Len(operations) + 1 /\ Len(operations) \in Nat
      /\ frames' = Append(Advanced, Frame(Value, Len(operations) + 1))
      /\ Frame(Value, Len(operations) + 1) \in FrameSet
  BY CompiledOperation
<1>3. Advanced \in Seq(FrameSet) /\ ~isCompiled
  BY <1>1, AdvancedFacts, TopFacts
<1> DEFINE c == Frame(Value, Len(operations) + 1)
<1>4. frames' \in Seq(FrameSet) /\ frames' # <<>>
  <2> HIDE DEF c
  <2>1. frames' = Append(Advanced, c) /\ c \in FrameSet
    BY <1>2 DEF c
  <2> QED
    BY <1>3, <2>1, AppendProperties
<1>5. Len(operations') > 0 /\ opIndex \in 0 .. Len(operations')
  BY <1>2 DEF OpTypeInv
<1> QED
  BY <1>2, <1>3, <1>4, <1>5 DEF OpTypeInv, CompileOperation

LEMMA PlaceAfterCompileOperation ==
  ASSUME OpTypeInv, NEW f, Placed(f), CompileOperation
  PROVE  \E g : Placed(g)' /\ Computed(g)'
<1> DEFINE n == Len(operations)
           m == Len(frames)
           d == Top.destination
           u == Top.value
           c == Frame(Value, n + 1)
<1>1. HasValue /\ isCompiled' = isCompiled /\ tree' = tree
  BY DEF CompileOperation
<1>2. /\ ~isCompiled /\ d \in 1 .. n /\ u \in 1 .. 2 /\ u \in 1 .. Arity(operations[d].op)
      /\ Value = f[d].values[u] /\ Value \in Nodes
  BY <1>1, TopFacts
<1>3. /\ n \in Nat /\ Len(operations') = n + 1
      /\ \A k \in 1 .. n : operations'[k].op = operations[k].op
      /\ \A k \in 1 .. n, v \in 1 .. 2 : operations'[k].values[v] =
           IF k = d /\ v = u THEN [type |-> "OP", id |-> n + 1] ELSE operations[k].values[v]
      /\ operations'[n + 1].op = Value.op
      /\ \A v \in 1 .. 2 : operations'[n + 1].values[v] = Unset
      /\ frames' = Append(Advanced, c) /\ c \in FrameSet
  BY CompiledOperation
<1>4. c.node = Value /\ c.destination = n + 1 /\ c.value = 1
  BY <1>2, <1>3, FrameType
<1> HIDE DEF c
<1>5. /\ m \in Nat /\ Advanced \in Seq(FrameSet) /\ Len(Advanced) = m
      /\ \A j \in 1 .. m :
           /\ Advanced[j].node = frames[j].node /\ Advanced[j].destination = frames[j].destination
           /\ Advanced[j].value = IF j = m THEN frames[j].value + 1 ELSE frames[j].value
      /\ \A k \in 1 .. n, v \in 1 .. 2 : Open(Advanced, k, v) <=> Open(frames, k, v) /\ ~(k = d /\ v = u)
  <2>1. m \in Nat
    BY LenProperties DEF OpTypeInv
  <2> QED
    BY <1>1, <2>1, AdvancedFacts
<1>6. /\ Len(frames') = m + 1 /\ frames'[m + 1] = c
      /\ \A j \in 1 .. m : frames'[j] = Advanced[j]
  BY <1>3, <1>5, AppendProperties
<1>7. PICK g : g = Append(f, Value)
  OBVIOUS
<1>8. f \in Seq(Nodes) /\ Len(f) = n /\ f[1] = tree
  BY DEF Placed
<1>9. g \in Seq(Nodes) /\ Len(g) = n + 1 /\ g[n + 1] = Value /\ \A k \in 1 .. n : g[k] = f[k]
  BY <1>2, <1>7, <1>8, AppendProperties
<1>10. 1 .. n + 1 = (1 .. n) \cup {n + 1} /\ 1 .. m + 1 = (1 .. m) \cup {m + 1} /\ n > 0
  BY <1>2, <1>3, <1>5
<1>11. g[1] = tree' /\ Len(g) = Len(operations')
  BY <1>1, <1>3, <1>8, <1>9, <1>10
<1>12. \A k \in 1 .. n + 1 : g[k].op = operations'[k].op
  BY <1>3, <1>9, <1>10 DEF Placed
<1>13. ASSUME NEW j \in 1 .. m + 1
       PROVE  /\ frames'[j].destination \in 1 .. n + 1
              /\ frames'[j].node = g[frames'[j].destination]
              /\ frames'[j].value <= Arity(frames'[j].node.op) + 1
  <2>1. CASE j = m + 1
    <3>1. 1 <= Arity(Value.op) + 1
      BY DEF Arity
    <3> QED
      BY <1>3, <1>4, <1>6, <1>9, <2>1, <3>1
  <2>2. CASE j \in 1 .. m
    <3>1. frames'[j].destination = frames[j].destination /\ frames'[j].node = frames[j].node
          /\ frames[j].destination \in 1 .. n /\ frames[j].node = f[frames[j].destination]
          /\ frames[j].value <= Arity(frames[j].node.op) + 1
      BY <1>5, <1>6, <2>2 DEF Placed
    <3>2. frames'[j].value <= Arity(frames[j].node.op) + 1
      <4>1. CASE j = m
        <5>1. frames[j].value <= Arity(frames[j].node.op) /\ frames'[j].value = frames[j].value + 1
          BY <1>1, <1>5, <1>6, <2>2, <4>1 DEF HasValue, Top
        <5>2. frames[j].value \in 1 .. 2
          BY <1>2, <4>1 DEF Top
        <5>3. Arity(frames[j].node.op) \in 1 .. 2
          BY DEF Arity
        <5> QED
          BY <5>1, <5>2, <5>3
      <4>2. CASE j # m
        BY <1>5, <1>6, <2>2, <3>1, <4>2
      <4> QED
        BY <4>1, <4>2
    <3>3. frames[j].destination \in 1 .. n + 1
      BY <1>3, <3>1
    <3>4. g[frames[j].destination] = f[frames[j].destination]
      BY <1>9, <3>1
    <3> HIDE DEF n
    <3> QED
      BY <3>1, <3>2, <3>3, <3>4
  <2> QED
    BY <1>10, <2>1, <2>2
<1>14. ASSUME NEW i \in 1 .. m + 1, NEW j \in 1 .. m + 1, i < j
       PROVE  frames'[i].destination < frames'[j].destination
  <2>1. i \in 1 .. m /\ frames'[i].destination = frames[i].destination /\ frames[i].destination \in 1 .. n
    BY <1>5, <1>6, <1>14 DEF Placed
  <2>2. CASE j = m + 1
    BY <1>3, <1>4, <1>6, <2>1, <2>2
  <2>3. CASE j \in 1 .. m
    BY <1>5, <1>6, <1>14, <2>1, <2>3 DEF Placed
  <2> QED
    BY <1>10, <2>2, <2>3
<1>15. ASSUME NEW k \in 1 .. n + 1, NEW v \in 1 .. 2
       PROVE  IF Unfilled(k, v)' THEN operations'[k].values[v] = Unset ELSE Filled(g, k, v)'
  <2>1. Open(frames', k, v) <=> Open(Advanced, k, v) \/ (c.destination = k /\ v >= c.value)
    BY <1>3, <1>5, OpenAppend
  <2>2. Unfilled(k, v)' <=> v > Arity(operations'[k].op) \/ Open(frames', k, v)
    BY DEF Unfilled
  <2>3. CASE k = n + 1
    BY <1>3, <1>4, <2>1, <2>2, <2>3
  <2>4. CASE k \in 1 .. n
    <3>1. Unfilled(k, v)' <=>
            v > Arity(operations[k].op) \/ (Open(frames, k, v) /\ ~(k = d /\ v = u))
      BY <1>3, <1>4, <1>5, <2>1, <2>2, <2>4
    <3>2. CASE k = d /\ v = u
      <4>1. ~Unfilled(k, v)'
        <5>1. Arity(operations[d].op) \in 1 .. 2
          BY DEF Arity
        <5> QED
          BY <1>2, <3>1, <3>2, <5>1
      <4>2. operations'[k].values[v] = [type |-> "OP", id |-> n + 1] /\ g[n + 1] = g[k].values[v]
        BY <1>2, <1>3, <1>9, <2>4, <3>2
      <4>3. n + 1 \in k + 1 .. Len(operations')
        BY <1>3, <2>4
      <4>4. Filled(g, k, v)'
        BY <4>2, <4>3 DEF Filled
      <4> QED
        BY <4>1, <4>4
    <3>3. CASE ~(k = d /\ v = u)
      <4>1. Unfilled(k, v)' <=> Unfilled(k, v)
        BY <3>1, <3>3 DEF Unfilled
      <4>2. operations'[k].values[v] = operations[k].values[v]
        BY <1>3, <2>4, <3>3
      <4>3. ASSUME Filled(f, k, v) PROVE Filled(g, k, v)'
        <5>1. g[k] = f[k]
          BY <1>9, <2>4
        <5>2. ASSUME NEW i \in k + 1 .. n, f[i] = f[k].values[v]
              PROVE  i \in k + 1 .. Len(operations') /\ g[i] = g[k].values[v]
          BY <1>3, <1>9, <2>4, <5>1, <5>2
        <5> QED
          BY <4>2, <4>3, <5>1, <5>2 DEF Filled
      <4>4. IF Unfilled(k, v) THEN operations[k].values[v] = Unset ELSE Filled(f, k, v)
        BY <2>4 DEF Placed
      <4> QED
        BY <4>1, <4>2, <4>3, <4>4
    <3> QED
      BY <3>2, <3>3
  <2> QED
    BY <1>10, <2>3, <2>4
<1>16. Placed(g)'
  <2> HIDE DEF n, m, d, u
  <2> QED
    BY <1>3, <1>6, <1>9, <1>11, <1>12, <1>13, <1>14, <1>15 DEF Placed
<1>17. Computed(g)'
  BY <1>1, <1>2 DEF Computed
<1> QED
  BY <1>16, <1>17

(***************************************************************************)
(* A value that is a leaf.                                                 *)
(***************************************************************************)
LEMMA CompiledLeaf ==
  ASSUME OpTypeInv, NEW f, Placed(f), CompileLeaf
  PROVE  LET o == [type |-> "LEAF", id |-> Value.id]
         IN /\ Value.id \in DOMAIN Leaf
            /\ operations' \in Seq(OperationSet) /\ Len(operations') = Len(operations)
            /\ \A k \in 1 .. Len(operations) :
                 /\ operations'[k].op = operations[k].op
                 /\ \A v \in 1 .. 2 : operations'[k].values[v] =
                      IF k = Top.destination /\ v = Top.value THEN o ELSE operations[k].values[v]
<1> DEFINE o == [type |-> "LEAF", id |-> Value.id]
<1>1. HasValue /\ Value.op = "leaf" /\ operations' = SetValue(o)
  BY DEF CompileLeaf
<1>2. Top.destination \in 1 .. Len(operations) /\ Top.value \in 1 .. 2 /\ Value \in Nodes
  BY <1>1, TopFacts
<1>3. Value.id \in DOMAIN Leaf
  BY <1>1, <1>2, NodeFacts
<1>4. o \in Settings
  BY <1>3 DEF Settings
<1> HIDE DEF o
<1>5. /\ SetValue(o) \in Seq(OperationSet) /\ Len(SetValue(o)) = Len(operations)
      /\ \A k \in 1 .. Len(operations) :
           /\ SetValue(o)[k].op = operations[k].op
           /\ \A v \in 1 .. 2 : SetValue(o)[k].values[v] =
                IF k = Top.destination /\ v = Top.value THEN o ELSE operations[k].values[v]
  BY <1>2, <1>4, SetValueFacts
<1> QED
  BY <1>1, <1>3, <1>5 DEF o

LEMMA TypeAfterCompileLeaf ==
  ASSUME OpTypeInv, NEW f, Placed(f), CompileLeaf
  PROVE  OpTypeInv'
<1>1. HasValue /\ frames' = Advanced
  BY DEF CompileLeaf
<1>2. /\ operations' \in Seq(OperationSet) /\ Len(operations') = Len(operations)
      /\ Value.id \in DOMAIN Leaf
  BY CompiledLeaf
<1>3. Advanced \in Seq(FrameSet) /\ Advanced # <<>> /\ ~isCompiled
  BY <1>1, AdvancedFacts, TopFacts
<1>4. dependencies' \in LeafSeqs
  <2>1. dependencies \in LeafSeqs
    BY DEF OpTypeInv
  <2>2. Append(dependencies, Value.id) \in LeafSeqs
    BY <1>2, <2>1, AppendProperties DEF LeafSeqs
  <2> QED
    BY <2>1, <2>2 DEF CompileLeaf
<1> QED
  BY <1>1, <1>2, <1>3, <1>4 DEF OpTypeInv, CompileLeaf

LEMMA PlaceAfterCompileLeaf ==
  ASSUME OpTypeInv, NEW f, Placed(f), CompileLeaf
  PROVE  Placed(f)' /\ Computed(f)'
<1> DEFINE n == Len(operations)
           m == Len(frames)
           d == Top.destination
           u == Top.value
<1>1. HasValue /\ Value.op = "leaf" /\ isCompiled' = isCompiled /\ tree' = tree /\ frames' = Advanced
  BY DEF CompileLeaf
<1>2. /\ ~isCompiled /\ d \in 1 .. n /\ u \in 1 .. 2 /\ u \in 1 .. Arity(operations[d].op)
      /\ Value = f[d].values[u] /\ Value \in Nodes
  BY <1>1, TopFacts
<1>3. /\ Len(operations') = n
      /\ \A k \in 1 .. n : operations'[k].op = operations[k].op
      /\ \A k \in 1 .. n, v \in 1 .. 2 : operations'[k].values[v] =
           IF k = d /\ v = u THEN [type |-> "LEAF", id |-> Value.id] ELSE operations[k].values[v]
  BY CompiledLeaf
<1>4. m \in Nat /\ n \in Nat
  BY LenProperties DEF OpTypeInv
<1>5. /\ Len(frames') = m
      /\ \A j \in 1 .. m :
           /\ frames'[j].node = frames[j].node /\ frames'[j].destination = frames[j].destination
           /\ frames'[j].value = IF j = m THEN frames[j].value + 1 ELSE frames[j].value
      /\ \A k \in 1 .. n, v \in 1 .. 2 : Open(frames', k, v) <=> Open(frames, k, v) /\ ~(k = d /\ v = u)
  BY <1>1, AdvancedFacts
<1>6. f \in Seq(Nodes) /\ Len(f) = n /\ f[1] = tree
  BY DEF Placed
<1>7. \A k \in 1 .. n : f[k].op = operations'[k].op
  BY <1>3 DEF Placed
<1>8. ASSUME NEW j \in 1 .. m
      PROVE  /\ frames'[j].destination \in 1 .. n
             /\ frames'[j].node = f[frames'[j].destination]
             /\ frames'[j].value <= Arity(frames'[j].node.op) + 1
  <2>1. frames'[j].destination = frames[j].destination /\ frames'[j].node = frames[j].node
        /\ frames[j].destination \in 1 .. n /\ frames[j].node = f[frames[j].destination]
        /\ frames[j].value <= Arity(frames[j].node.op) + 1
    BY <1>5 DEF Placed
  <2>2. frames'[j].value <= Arity(frames[j].node.op) + 1
    <3>1. CASE j = m
      <4>1. frames[j].value <= Arity(frames[j].node.op) /\ frames'[j].value = frames[j].value + 1
        BY <1>1, <1>5, <3>1 DEF HasValue, Top
      <4>2. frames[j].value \in 1 .. 2
        BY <1>2, <3>1 DEF Top
      <4>3. Arity(frames[j].node.op) \in 1 .. 2
        BY DEF Arity
      <4> QED
        BY <4>1, <4>2, <4>3
    <3>2. CASE j # m
      BY <1>5, <2>1, <3>2
    <3> QED
      BY <3>1, <3>2
  <2> QED
    BY <2>1, <2>2
<1>9. \A i, j \in 1 .. m : i < j => frames'[i].destination < frames'[j].destination
  BY <1>5 DEF Placed
<1>10. ASSUME NEW k \in 1 .. n, NEW v \in 1 .. 2
       PROVE  IF Unfilled(k, v)' THEN operations'[k].values[v] = Unset ELSE Filled(f, k, v)'
  <2>1. Unfilled(k, v)' <=> v > Arity(operations[k].op) \/ (Open(frames, k, v) /\ ~(k = d /\ v = u))
    BY <1>3, <1>5 DEF Unfilled
  <2>2. CASE k = d /\ v = u
    <3>1. ~Unfilled(k, v)'
      <4>1. Arity(operations[d].op) \in 1 .. 2
        BY DEF Arity
      <4> QED
        BY <1>2, <2>1, <2>2, <4>1
    <3>2. operations'[k].values[v] = [type |-> "LEAF", id |-> Value.id] /\ Value = f[k].values[v]
      BY <1>2, <1>3, <2>2
    <3>3. Filled(f, k, v)'
      BY <1>1, <3>2 DEF Filled
    <3> QED
      BY <3>1, <3>3
  <2>3. CASE ~(k = d /\ v = u)
    <3>1. Unfilled(k, v)' <=> Unfilled(k, v)
      BY <2>1, <2>3 DEF Unfilled
    <3>2. operations'[k].values[v] = operations[k].values[v]
      BY <1>3, <2>3
    <3>3. Filled(f, k, v)' <=> Filled(f, k, v)
      BY <1>3, <3>2 DEF Filled
    <3>4. IF Unfilled(k, v) THEN operations[k].values[v] = Unset ELSE Filled(f, k, v)
      BY DEF Placed
    <3> QED
      BY <3>1, <3>2, <3>3, <3>4
  <2> QED
    BY <2>2, <2>3
<1>11. Placed(f)'
  <2> HIDE DEF n, m, d, u
  <2>1. Len(operations') = n /\ Len(frames') = m /\ tree' = tree
    BY <1>1, <1>3, <1>5
  <2> QED
    BY <1>6, <1>7, <1>8, <1>9, <1>10, <2>1 DEF Placed
<1>12. Computed(f)'
  BY <1>1, <1>2 DEF Computed
<1> QED
  BY <1>11, <1>12

(***************************************************************************)
(* A call that returns has gone through all values of its node.            *)
(***************************************************************************)
LEMMA FrontFrames ==
  ASSUME OpTypeInv, frames # <<>>
  PROVE  /\ Front(frames) \in Seq(FrameSet) /\ Len(Front(frames)) = Len(frames) - 1
         /\ \A j \in 1 .. Len(frames) - 1 : Front(frames)[j] = frames[j]
<1> DEFINE m == Len(frames)
<1>1. m \in Nat /\ m > 0 /\ \A j \in 1 .. m : frames[j] \in FrameSet
  BY FrameFacts
<1>2. m - 1 \in Int /\ 1 \in Int /\ \A j \in 1 .. m - 1 : frames[j] \in FrameSet
  BY <1>1
<1> HIDE DEF m
<1>3. /\ SubSeq(frames, 1, m - 1) \in Seq(FrameSet)
      /\ Len(SubSeq(frames, 1, m - 1)) = IF 1 <= m - 1 THEN (m - 1) - 1 + 1 ELSE 0
      /\ \A j \in 1 .. (m - 1) - 1 + 1 : SubSeq(frames, 1, m - 1)[j] = frames[1 + j - 1]
  BY <1>2, SubSeqProperties
<1> DEFINE s == SubSeq(frames, 1, m - 1)
<1>4. Front(frames) = s
  BY DEF Front, m
<1> HIDE DEF s
<1>5. Len(s) = m - 1
  BY <1>1, <1>3 DEF s
<1>6. ASSUME NEW j \in 1 .. m - 1 PROVE s[j] = frames[j]
  <2>1. j \in 1 .. (m - 1) - 1 + 1 /\ 1 + j - 1 = j
    BY <1>1
  <2> QED
    BY <1>3, <2>1 DEF s
<1> QED
  BY <1>3, <1>4, <1>5, <1>6 DEF m, s

LEMMA TypeAfterReturn ==
  ASSUME OpTypeInv, Return
  PROVE  OpTypeInv'
<1>1. frames # <<>> /\ frames' = Front(frames) /\ ~isCompiled
  BY DEF Return, OpTypeInv
<1>2. Front(frames) \in Seq(FrameSet) /\ Len(Front(frames)) = Len(frames) - 1 /\ Len(frames) \in Nat
  BY <1>1, FrontFrames, FrameFacts
<1>3. Len(frames) = 1 <=> frames' = <<>>
  <2>1. Len(frames) = 1 => frames' = <<>>
    BY <1>1, <1>2, EmptySeq
  <2>2. frames' = <<>> => Len(frames') = 0
    OBVIOUS
  <2> QED
    BY <1>1, <1>2, <2>1, <2>2
<1>4. Len(operations) \in Nat /\ Len(operations) > 0
  BY LenProperties DEF OpTypeInv
<1>5. opIndex' \in 0 .. Len(operations)
  BY <1>4 DEF OpTypeInv, Return
<1>6. isCompiled' \in BOOLEAN /\ (isCompiled' <=> Len(frames) = 1)
  BY DEF Return
<1>7. ~isCompiled' => evalRow' = 0 /\ opIndex' = 0
  BY <1>1, <1>6 DEF OpTypeInv, Return
<1> QED
  BY <1>1, <1>2, <1>3, <1>5, <1>6, <1>7 DEF OpTypeInv, Return

LEMMA PlaceAfterReturn ==
  ASSUME OpTypeInv, NEW f, Placed(f), Return
  PROVE  Placed(f)' /\ Computed(f)'
<1> DEFINE n == Len(operations)
           m == Len(frames)
<1>1. frames # <<>> /\ frames' = Front(frames) /\ ~HasValue /\ operations' = operations /\ tree' = tree
  BY DEF Return
<1>2. /\ m \in Nat /\ m > 0 /\ Len(frames') = m - 1
      /\ \A j \in 1 .. m - 1 : frames'[j] = frames[j]
      /\ \A j \in 1 .. m : frames[j].value \in 1 .. 3
  BY <1>1, FrontFrames, FrameFacts
<1>3. n \in Nat
  BY LenProperties DEF OpTypeInv
<1>4. /\ frames[m].destination \in 1 .. n
      /\ frames[m].node.op = operations[frames[m].destination].op
      /\ frames[m].value > Arity(frames[m].node.op)
  <2>1. m \in 1 .. m
    BY <1>2
  <2>2. frames[m].destination \in 1 .. n /\ frames[m].node = f[frames[m].destination]
    BY <2>1 DEF Placed
  <2>3. ~(frames[m].value <= Arity(frames[m].node.op))
    BY <1>1 DEF HasValue, Top
  <2>4. frames[m].value \in 1 .. 3 /\ Arity(frames[m].node.op) \in 1 .. 2
    BY <1>2, <2>1 DEF Arity
  <2> QED
    BY <2>2, <2>3, <2>4 DEF Placed
<1>5. ASSUME NEW k \in 1 .. n, NEW v \in 1 .. 2
      PROVE  Unfilled(k, v)' <=> Unfilled(k, v)
  <2>1. ASSUME Open(frames, k, v), ~(v > Arity(operations[k].op)) PROVE Open(frames', k, v)
    <3>1. PICK j \in 1 .. m : frames[j].destination = k /\ v >= frames[j].value
      BY <2>1 DEF Open
    <3>2. j # m
      <4> SUFFICES ASSUME j = m PROVE FALSE
        OBVIOUS
      <4>1. frames[m].value > Arity(operations[k].op) /\ v >= frames[m].value
        BY <1>4, <3>1
      <4>2. Arity(operations[k].op) \in 1 .. 2 /\ frames[m].value \in 1 .. 3
        BY <1>2 DEF Arity
      <4> QED
        BY <2>1, <4>1, <4>2
    <3>3. j \in 1 .. m - 1
      BY <1>2, <3>2
    <3> QED
      BY <1>2, <3>1, <3>3 DEF Open
  <2>2. Open(frames', k, v) => Open(frames, k, v)
    <3>1. \A j \in 1 .. m - 1 : j \in 1 .. m
      BY <1>2
    <3> QED
      BY <1>2, <3>1 DEF Open
  <2> QED
    BY <1>1, <2>1, <2>2 DEF Unfilled
<1>6. \A k, v : Filled(f, k, v)' <=> Filled(f, k, v)
  BY <1>1 DEF Filled
<1>7. Placed(f)'
  <2>1. \A j \in 1 .. m - 1 : j \in 1 .. m
    BY <1>2
  <2>2. \A j \in 1 .. Len(frames') :
          /\ frames'[j].destination \in 1 .. n
          /\ frames'[j].node = f[frames'[j].destination]
          /\ frames'[j].value <= Arity(frames'[j].node.op) + 1
    BY <1>2, <2>1 DEF Placed
  <2>3. \A i, j \in 1 .. Len(frames') : i < j => frames'[i].destination < frames'[j].destination
    BY <1>2, <2>1 DEF Placed
  <2>4. \A k \in 1 .. n, v \in 1 .. 2 :
          IF Unfilled(k, v)' THEN operations'[k].values[v] = Unset ELSE Filled(f, k, v)'
    BY <1>1, <1>5, <1>6 DEF Placed
  <2>5. f \in Seq(Nodes) /\ Len(f) = n /\ f[1] = tree /\ \A k \in 1 .. n : f[k].op = operations[k].op
    BY DEF Placed
  <2> QED
    BY <1>1, <2>2, <2>3, <2>4, <2>5 DEF Placed
<1>8. Computed(f)'
  <2>1. isCompiled' => opIndex' = n
    BY DEF Return
  <2>2. \A k \in n + 1 .. n : FALSE
    BY <1>3
  <2> QED
    BY <1>1, <2>1, <2>2 DEF Computed
<1> QED
  BY <1>7, <1>8

(***************************************************************************)
(* The result of an operation whose values have theirs.                    *)
(***************************************************************************)
LEMMA FilledValue ==
  ASSUME OpTypeInv, NEW f, Placed(f), Computed(f), isCompiled, evalRow < RowCount, opIndex > 0,
         NEW v \in 1 .. Arity(f[opIndex].op)
  PROVE  ValueOf(opIndex, v) = TreeValue(evalRow)[f[opIndex].values[v]]
<1> DEFINE n == Len(operations)
           k == opIndex
           t == f[k].values[v]
           o == operations[k].values[v]
<1>1. n \in Nat /\ k \in 1 .. n /\ evalRow \in 0 .. RowCount - 1
  BY LenProperties, NodeFacts DEF OpTypeInv
<1>2. f[k].op = operations[k].op /\ f[k] \in Nodes /\ operations[k].op # "leaf"
  <2>1. f \in Seq(Nodes) /\ Len(f) = n
    BY DEF Placed
  <2> QED
    BY <1>1, <2>1, ElementOfSeq, OperationFacts DEF Placed
<1>3. Arity(f[k].op) \in 1 .. 2 /\ t \in Nodes
  BY <1>2, NodeFacts
<1>4. v \in 1 .. 2 /\ ~(v > Arity(operations[k].op))
  BY <1>2, <1>3
<1>5. ~Open(frames, k, v)
  <2>1. frames = <<>> /\ Len(<<>>) = 0
    BY DEF OpTypeInv
  <2> QED
    BY <2>1 DEF Open
<1>6. Filled(f, k, v)
  BY <1>1, <1>4, <1>5 DEF Placed, Unfilled
<1>7. ValueOf(k, v) = IF o.type = "OP" THEN operations[o.id].result ELSE Leaf[o.id][evalRow]
  BY <1>4 DEF ValueOf
<1>8. CASE t.op = "leaf" /\ o = [type |-> "LEAF", id |-> t.id]
  <2>1. TreeValue(evalRow)[t] = Leaf[t.id][evalRow]
    BY <1>1, <1>3, <1>8, MeaningFacts
  <2>2. o.type = "LEAF" /\ o.id = t.id
    BY <1>8
  <2> HIDE DEF o, t, k
  <2> QED
    BY <1>7, <2>1, <2>2 DEF t, k
<1>9. CASE \E i \in k + 1 .. n : o = [type |-> "OP", id |-> i] /\ f[i] = t
  <2>1. PICK i \in k + 1 .. n : o = [type |-> "OP", id |-> i] /\ f[i] = t
    BY <1>9
  <2>2. operations[i].result = TreeValue(evalRow)[f[i]]
    BY DEF Computed
  <2>3. o.type = "OP" /\ o.id = i
    BY <2>1
  <2> HIDE DEF o, t
  <2> QED
    BY <1>7, <2>1, <2>2, <2>3 DEF t
<1> QED
  BY <1>6, <1>8, <1>9 DEF Filled

LEMMA EvaluatedOperation ==
  ASSUME OpTypeInv, NEW f, Placed(f), Computed(f), EvalOperation
  PROVE  LET e == Apply(operations[opIndex].op, ValueOf(opIndex, 1), ValueOf(opIndex, 2))
         IN /\ e = TreeValue(evalRow)[f[opIndex]] /\ e \in Residues
            /\ opIndex \in 1 .. Len(operations) /\ Len(operations) \in Nat
            /\ operations' \in Seq(OperationSet) /\ Len(operations') = Len(operations)
            /\ \A k \in 1 .. Len(operations) :
                 /\ operations'[k].op = operations[k].op
                 /\ operations'[k].values = operations[k].values
                 /\ operations'[k].result = IF k = opIndex THEN e ELSE operations[k].result
<1> DEFINE e == Apply(operations[opIndex].op, ValueOf(opIndex, 1), ValueOf(opIndex, 2))
           n == Len(operations)
           k == opIndex
           c == [operations[k] EXCEPT !.result = e]
<1>1. isCompiled /\ evalRow < RowCount /\ opIndex > 0 /\ operations' = [operations EXCEPT ![k].result = e]
  BY DEF EvalOperation
<1>2. n \in Nat /\ k \in 1 .. n /\ evalRow \in 0 .. RowCount - 1
  BY <1>1, LenProperties, NodeFacts DEF OpTypeInv
<1>3. f[k] \in Nodes /\ f[k].op = operations[k].op /\ f[k].op # "leaf"
  <2>1. f \in Seq(Nodes) /\ Len(f) = n
    BY DEF Placed
  <2> QED
    BY <1>2, <2>1, ElementOfSeq, OperationFacts DEF Placed
<1>4. ValueOf(k, 1) = TreeValue(evalRow)[f[k].values[1]]
  <2>1. 1 \in 1 .. Arity(f[k].op)
    BY DEF Arity
  <2> QED
    BY <1>1, <2>1, FilledValue
<1>5. ValueOf(k, 2) = Second(TreeValue(evalRow), f[k])
  <2>1. CASE Arity(f[k].op) = 1
    <3>1. 2 > Arity(operations[k].op)
      BY <1>3, <2>1
    <3> QED
      BY <2>1, <3>1 DEF ValueOf, Second
  <2>2. CASE Arity(f[k].op) # 1
    <3>1. 2 \in 1 .. Arity(f[k].op)
      BY <2>2 DEF Arity
    <3> QED
      BY <1>1, <2>2, <3>1, FilledValue DEF Second
  <2> QED
    BY <2>1, <2>2
<1>6. e = TreeValue(evalRow)[f[k]] /\ e \in Residues
  <2>1. TreeValue(evalRow)[f[k]] \in Residues
        /\ TreeValue(evalRow)[f[k]] =
             Apply(f[k].op, TreeValue(evalRow)[f[k].values[1]], Second(TreeValue(evalRow), f[k]))
    BY <1>2, <1>3, MeaningFacts
  <2> QED
    BY <1>3, <1>4, <1>5, <2>1
<1> HIDE DEF e
<1>7. c \in OperationSet /\ c.op = operations[k].op /\ c.values = operations[k].values /\ c.result = e
  <2>1. operations[k] \in OperationSet
    BY <1>2, OperationFacts
  <2> QED
    BY <1>6, <2>1 DEF OperationSet
<1>8. operations \in Seq(OperationSet) /\ DOMAIN operations = 1 .. n
  BY LenProperties DEF OpTypeInv
<1>9. operations' = [operations EXCEPT ![k] = c]
  BY <1>1, <1>2, <1>8
<1> HIDE DEF c
<1>10. /\ operations' \in Seq(OperationSet) /\ Len(operations') = n
       /\ \A i \in 1 .. n : operations'[i] = IF i = k THEN c ELSE operations[i]
  BY <1>2, <1>7, <1>8, <1>9, ExceptSeq
<1> QED
  BY <1>2, <1>6, <1>7, <1>10 DEF e

LEMMA TypeAfterEvalOperation ==
  ASSUME OpTypeInv, NEW f, Placed(f), Computed(f), EvalOperation
  PROVE  OpTypeInv'
<1>1. operations' \in Seq(OperationSet) /\ Len(operations') = Len(operations)
      /\ opIndex \in 1 .. Len(operations) /\ Len(operations) \in Nat
  BY EvaluatedOperation
<1>2. opIndex' \in 0 .. Len(operations') /\ isCompiled
  BY <1>1 DEF EvalOperation
<1> QED
  BY <1>1, <1>2 DEF OpTypeInv, EvalOperation

LEMMA PlaceAfterEvalOperation ==
  ASSUME OpTypeInv, NEW f, Placed(f), Computed(f), EvalOperation
  PROVE  Placed(f)' /\ Computed(f)'
<1> DEFINE n == Len(operations)
<1>1. /\ opIndex \in 1 .. n /\ n \in Nat /\ Len(operations') = n
      /\ \A k \in 1 .. n :
           /\ operations'[k].op = operations[k].op /\ operations'[k].values = operations[k].values
           /\ operations'[k].result = IF k = opIndex THEN TreeValue(evalRow)[f[opIndex]] ELSE operations[k].result
  BY EvaluatedOperation
<1>2. frames' = frames /\ tree' = tree /\ evalRow' = evalRow /\ opIndex' = opIndex - 1 /\ isCompiled' = isCompiled
      /\ isCompiled
  BY DEF EvalOperation
<1>3. \A k \in 1 .. n, v \in 1 .. 2 : (Unfilled(k, v)' <=> Unfilled(k, v)) /\ (Filled(f, k, v)' <=> Filled(f, k, v))
  BY <1>1, <1>2 DEF Unfilled, Filled
<1>4. \A k \in 1 .. n, v \in 1 .. 2 :
        IF Unfilled(k, v)' THEN operations'[k].values[v] = Unset ELSE Filled(f, k, v)'
  BY <1>1, <1>3 DEF Placed
<1>5. Placed(f)'
  BY <1>1, <1>2, <1>4 DEF Placed
<1>6. ASSUME NEW k \in opIndex' + 1 .. n PROVE operations'[k].result = TreeValue(evalRow)[f[k]]
  <2>1. k \in 1 .. n /\ (k = opIndex \/ k \in opIndex + 1 .. n)
    BY <1>1, <1>2
  <2> QED
    BY <1>1, <1>2, <2>1 DEF Computed
<1>7. Computed(f)'
  BY <1>1, <1>2, <1>6 DEF Computed, TreeValue
<1> QED
  BY <1>5, <1>7

(***************************************************************************)
(* eval returns the meaning of the tree.                                   *)
(***************************************************************************)
LEMMA ReturnedValue ==
  ASSUME OpTypeInv, NEW f, Placed(f), Computed(f), EndRow
  PROVE  operations[1].result = TreeValue(evalRow)[tree] /\ operations[1].result \in Residues
         /\ evalRow \in 0 .. RowCount - 1
<1>1. isCompiled /\ opIndex = 0 /\ evalRow < RowCount
  BY DEF EndRow
<1>2. Len(operations) \in Nat /\ 1 \in 0 + 1 .. Len(operations) /\ 1 \in 1 .. Len(operations)
  BY LenProperties DEF OpTypeInv
<1>3. operations[1].result = TreeValue(evalRow)[f[1]]
  BY <1>1, <1>2 DEF Computed
<1>4. f[1] = tree
  BY DEF Placed
<1>5. evalRow \in 0 .. RowCount - 1
  BY <1>1, NodeFacts DEF OpTypeInv
<1> QED
  BY <1>2, <1>3, <1>4, <1>5, OperationFacts

LEMMA TypeAfterEndRow ==
  ASSUME OpTypeInv, NEW f, Placed(f), Computed(f), EndRow
  PROVE  OpTypeInv'
<1>1. evaluation' = Append(evaluation, operations[1].result) /\ evalRow' = evalRow + 1 /\ isCompiled
      /\ opIndex' = Len(operations)
  BY DEF EndRow
<1>2. operations[1].result \in Residues /\ evalRow \in 0 .. RowCount - 1
  BY ReturnedValue
<1>3. evaluation \in Seq(Residues) /\ Len(evaluation) = evalRow
  BY DEF OpTypeInv
<1>4. evaluation' \in Seq(Residues) /\ Len(evaluation') = evalRow'
  BY <1>1, <1>2, <1>3, AppendProperties
<1>5. evalRow' \in 0 .. RowCount
  BY <1>1, <1>2, NodeFacts
<1>6. opIndex' \in 0 .. Len(operations)
  BY <1>1, LenProperties DEF OpTypeInv
<1>7. stillZero' \in BOOLEAN
  BY DEF EndRow
<1> QED
  BY <1>1, <1>4, <1>5, <1>6, <1>7 DEF OpTypeInv, EndRow

LEMMA PlaceAfterEndRow ==
  ASSUME OpTypeInv, NEW f, Placed(f), Computed(f), EndRow
  PROVE  Placed(f)' /\ Computed(f)'
<1>1. UNCHANGED <<tree, operations, frames, isCompiled>> /\ opIndex' = Len(operations)
  BY DEF EndRow
<1>2. Placed(f)'
  BY <1>1, ZenonT(30) DEF Placed, Unfilled, Filled
<1>3. \A k \in Len(operations) + 1 .. Len(operations) : FALSE
  BY LenProperties DEF OpTypeInv
<1>4. Computed(f)'
  BY <1>1, <1>3 DEF Computed
<1> QED
  BY <1>2, <1>4

(***************************************************************************)
(* The two invariants hold in every state.                                 *)
(***************************************************************************)
OpInv == OpTypeInv /\ PlaceInv

LEMMA OpInvNext ==
  ASSUME OpInv, [OperationsNext]_operationsVars
  PROVE  OpInv'
<1>1. PICK f : Placed(f) /\ Computed(f)
  BY DEF OpInv, PlaceInv
<1>2. OpTypeInv
  BY DEF OpInv
<1>3. CASE CompileOperation
  BY <1>1, <1>2, <1>3, TypeAfterCompileOperation, PlaceAfterCompileOperation DEF OpInv, PlaceInv
<1>4. CASE CompileLeaf
  BY <1>1, <1>2, <1>4, TypeAfterCompileLeaf, PlaceAfterCompileLeaf DEF OpInv, PlaceInv
<1>5. CASE Return
  BY <1>1, <1>2, <1>5, TypeAfterReturn, PlaceAfterReturn DEF OpInv, PlaceInv
<1>6. CASE EvalOperation
  BY <1>1, <1>2, <1>6, TypeAfterEvalOperation, PlaceAfterEvalOperation DEF OpInv, PlaceInv
<1>7. CASE EndRow
  BY <1>1, <1>2, <1>7, TypeAfterEndRow, PlaceAfterEndRow DEF OpInv, PlaceInv
<1>8. CASE UNCHANGED operationsVars
  <2>1. OpTypeInv'
    BY <1>2, <1>8 DEF OpTypeInv, operationsVars
  <2>2. Placed(f)' /\ Computed(f)'
    BY <1>1, <1>8 DEF Placed, Computed, Unfilled, Filled, operationsVars
  <2> QED
    BY <2>1, <2>2 DEF OpInv, PlaceInv
<1> QED
  BY <1>3, <1>4, <1>5, <1>6, <1>7, <1>8 DEF OperationsNext, StopEval

LEMMA OpInvAlways == OperationsSpec => []OpInv
<1>1. OperationsInit => OpInv
  BY OpInit DEF OpInv
<1>2. OpInv /\ [OperationsNext]_operationsVars => OpInv'
  BY OpInvNext
<1> QED
  BY <1>1, <1>2, PTL DEF OperationsSpec

(***************************************************************************)
(* Every index is in range and every result is an element of the field,    *)
(* for all trees, numbers of rows and primes.                              *)
(***************************************************************************)
THEOREM OperationsTypeCorrect == OperationsSpec => []OperationsTypeOK
<1>1. OpInv => OperationsTypeOK
  <2> SUFFICES ASSUME OpInv PROVE OperationsTypeOK
    OBVIOUS
  <2>1. OpTypeInv
    BY DEF OpInv
  <2>2. PICK f : Placed(f)
    BY DEF OpInv, PlaceInv
  <2>3. DOMAIN operations = 1 .. Len(operations) /\ DOMAIN frames = 1 .. Len(frames)
    BY <2>1, LenProperties DEF OpTypeInv
  <2>4. \A k \in DOMAIN operations : operations[k].result \in 0 .. Prime - 1
    BY <2>1, <2>3, OperationFacts DEF Residues
  <2>5. \A k \in DOMAIN frames : frames[k].destination \in DOMAIN operations
    BY <2>2, <2>3 DEF Placed
  <2> QED
    BY <2>1, <2>4, <2>5 DEF OperationsTypeOK, OpTypeInv
<1> QED
  BY <1>1, OpInvAlways, PTL

(***************************************************************************)
(* What eval returned and the flag isZero, row by row.                     *)
(***************************************************************************)
LEMMA EvaluatesNext ==
  ASSUME OpInv, EvaluatesTree, [OperationsNext]_operationsVars
  PROVE  EvaluatesTree'
<1>1. PICK f : Placed(f) /\ Computed(f)
  BY DEF OpInv, PlaceInv
<1>2. OpTypeInv
  BY DEF OpInv
<1>3. CASE EndRow
  <2> DEFINE x == operations[1].result
  <2>1. x = TreeValue(evalRow)[tree] /\ x \in Residues
    BY <1>1, <1>2, <1>3, ReturnedValue
  <2>2. evaluation' = Append(evaluation, x) /\ (stillZero' <=> stillZero /\ x = 0) /\ tree' = tree
    BY <1>3 DEF EndRow
  <2> HIDE DEF x
  <2>3. evaluation \in Seq(Residues) /\ Len(evaluation) = evalRow /\ evalRow \in Nat
        /\ DOMAIN evaluation = 1 .. evalRow
    BY <1>2, LenProperties DEF OpTypeInv
  <2>4. /\ evaluation' \in Seq(Residues) /\ Len(evaluation') = evalRow + 1
        /\ \A k \in 1 .. evalRow : evaluation'[k] = evaluation[k]
        /\ evaluation'[evalRow + 1] = x
    BY <2>1, <2>2, <2>3, AppendProperties
  <2>5. DOMAIN evaluation' = (1 .. evalRow) \cup {evalRow + 1}
    <3>1. DOMAIN evaluation' = 1 .. evalRow + 1
      BY <2>4, LenProperties
    <3> QED
      BY <2>3, <3>1
  <2>6. (evalRow + 1) - 1 = evalRow
    BY <2>3
  <2>7. \A k \in DOMAIN evaluation' : evaluation'[k] = TreeValue(k - 1)[tree]
    BY <2>1, <2>3, <2>4, <2>5, <2>6 DEF EvaluatesTree
  <2>8. stillZero' <=> \A k \in DOMAIN evaluation' : evaluation'[k] = 0
    BY <2>2, <2>3, <2>4, <2>5 DEF EvaluatesTree
  <2>9. \A k : (TreeValue(k)[tree])' = TreeValue(k)[tree]
    BY <2>2 DEF TreeValue
  <2> QED
    BY <2>2, <2>7, <2>8, <2>9 DEF EvaluatesTree
<1>4. CASE UNCHANGED <<evaluation, stillZero, tree>>
  <2>1. \A k : (TreeValue(k)[tree])' = TreeValue(k)[tree]
    BY <1>4 DEF TreeValue
  <2> QED
    BY <1>4, <2>1 DEF EvaluatesTree
<1>5. EndRow \/ UNCHANGED <<evaluation, stillZero, tree>>
  BY DEF OperationsNext, operationsVars, CompileOperation, CompileLeaf, Return, EvalOperation, StopEval
<1> QED
  BY <1>3, <1>4, <1>5

(***************************************************************************)
(* The vector, computed from back to front at every row, gives the value   *)
(* of the tree, though the results of the previous row are still in it;    *)
(* and isZero says whether all of them were zero.  For all trees, numbers  *)
(* of rows and primes.                                                     *)
(***************************************************************************)
THEOREM OperationsEvaluatesTree == OperationsSpec => []EvaluatesTree
<1>1. OperationsInit => EvaluatesTree
  <2> SUFFICES ASSUME OperationsInit PROVE EvaluatesTree
    OBVIOUS
  <2>1. evaluation = <<>> /\ stillZero = TRUE /\ DOMAIN <<>> = {}
    BY DEF OperationsInit
  <2> QED
    BY <2>1 DEF EvaluatesTree
<1>2. OpInv /\ EvaluatesTree /\ [OperationsNext]_operationsVars => EvaluatesTree'
  BY EvaluatesNext
<1> QED
  BY <1>1, <1>2, OpInvAlways, PTL DEF OperationsSpec

(***************************************************************************)
(* Who uses an operation.                                                  *)
(***************************************************************************)
Uses(k, v, m) == operations[k].values[v] = [type |-> "OP", id |-> m]
OnlyUser(k, v, m) == \A i \in 1 .. Len(operations), w \in 1 .. 2 : Uses(i, w, m) <=> i = k /\ w = v
OneUser(m) == \E k \in 1 .. m - 1, v \in 1 .. 2 : OnlyUser(k, v, m)

LEMMA UsersFacts ==
  ASSUME OpTypeInv
  PROVE  UsedBefore <=> \A m \in 2 .. Len(operations) : OneUser(m)
<1> DEFINE n == Len(operations)
<1>1. DOMAIN operations = 1 .. n /\ n \in Nat /\ {1, 2} = 1 .. 2
  BY LenProperties DEF OpTypeInv
<1>2. ASSUME NEW m \in 2 .. n, NEW k \in 1 .. m - 1, NEW v \in 1 .. 2
      PROVE  UsersOf(m) = {<<k, v>>} <=> OnlyUser(k, v, m)
  <2>1. \A i \in 1 .. n, w \in 1 .. 2 : <<i, w>> \in UsersOf(m) <=> Uses(i, w, m)
    BY <1>1 DEF UsersOf, Uses
  <2>2. \A u \in UsersOf(m) : u = <<u[1], u[2]>> /\ u[1] \in 1 .. n /\ u[2] \in 1 .. 2
    BY <1>1 DEF UsersOf
  <2>3. k \in 1 .. n
    BY <1>1
  <2>4. ASSUME UsersOf(m) = {<<k, v>>} PROVE OnlyUser(k, v, m)
    <3>1. \A i, w : <<i, w>> \in {<<k, v>>} <=> i = k /\ w = v
      OBVIOUS
    <3> QED
      BY <2>1, <2>4, <3>1 DEF OnlyUser
  <2>5. ASSUME OnlyUser(k, v, m) PROVE UsersOf(m) = {<<k, v>>}
    <3>1. <<k, v>> \in UsersOf(m)
      BY <2>1, <2>3, <2>5 DEF OnlyUser
    <3>2. ASSUME NEW u \in UsersOf(m) PROVE u = <<k, v>>
      <4>1. u = <<u[1], u[2]>> /\ u[1] \in 1 .. n /\ u[2] \in 1 .. 2
        BY <2>2
      <4>2. Uses(u[1], u[2], m)
        BY <2>1, <4>1
      <4>3. u[1] = k /\ u[2] = v
        BY <2>5, <4>1, <4>2 DEF OnlyUser
      <4> QED
        BY <4>1, <4>3
    <3> QED
      BY <3>1, <3>2
  <2> QED
    BY <2>4, <2>5
<1> QED
  BY <1>1, <1>2 DEF UsedBefore, OneUser

LEMMA UsedNext ==
  ASSUME OpInv, \A m \in 2 .. Len(operations) : OneUser(m), [OperationsNext]_operationsVars
  PROVE  (\A m \in 2 .. Len(operations) : OneUser(m))'
<1>0. PICK n \in Nat : n = Len(operations)
  BY LenProperties DEF OpInv, OpTypeInv
<1>1. PICK f : Placed(f) /\ Computed(f)
  BY DEF OpInv, PlaceInv
<1>2. OpTypeInv
  BY DEF OpInv
<1>3. ASSUME Len(operations') = n,
             \A k \in 1 .. n, v \in 1 .. 2 : \A m : Uses(k, v, m)' <=> Uses(k, v, m)
      PROVE  \A m \in 2 .. n : OneUser(m)'
  <2>1. ASSUME NEW m \in 2 .. n PROVE OneUser(m)'
    <3>1. PICK k \in 1 .. m - 1, v \in 1 .. 2 : OnlyUser(k, v, m)
      BY <1>0 DEF OneUser
    <3>2. OnlyUser(k, v, m)'
      BY <1>0, <1>3, <3>1 DEF OnlyUser
    <3> QED
      BY <3>2 DEF OneUser
  <2> QED
    BY <2>1
<1>4. ASSUME HasValue PROVE /\ Top.destination \in 1 .. n /\ Top.value \in 1 .. 2
                            /\ operations[Top.destination].values[Top.value] = Unset
  <2>1. Top.destination \in 1 .. n /\ Top.value \in 1 .. 2 /\ Unfilled(Top.destination, Top.value)
    BY <1>0, <1>1, <1>2, <1>4, TopFacts
  <2> QED
    BY <1>0, <1>1, <2>1 DEF Placed
<1>5. \A m : Unset # [type |-> "OP", id |-> m]
  BY DEF Unset
<1>6. CASE CompileOperation
  <2>0. PICK d, u : d = Top.destination /\ u = Top.value
    OBVIOUS
  <2>1. HasValue
    BY <1>6 DEF CompileOperation
  <2>2. d \in 1 .. n /\ u \in 1 .. 2 /\ operations[d].values[u] = Unset
    BY <1>4, <2>0, <2>1
  <2>3. /\ Len(operations') = n + 1
        /\ \A k \in 1 .. n, v \in 1 .. 2 : operations'[k].values[v] =
             IF k = d /\ v = u THEN [type |-> "OP", id |-> n + 1] ELSE operations[k].values[v]
        /\ \A v \in 1 .. 2 : operations'[n + 1].values[v] = Unset
    BY <1>0, <1>1, <1>2, <1>6, <2>0, CompiledOperation
  <2>4. 1 .. n + 1 = (1 .. n) \cup {n + 1} /\ 2 .. n + 1 \subseteq (2 .. n) \cup {n + 1}
    BY <1>0
  <2>5. \A v \in 1 .. 2 : \A m : ~Uses(n + 1, v, m)'
    BY <1>5, <2>3 DEF Uses
  <2>6. ASSUME NEW m \in 2 .. n PROVE OneUser(m)'
    <3>1. PICK k \in 1 .. m - 1, v \in 1 .. 2 : OnlyUser(k, v, m)
      BY <1>0 DEF OneUser
    <3>2. k \in 1 .. n /\ k # n + 1 /\ m # n + 1
      BY <1>0
    <3>3. ASSUME NEW i \in 1 .. n, NEW w \in 1 .. 2
          PROVE  Uses(i, w, m)' <=> Uses(i, w, m)
      <4>1. CASE i = d /\ w = u
        <5>1. [type |-> "OP", id |-> n + 1] # [type |-> "OP", id |-> m]
          BY <3>2
        <5>2. operations'[i].values[w] = [type |-> "OP", id |-> n + 1] /\ operations[i].values[w] = Unset
          BY <2>2, <2>3, <4>1
        <5> QED
          BY <1>5, <5>1, <5>2 DEF Uses
      <4>2. CASE ~(i = d /\ w = u)
        BY <2>3, <4>2 DEF Uses
      <4> QED
        BY <4>1, <4>2
    <3>4. OnlyUser(k, v, m)'
      BY <1>0, <2>3, <2>4, <2>5, <3>1, <3>2, <3>3 DEF OnlyUser
    <3> QED
      BY <3>4 DEF OneUser
  <2>7. OneUser(n + 1)'
    <3>1. ASSUME NEW i \in 1 .. n, NEW w \in 1 .. 2 PROVE ~Uses(i, w, n + 1)
      <4>1. CASE Unfilled(i, w)
        BY <1>0, <1>1, <1>5, <4>1 DEF Placed, Uses
      <4>2. CASE Filled(f, i, w)
        <5>1. \A x : [type |-> "LEAF", id |-> x] # [type |-> "OP", id |-> n + 1]
          OBVIOUS
        <5>2. \A x \in i + 1 .. n : [type |-> "OP", id |-> x] # [type |-> "OP", id |-> n + 1]
          <6>1. \A x \in i + 1 .. n : x # n + 1
            BY <1>0
          <6> QED
            BY <6>1
        <5> QED
          BY <1>0, <4>2, <5>1, <5>2 DEF Filled, Uses
      <4> QED
        BY <1>0, <1>1, <4>1, <4>2 DEF Placed
    <3>2. ASSUME NEW i \in 1 .. n, NEW w \in 1 .. 2 PROVE Uses(i, w, n + 1)' <=> i = d /\ w = u
      BY <1>0, <2>3, <3>1 DEF Uses
    <3>3. d # n + 1 /\ d \in 1 .. (n + 1) - 1
      BY <1>0, <2>2
    <3>4. OnlyUser(d, u, n + 1)'
      <4>1. \A i \in 1 .. n + 1, w \in 1 .. 2 : Uses(i, w, n + 1)' <=> i = d /\ w = u
        BY <2>4, <2>5, <3>2, <3>3
      <4> QED
        BY <2>3, <4>1 DEF OnlyUser
    <3> QED
      BY <2>2, <3>3, <3>4 DEF OneUser
  <2> QED
    BY <2>3, <2>4, <2>6, <2>7
<1>7. CASE CompileLeaf
  <2>0. PICK d, u : d = Top.destination /\ u = Top.value
    OBVIOUS
  <2>1. HasValue
    BY <1>7 DEF CompileLeaf
  <2>2. d \in 1 .. n /\ u \in 1 .. 2 /\ operations[d].values[u] = Unset
    BY <1>4, <2>0, <2>1
  <2>3. /\ Len(operations') = n
        /\ \A k \in 1 .. n, v \in 1 .. 2 : operations'[k].values[v] =
             IF k = d /\ v = u THEN [type |-> "LEAF", id |-> Value.id] ELSE operations[k].values[v]
    BY <1>0, <1>1, <1>2, <1>7, <2>0, CompiledLeaf
  <2>4. \A m : [type |-> "LEAF", id |-> Value.id] # [type |-> "OP", id |-> m]
    OBVIOUS
  <2>5. \A k \in 1 .. n, v \in 1 .. 2 : \A m : Uses(k, v, m)' <=> Uses(k, v, m)
    BY <1>5, <2>2, <2>3, <2>4 DEF Uses
  <2> QED
    BY <1>3, <2>3, <2>5
<1>8. CASE EvalOperation
  <2>1. Len(operations') = n /\ \A k \in 1 .. n : operations'[k].values = operations[k].values
    BY <1>0, <1>1, <1>2, <1>8, EvaluatedOperation
  <2>2. \A k \in 1 .. n, v \in 1 .. 2 : \A m : Uses(k, v, m)' <=> Uses(k, v, m)
    BY <2>1 DEF Uses
  <2> QED
    BY <1>3, <2>1, <2>2
<1>9. CASE operations' = operations
  BY <1>0, <1>3, <1>9 DEF Uses
<1>10. CompileOperation \/ CompileLeaf \/ EvalOperation \/ operations' = operations
  BY DEF OperationsNext, operationsVars, Return, EndRow, StopEval
<1> QED
  BY <1>6, <1>7, <1>8, <1>9, <1>10

(***************************************************************************)
(* No operation is used by two, and each is further back than its user,    *)
(* so that the loop has computed it at this row when it is used.           *)
(***************************************************************************)
THEOREM OperationsUsedBefore == OperationsSpec => []UsedBefore
<1> DEFINE Used == \A m \in 2 .. Len(operations) : OneUser(m)
<1>1. OperationsInit => Used
  <2> SUFFICES ASSUME OperationsInit PROVE Used
    OBVIOUS
  <2>1. Len(operations) = 1
    BY OpInit
  <2> QED
    BY <2>1
<1>2. OpInv /\ Used /\ [OperationsNext]_operationsVars => Used'
  BY UsedNext
<1>3. OpInv /\ Used => UsedBefore
  BY UsersFacts DEF OpInv
<1> QED
  BY <1>1, <1>2, <1>3, OpInvAlways, PTL DEF OperationsSpec

(***************************************************************************)
(* The leaves of a node that come from its value v on, and those that the  *)
(* first k calls on the stack have yet to come to, R[k].                   *)
(***************************************************************************)
LeavesFrom(t, v) ==
  IF v = 1 THEN Leaves[t] ELSE IF v = 2 /\ Arity(t.op) # 1 THEN Leaves[t.values[2]] ELSE <<>>

Rest(R) ==
  /\ R \in [0 .. Len(frames) -> LeafSeqs] /\ R[0] = <<>>
  /\ \A k \in 1 .. Len(frames) : R[k] = LeavesFrom(frames[k].node, frames[k].value) \o R[k - 1]

FirstAt(seen, a, x) == a \in 1 .. Len(seen) /\ seen[a] = x /\ \A m \in 1 .. a - 1 : seen[m] # x

(***************************************************************************)
(* The dependencies are right for the leaves that were compiled: they are  *)
(* the expressions among them, in the order of their first uses.           *)
(***************************************************************************)
Found(deps, seen) ==
  /\ \A x : (\E i \in 1 .. Len(deps) : deps[i] = x) <=> (\E k \in 1 .. Len(seen) : seen[k] = x /\ IsExpLeaf[x])
  /\ \A i, j \in 1 .. Len(deps) : i < j =>
       \A a, b : FirstAt(seen, a, deps[i]) /\ FirstAt(seen, b, deps[j]) => a < b

DependInv ==
  \E seen, R :
    seen \in LeafSeqs /\ Rest(R) /\ Leaves[tree] = seen \o R[Len(frames)] /\ Found(dependencies, seen)

LEMMA LeavesFromFacts ==
  ASSUME NEW t \in Nodes, t.op # "leaf", NEW v \in 1 .. 3
  PROVE  /\ LeavesFrom(t, v) \in LeafSeqs /\ LeavesFrom(t, v + 1) \in LeafSeqs
         /\ v <= Arity(t.op) => LeavesFrom(t, v) = Leaves[t.values[v]] \o LeavesFrom(t, v + 1)
         /\ v > Arity(t.op) => LeavesFrom(t, v) = <<>>
<1>1. /\ t.values[1] \in Nodes /\ Arity(t.op) \in 1 .. 2 /\ (Arity(t.op) # 1 => t.values[2] \in Nodes)
  BY NodeFacts
<1>2. /\ Leaves[t] \in LeafSeqs /\ (Arity(t.op) # 1 => Leaves[t.values[2]] \in LeafSeqs)
      /\ <<>> \in LeafSeqs
      /\ Leaves[t] = Leaves[t.values[1]] \o (IF Arity(t.op) = 1 THEN <<>> ELSE Leaves[t.values[2]])
  BY <1>1, LeavesFacts, EmptySeq DEF LeafSeqs
<1>3. CASE v = 1
  <2>1. v + 1 = 2 /\ v # 2
    BY <1>3
  <2>2. LeavesFrom(t, v) = Leaves[t]
        /\ LeavesFrom(t, v + 1) = IF Arity(t.op) = 1 THEN <<>> ELSE Leaves[t.values[2]]
    BY <1>3, <2>1 DEF LeavesFrom
  <2>3. ~(v > Arity(t.op))
    BY <1>1, <1>3
  <2> QED
    BY <1>2, <1>3, <2>2, <2>3
<1>4. CASE v = 2
  <2>1. v + 1 = 3 /\ LeavesFrom(t, 3) = <<>> /\ (v > Arity(t.op) <=> Arity(t.op) = 1)
        /\ (v <= Arity(t.op) <=> Arity(t.op) # 1)
    BY <1>1, <1>4 DEF LeavesFrom
  <2>2. LeavesFrom(t, v) = IF Arity(t.op) = 1 THEN <<>> ELSE Leaves[t.values[2]]
    BY <1>4 DEF LeavesFrom
  <2>3. Arity(t.op) # 1 => Leaves[t.values[2]] = Leaves[t.values[2]] \o <<>>
    BY <1>2, ConcatEmptySeq DEF LeafSeqs
  <2> QED
    BY <1>2, <1>4, <2>1, <2>2, <2>3
<1>5. CASE v = 3
  <2>1. v + 1 = 4 /\ ~(v <= Arity(t.op)) /\ LeavesFrom(t, 3) = <<>> /\ LeavesFrom(t, 4) = <<>>
    BY <1>1, <1>5 DEF LeavesFrom
  <2>2. LeavesFrom(t, v) = <<>> /\ LeavesFrom(t, v + 1) = <<>>
    BY <1>5, <2>1
  <2>3. ~(v <= Arity(t.op))
    BY <2>1
  <2> QED
    BY <1>2, <2>2, <2>3
<1>6. v = 1 \/ v = 2 \/ v = 3
  OBVIOUS
<1> QED
  BY <1>3, <1>4, <1>5, <1>6

LEMMA FoundEmpty == Found(<<>>, <<>>)
<1>1. Len(<<>>) = 0 /\ 1 .. 0 = {}
  OBVIOUS
<1> QED
  BY <1>1 DEF Found

LEMMA FoundAppend ==
  ASSUME NEW deps \in LeafSeqs, NEW seen \in LeafSeqs, NEW x \in DOMAIN Leaf, Found(deps, seen)
  PROVE  Found(IF IsExpLeaf[x] /\ x \notin ToSet(deps) THEN Append(deps, x) ELSE deps, Append(seen, x))
<1> DEFINE n == Len(deps)
           m == Len(seen)
           d == Append(seen, x)
<1>1. n \in Nat /\ m \in Nat /\ DOMAIN deps = 1 .. n
  BY LenProperties DEF LeafSeqs
<1>2. Len(d) = m + 1 /\ d[m + 1] = x /\ \A k \in 1 .. m : d[k] = seen[k]
  BY AppendProperties DEF LeafSeqs
<1>3. 1 .. m + 1 = (1 .. m) \cup {m + 1} /\ 1 .. n + 1 = (1 .. n) \cup {n + 1}
  BY <1>1
<1> HIDE DEF d
<1>4. x \in ToSet(deps) <=> \E i \in 1 .. n : deps[i] = x
  BY <1>1 DEF ToSet
<1>5. \A y : (\E k \in 1 .. m + 1 : d[k] = y /\ IsExpLeaf[y]) <=>
               (\E k \in 1 .. m : seen[k] = y /\ IsExpLeaf[y]) \/ (y = x /\ IsExpLeaf[x])
  BY <1>2, <1>3
<1>6. ASSUME NEW y, NEW k \in 1 .. m, seen[k] = y, NEW a, FirstAt(d, a, y)
      PROVE  FirstAt(seen, a, y) /\ a \in 1 .. m
  <2>1. a \in 1 .. m + 1 /\ d[a] = y /\ \A i \in 1 .. a - 1 : d[i] # y
    BY <1>2, <1>6 DEF FirstAt
  <2>2. a # m + 1
    <3> SUFFICES ASSUME a = m + 1 PROVE FALSE
      OBVIOUS
    <3>1. k \in 1 .. a - 1
      BY <1>1
    <3> QED
      BY <1>2, <1>6, <2>1, <3>1
  <2>3. a \in 1 .. m /\ \A i \in 1 .. a - 1 : i \in 1 .. m
    BY <1>1, <2>1, <2>2
  <2> QED
    BY <1>2, <2>1, <2>3 DEF FirstAt
<1>7. \A i \in 1 .. n : \E k \in 1 .. m : seen[k] = deps[i]
  BY DEF Found
<1>8. ASSUME NEW i \in 1 .. n, NEW j \in 1 .. n, i < j, NEW a, NEW b,
             FirstAt(d, a, deps[i]), FirstAt(d, b, deps[j])
      PROVE  a < b
  <2>1. FirstAt(seen, a, deps[i]) /\ FirstAt(seen, b, deps[j])
    BY <1>6, <1>7, <1>8
  <2> QED
    BY <1>8, <2>1 DEF Found
<1>9. CASE IsExpLeaf[x] /\ x \notin ToSet(deps)
  <2> DEFINE c == Append(deps, x)
  <2>1. Len(c) = n + 1 /\ c[n + 1] = x /\ \A i \in 1 .. n : c[i] = deps[i]
    BY AppendProperties DEF LeafSeqs
  <2> HIDE DEF c
  <2>2. \A y : (\E i \in 1 .. n + 1 : c[i] = y) <=> (\E i \in 1 .. n : deps[i] = y) \/ y = x
    BY <1>3, <2>1
  <2>3. \A y : (\E i \in 1 .. n + 1 : c[i] = y) <=> (\E k \in 1 .. m + 1 : d[k] = y /\ IsExpLeaf[y])
    BY <1>5, <1>9, <2>2 DEF Found
  <2>4. ASSUME NEW i \in 1 .. n + 1, NEW j \in 1 .. n + 1, i < j, NEW a, NEW b,
               FirstAt(d, a, c[i]), FirstAt(d, b, c[j])
        PROVE  a < b
    <3>1. i \in 1 .. n /\ c[i] = deps[i]
      BY <1>1, <2>1, <2>4
    <3>2. CASE j \in 1 .. n
      <4>1. c[j] = deps[j]
        BY <2>1, <3>2
      <4> QED
        BY <1>8, <2>4, <3>1, <3>2, <4>1
    <3>3. CASE j = n + 1
      <4>1. a \in 1 .. m
        BY <1>6, <1>7, <2>4, <3>1
      <4>2. b \in 1 .. m + 1 /\ d[b] = x
        BY <1>2, <2>1, <2>4, <3>3 DEF FirstAt
      <4>3. \A k \in 1 .. m : seen[k] # x
        BY <1>4, <1>9 DEF Found
      <4>4. b = m + 1
        BY <1>2, <1>3, <4>2, <4>3
      <4> QED
        BY <1>1, <4>1, <4>4
    <3> QED
      BY <1>3, <3>2, <3>3
  <2>5. Found(c, d)
    BY <1>2, <2>1, <2>3, <2>4 DEF Found
  <2> QED
    BY <1>9, <2>5 DEF c, d
<1>10. CASE ~(IsExpLeaf[x] /\ x \notin ToSet(deps))
  <2>1. \A y : (\E i \in 1 .. n : deps[i] = y) <=> (\E k \in 1 .. m + 1 : d[k] = y /\ IsExpLeaf[y])
    BY <1>4, <1>5, <1>10 DEF Found
  <2>2. Found(deps, d)
    BY <1>2, <1>8, <2>1 DEF Found
  <2> QED
    BY <1>10, <2>2 DEF d
<1> QED
  BY <1>9, <1>10

LEMMA DependInit ==
  ASSUME OperationsInit
  PROVE  DependInv
<1>1. tree \in Nodes /\ frames = <<Frame(tree, 1)>> /\ dependencies = <<>>
  BY OperationsAssumption DEF OperationsInit
<1>2. Len(frames) = 1 /\ frames[1].node = tree /\ frames[1].value = 1
  <2>1. Frame(tree, 1).node = tree /\ Frame(tree, 1).value = 1
    BY DEF Frame
  <2> HIDE DEF Frame
  <2> QED
    BY <1>1, <2>1
<1>3. Leaves[tree] \in LeafSeqs /\ <<>> \in LeafSeqs
  BY <1>1, LeavesFacts, EmptySeq DEF LeafSeqs
<1>4. Leaves[tree] \o <<>> = Leaves[tree] /\ <<>> \o Leaves[tree] = Leaves[tree]
  BY <1>3, ConcatEmptySeq DEF LeafSeqs
<1>5. PICK t : t = tree
  OBVIOUS
<1> DEFINE R == [k \in 0 .. 1 |-> IF k = 0 THEN <<>> ELSE Leaves[t]]
<1>6. R \in [0 .. 1 -> LeafSeqs] /\ R[0] = <<>> /\ R[1] = Leaves[tree]
  BY <1>3, <1>5
<1> HIDE DEF R
<1>7. Rest(R)
  <2>1. \A k \in 1 .. 1 : k = 1 /\ k - 1 = 0
    OBVIOUS
  <2>2. LeavesFrom(frames[1].node, frames[1].value) = Leaves[tree]
    BY <1>2 DEF LeavesFrom
  <2>3. R[1] = LeavesFrom(frames[1].node, frames[1].value) \o R[0]
    BY <1>4, <1>6, <2>2
  <2>4. \A k \in 1 .. Len(frames) : R[k] = LeavesFrom(frames[k].node, frames[k].value) \o R[k - 1]
    <3> SUFFICES ASSUME NEW k \in 1 .. Len(frames)
                 PROVE  R[k] = LeavesFrom(frames[k].node, frames[k].value) \o R[k - 1]
      OBVIOUS
    <3>1. k = 1 /\ k - 1 = 0
      BY <1>2, <2>1
    <3> QED
      BY <2>3, <3>1
  <2> QED
    BY <1>2, <1>6, <2>4 DEF Rest
<1> QED
  BY <1>1, <1>2, <1>3, <1>4, <1>6, <1>7, FoundEmpty DEF DependInv

(***************************************************************************)
(* What the top call has yet to come to, and the calls below it.           *)
(***************************************************************************)
LEMMA RestTop ==
  ASSUME OpTypeInv, NEW f, Placed(f), HasValue, NEW R, Rest(R)
  PROVE  LET m == Len(frames)
             w == LeavesFrom(Top.node, Top.value + 1) \o R[m - 1]
         IN /\ m \in Nat /\ m > 0 /\ w \in LeafSeqs /\ R[m - 1] \in LeafSeqs
            /\ LeavesFrom(Top.node, Top.value + 1) \in LeafSeqs
            /\ Leaves[Value] \in LeafSeqs
            /\ R[m] = Leaves[Value] \o w
<1> DEFINE m == Len(frames)
           t == Top.node
           u == Top.value
<1>1. frames # <<>> /\ Top.destination \in 1 .. Len(operations) /\ t = f[Top.destination] /\ t \in Nodes
      /\ t.op = operations[Top.destination].op /\ u \in 1 .. 2 /\ u <= Arity(t.op)
      /\ Value = t.values[u] /\ Value \in Nodes
  BY TopFacts DEF HasValue
<1>2. t.op # "leaf"
  BY <1>1, OperationFacts
<1>3. m \in Nat /\ m > 0 /\ Top = frames[m]
  BY <1>1, FrameFacts
<1>4. u \in 1 .. 3
  BY <1>1
<1>5. /\ LeavesFrom(t, u) \in LeafSeqs /\ LeavesFrom(t, u + 1) \in LeafSeqs
      /\ LeavesFrom(t, u) = Leaves[Value] \o LeavesFrom(t, u + 1)
  BY <1>1, <1>2, <1>4, LeavesFromFacts
<1>6. Leaves[Value] \in LeafSeqs
  BY <1>1, LeavesFacts
<1>7. m \in 1 .. m /\ m - 1 \in 0 .. m
  BY <1>3
<1>8. R[m] = LeavesFrom(t, u) \o R[m - 1] /\ R[m - 1] \in LeafSeqs
  BY <1>3, <1>7 DEF Rest
<1> DEFINE a == Leaves[Value]
           b == LeavesFrom(t, u + 1)
           c == R[m - 1]
<1>9. a \in LeafSeqs /\ b \in LeafSeqs /\ c \in LeafSeqs /\ R[m] = (a \o b) \o c
  BY <1>5, <1>6, <1>8
<1> HIDE DEF a, b, c
<1>10. (a \o b) \o c = a \o (b \o c) /\ b \o c \in LeafSeqs
  BY <1>9, ConcatAssociative, ConcatProperties DEF LeafSeqs
<1> QED
  BY <1>3, <1>9, <1>10 DEF a, b, c

(***************************************************************************)
(* The top call has gone to its next value, and the rest is w.             *)
(***************************************************************************)
LEMMA RestAdvanced ==
  ASSUME OpTypeInv, NEW f, Placed(f), HasValue, NEW R, Rest(R)
  PROVE  \E L \in [0 .. Len(frames) -> LeafSeqs] :
           /\ L[0] = <<>> /\ L[Len(frames)] = LeavesFrom(Top.node, Top.value + 1) \o R[Len(frames) - 1]
           /\ \A k \in 1 .. Len(frames) : L[k] = LeavesFrom(Advanced[k].node, Advanced[k].value) \o L[k - 1]
<1>0. PICK m, w : m = Len(frames) /\ w = LeavesFrom(Top.node, Top.value + 1) \o R[m - 1]
  OBVIOUS
<1> DEFINE L == [k \in 0 .. m |-> IF k = m THEN w ELSE R[k]]
<1>1. m \in Nat /\ m > 0 /\ w \in LeafSeqs
  BY <1>0, RestTop
<1>2. R \in [0 .. m -> LeafSeqs] /\ R[0] = <<>>
      /\ \A k \in 1 .. m : R[k] = LeavesFrom(frames[k].node, frames[k].value) \o R[k - 1]
  BY <1>0 DEF Rest
<1>3. \A k \in 1 .. m :
        /\ Advanced[k].node = frames[k].node
        /\ Advanced[k].value = IF k = m THEN frames[k].value + 1 ELSE frames[k].value
  BY <1>0, AdvancedFacts
<1>4. Top = frames[m]
  BY <1>0 DEF Top
<1>5. w = LeavesFrom(frames[m].node, frames[m].value + 1) \o R[m - 1]
  BY <1>0, <1>4
<1>6. L \in [0 .. m -> LeafSeqs] /\ L[m] = w /\ \A k \in 0 .. m : k # m => L[k] = R[k]
  <2>1. m \in 0 .. m
    BY <1>1
  <2> QED
    BY <1>1, <1>2, <2>1
<1> HIDE DEF L
<1>7. ASSUME NEW k \in 1 .. m
      PROVE  L[k] = LeavesFrom(Advanced[k].node, Advanced[k].value) \o L[k - 1]
  <2>1. k - 1 \in 0 .. m /\ k - 1 # m /\ k \in 0 .. m
    BY <1>1
  <2>2. L[k - 1] = R[k - 1]
    BY <1>6, <2>1
  <2>3. CASE k = m
    <3>1. Advanced[k].node = frames[m].node /\ Advanced[k].value = frames[m].value + 1
      BY <1>3, <2>3
    <3>2. L[k] = w /\ L[k - 1] = R[m - 1]
      BY <1>6, <2>2, <2>3
    <3> QED
      BY <1>5, <3>1, <3>2
  <2>4. CASE k # m
    <3>1. Advanced[k].node = frames[k].node /\ Advanced[k].value = frames[k].value /\ L[k] = R[k]
      BY <1>3, <1>6, <2>1, <2>4
    <3> QED
      BY <1>2, <2>2, <3>1
  <2> QED
    BY <2>3, <2>4
<1>8. L[0] = <<>>
  <2>1. 0 \in 0 .. m /\ 0 # m
    BY <1>1
  <2> QED
    BY <1>2, <1>6, <2>1
<1> QED
  BY <1>0, <1>6, <1>7, <1>8

LEMMA DependAfterCompileOperation ==
  ASSUME OpTypeInv, NEW f, Placed(f), CompileOperation, DependInv
  PROVE  DependInv'
<1>1. PICK seen, R :
        seen \in LeafSeqs /\ Rest(R) /\ Leaves[tree] = seen \o R[Len(frames)] /\ Found(dependencies, seen)
  BY DEF DependInv
<1>2. HasValue /\ Value.op # "leaf" /\ UNCHANGED <<tree, dependencies>>
  BY DEF CompileOperation
<1>3. PICK m, w, x :
        m = Len(frames) /\ w = LeavesFrom(Top.node, Top.value + 1) \o R[m - 1] /\ x = Leaves[Value] \o w
  OBVIOUS
<1>4. m \in Nat /\ m > 0 /\ w \in LeafSeqs /\ Leaves[Value] \in LeafSeqs /\ R[m] = x
  BY <1>1, <1>2, <1>3, RestTop
<1>5. PICK L \in [0 .. m -> LeafSeqs] :
        /\ L[0] = <<>> /\ L[m] = w
        /\ \A k \in 1 .. m : L[k] = LeavesFrom(Advanced[k].node, Advanced[k].value) \o L[k - 1]
  <2>1. Rest(R)
    BY <1>1
  <2>2. HasValue /\ m = Len(frames) /\ w = LeavesFrom(Top.node, Top.value + 1) \o R[m - 1]
    BY <1>2, <1>3
  <2> QED
    BY <2>1, <2>2, RestAdvanced
<1>6. x \in LeafSeqs
  BY <1>3, <1>4, ConcatProperties DEF LeafSeqs
<1> DEFINE c == Frame(Value, Len(operations) + 1)
<1>7. /\ frames' = Append(Advanced, c) /\ c \in FrameSet /\ Advanced \in Seq(FrameSet) /\ Len(Advanced) = m
      /\ c.node = Value /\ c.value = 1
  <2>1. c.node = Value /\ c.value = 1
    BY DEF Frame
  <2> QED
    BY <1>2, <1>3, <2>1, CompiledOperation, AdvancedFacts
<1> HIDE DEF c
<1>8. Len(frames') = m + 1 /\ frames'[m + 1] = c /\ \A k \in 1 .. m : frames'[k] = Advanced[k]
  BY <1>7, AppendProperties
<1>9. PICK M : M = [k \in 0 .. m + 1 |-> IF k = m + 1 THEN x ELSE L[k]]
  OBVIOUS
<1>10. /\ M \in [0 .. m + 1 -> LeafSeqs] /\ M[m + 1] = x /\ M[0] = <<>>
       /\ \A k \in 0 .. m : M[k] = L[k]
  BY <1>4, <1>5, <1>6, <1>9
<1>11. ASSUME NEW k \in 1 .. m + 1
       PROVE  M[k] = LeavesFrom(frames'[k].node, frames'[k].value) \o M[k - 1]
  <2>1. CASE k = m + 1
    <3>1. k - 1 = m /\ m \in 0 .. m
      BY <1>4, <2>1
    <3>2. M[k - 1] = w /\ M[k] = x /\ LeavesFrom(frames'[k].node, frames'[k].value) = Leaves[Value]
      BY <1>5, <1>7, <1>8, <1>10, <2>1, <3>1 DEF LeavesFrom
    <3> QED
      BY <1>3, <3>2
  <2>2. CASE k # m + 1
    <3>1. k \in 1 .. m /\ k \in 0 .. m /\ k - 1 \in 0 .. m
      BY <1>4, <2>2
    <3>2. M[k] = L[k] /\ M[k - 1] = L[k - 1] /\ frames'[k] = Advanced[k]
      BY <1>8, <1>10, <3>1
    <3> QED
      BY <1>5, <3>1, <3>2
  <2> QED
    BY <2>1, <2>2
<1>12. Rest(M)'
  BY <1>8, <1>10, <1>11 DEF Rest
<1>13. Leaves[tree'] = seen \o M[Len(frames')]
  BY <1>1, <1>2, <1>3, <1>4, <1>8, <1>10
<1> QED
  BY <1>1, <1>2, <1>12, <1>13 DEF DependInv

LEMMA DependAfterCompileLeaf ==
  ASSUME OpTypeInv, NEW f, Placed(f), CompileLeaf, DependInv
  PROVE  DependInv'
<1>1. PICK seen, R :
        seen \in LeafSeqs /\ Rest(R) /\ Leaves[tree] = seen \o R[Len(frames)] /\ Found(dependencies, seen)
  BY DEF DependInv
<1>2. HasValue /\ Value.op = "leaf" /\ tree' = tree /\ frames' = Advanced
      /\ dependencies' = IF IsExpLeaf[Value.id] /\ Value.id \notin ToSet(dependencies)
                         THEN Append(dependencies, Value.id) ELSE dependencies
  BY DEF CompileLeaf
<1>3. PICK m, w, x :
        m = Len(frames) /\ w = LeavesFrom(Top.node, Top.value + 1) \o R[m - 1] /\ x = Value.id
  OBVIOUS
<1>4. m \in Nat /\ m > 0 /\ w \in LeafSeqs /\ R[m] = Leaves[Value] \o w
  BY <1>1, <1>2, <1>3, RestTop
<1>5. PICK L \in [0 .. m -> LeafSeqs] :
        /\ L[0] = <<>> /\ L[m] = w
        /\ \A k \in 1 .. m : L[k] = LeavesFrom(Advanced[k].node, Advanced[k].value) \o L[k - 1]
  <2>1. Rest(R)
    BY <1>1
  <2>2. HasValue /\ m = Len(frames) /\ w = LeavesFrom(Top.node, Top.value + 1) \o R[m - 1]
    BY <1>2, <1>3
  <2> QED
    BY <2>1, <2>2, RestAdvanced
<1>6. x \in DOMAIN Leaf /\ Leaves[Value] = <<x>> /\ Len(Advanced) = m
  BY <1>2, <1>3, CompiledLeaf, TopFacts, AdvancedFacts, LeavesFacts
<1>7. PICK more : more = Append(seen, x)
  OBVIOUS
<1>8. more \in LeafSeqs /\ more \o w = seen \o (<<x>> \o w)
  <2>1. more = seen \o <<x>> /\ more \in LeafSeqs
    BY <1>1, <1>6, <1>7, AppendIsConcat, AppendProperties DEF LeafSeqs
  <2>2. <<x>> \in Seq(DOMAIN Leaf)
    BY <1>6
  <2>3. (seen \o <<x>>) \o w = seen \o (<<x>> \o w)
    BY <1>1, <1>4, <2>2, ConcatAssociative DEF LeafSeqs
  <2> QED
    BY <2>1, <2>3
<1>9. Found(dependencies', more)
  <2>1. dependencies \in LeafSeqs
    BY DEF OpTypeInv
  <2>2. PICK deps : deps = dependencies
    OBVIOUS
  <2>3. Found(IF IsExpLeaf[x] /\ x \notin ToSet(deps) THEN Append(deps, x) ELSE deps, Append(seen, x))
    BY <1>1, <1>6, <2>1, <2>2, FoundAppend
  <2> QED
    BY <1>2, <1>3, <1>7, <2>2, <2>3
<1>10. Rest(L)'
  BY <1>2, <1>5, <1>6 DEF Rest
<1>11. Leaves[tree'] = more \o L[Len(frames')]
  BY <1>1, <1>2, <1>3, <1>4, <1>5, <1>6, <1>8
<1> QED
  BY <1>8, <1>9, <1>10, <1>11 DEF DependInv

LEMMA DependAfterReturn ==
  ASSUME OpTypeInv, NEW f, Placed(f), Return, DependInv
  PROVE  DependInv'
<1>1. PICK seen, R :
        seen \in LeafSeqs /\ Rest(R) /\ Leaves[tree] = seen \o R[Len(frames)] /\ Found(dependencies, seen)
  BY DEF DependInv
<1>2. frames # <<>> /\ ~HasValue /\ frames' = Front(frames) /\ UNCHANGED <<tree, dependencies>>
  BY DEF Return
<1>3. PICK m : m = Len(frames)
  OBVIOUS
<1>4. m \in Nat /\ m > 0 /\ frames[m].value \in 1 .. 3 /\ m \in 1 .. m /\ m - 1 \in 0 .. m
      /\ Len(frames') = m - 1 /\ \A k \in 1 .. m - 1 : frames'[k] = frames[k]
  BY <1>2, <1>3, FrontFrames, FrameFacts
<1>5. R \in [0 .. m -> LeafSeqs] /\ R[0] = <<>>
      /\ \A k \in 1 .. m : R[k] = LeavesFrom(frames[k].node, frames[k].value) \o R[k - 1]
  BY <1>1, <1>3 DEF Rest
<1>6. R[m] = R[m - 1]
  <2>1. frames[m].node = f[frames[m].destination] /\ frames[m].destination \in 1 .. Len(operations)
    BY <1>3, <1>4 DEF Placed
  <2>2. frames[m].node \in Nodes /\ frames[m].node.op # "leaf"
    <3>1. f \in Seq(Nodes) /\ Len(f) = Len(operations)
      BY DEF Placed
    <3> QED
      BY <2>1, <3>1, ElementOfSeq, OperationFacts DEF Placed
  <2>3. frames[m].value > Arity(frames[m].node.op)
    <3>1. ~(frames[m].value <= Arity(frames[m].node.op))
      BY <1>2, <1>3 DEF HasValue, Top
    <3>2. Arity(frames[m].node.op) \in 1 .. 2
      BY DEF Arity
    <3> QED
      BY <1>4, <3>1, <3>2
  <2>4. LeavesFrom(frames[m].node, frames[m].value) = <<>>
    BY <1>4, <2>2, <2>3, LeavesFromFacts
  <2>5. R[m] = <<>> \o R[m - 1] /\ R[m - 1] \in LeafSeqs
    BY <1>4, <1>5, <2>4
  <2> QED
    BY <2>5, ConcatEmptySeq DEF LeafSeqs
<1>7. PICK L : L = [k \in 0 .. m - 1 |-> R[k]]
  OBVIOUS
<1>8. L \in [0 .. m - 1 -> LeafSeqs] /\ L[0] = <<>> /\ L[m - 1] = R[m] /\ \A k \in 0 .. m - 1 : L[k] = R[k]
  <2>1. \A k \in 0 .. m - 1 : k \in 0 .. m
    BY <1>4
  <2>2. 0 \in 0 .. m - 1 /\ m - 1 \in 0 .. m - 1
    BY <1>4
  <2> QED
    BY <1>5, <1>6, <1>7, <2>1, <2>2
<1>9. ASSUME NEW k \in 1 .. m - 1
      PROVE  L[k] = LeavesFrom(frames'[k].node, frames'[k].value) \o L[k - 1]
  <2>1. k \in 1 .. m /\ k \in 0 .. m - 1 /\ k - 1 \in 0 .. m - 1
    BY <1>4
  <2> QED
    BY <1>4, <1>5, <1>8, <2>1
<1>10. Rest(L)'
  BY <1>4, <1>8, <1>9 DEF Rest
<1>11. Leaves[tree'] = seen \o L[Len(frames')]
  BY <1>1, <1>2, <1>3, <1>4, <1>8
<1> QED
  BY <1>1, <1>2, <1>10, <1>11 DEF DependInv

LEMMA DependNext ==
  ASSUME OpInv, DependInv, [OperationsNext]_operationsVars
  PROVE  DependInv'
<1>1. PICK f : Placed(f) /\ Computed(f)
  BY DEF OpInv, PlaceInv
<1>2. OpTypeInv
  BY DEF OpInv
<1>3. CASE CompileOperation
  BY <1>1, <1>2, <1>3, DependAfterCompileOperation
<1>4. CASE CompileLeaf
  BY <1>1, <1>2, <1>4, DependAfterCompileLeaf
<1>5. CASE Return
  BY <1>1, <1>2, <1>5, DependAfterReturn
<1>6. CASE UNCHANGED <<tree, frames, dependencies>>
  BY <1>6 DEF DependInv, Rest
<1>7. CompileOperation \/ CompileLeaf \/ Return \/ UNCHANGED <<tree, frames, dependencies>>
  BY DEF OperationsNext, operationsVars, EvalOperation, EndRow, StopEval
<1> QED
  BY <1>3, <1>4, <1>5, <1>6, <1>7

(***************************************************************************)
(* When the tree is compiled, no leaf is left.                             *)
(***************************************************************************)
LEMMA DependExact ==
  ASSUME OpInv, DependInv
  PROVE  DependenciesExact
<1> SUFFICES ASSUME isCompiled
             PROVE  /\ ToSet(dependencies) = { Leaves[tree][k] : k \in ExpLeaves }
                    /\ \A i, j \in DOMAIN dependencies :
                         i < j => FirstUse(dependencies[i]) < FirstUse(dependencies[j])
  BY DEF DependenciesExact
<1>1. PICK seen, R :
        seen \in LeafSeqs /\ Rest(R) /\ Leaves[tree] = seen \o R[Len(frames)] /\ Found(dependencies, seen)
  BY DEF DependInv
<1>2. OpTypeInv
  BY DEF OpInv
<1>3. Leaves[tree] = seen
  <2>1. Len(frames) = 0
    <3>1. frames = <<>> /\ Len(<<>>) = 0
      BY <1>2 DEF OpTypeInv
    <3> QED
      BY <3>1
  <2>2. R[Len(frames)] = <<>>
    BY <1>1, <2>1 DEF Rest
  <2> QED
    BY <1>1, <2>2, ConcatEmptySeq DEF LeafSeqs
<1>4. DOMAIN dependencies = 1 .. Len(dependencies) /\ DOMAIN seen = 1 .. Len(seen) /\ Len(seen) \in Nat
  BY <1>2, LenProperties DEF OpTypeInv, LeafSeqs
<1>5. ExpLeaves = { k \in 1 .. Len(seen) : IsExpLeaf[seen[k]] }
  BY <1>3, <1>4 DEF ExpLeaves
<1>6. \A x : x \in ToSet(dependencies) <=> x \in { Leaves[tree][k] : k \in ExpLeaves }
  <2>1. \A x : x \in ToSet(dependencies) <=> \E i \in 1 .. Len(dependencies) : dependencies[i] = x
    BY <1>4 DEF ToSet
  <2>2. \A x : x \in { Leaves[tree][k] : k \in ExpLeaves } <=>
                 \E k \in 1 .. Len(seen) : seen[k] = x /\ IsExpLeaf[x]
    BY <1>3, <1>5
  <2> QED
    BY <1>1, <2>1, <2>2 DEF Found
<1>7. ASSUME NEW i \in 1 .. Len(dependencies)
      PROVE  FirstAt(seen, FirstUse(dependencies[i]), dependencies[i])
  <2>1. PICK x : x = dependencies[i]
    OBVIOUS
  <2>2. \E k \in 1 .. Len(seen) : seen[k] = x /\ IsExpLeaf[x]
    BY <1>1, <2>1 DEF Found
  <2> DEFINE S == { k \in 1 .. Len(seen) : seen[k] = x }
  <2>3. S \in SUBSET Nat /\ S # {}
    BY <2>2
  <2>4. PICK n \in S : \A k \in S : n <= k
    BY <2>3, LeastNumber
  <2>5. n \in 1 .. Len(seen) /\ seen[n] = x /\ IsExpLeaf[x]
    BY <2>2, <2>4
  <2>6. \A k \in 1 .. n - 1 : seen[k] # x
    <3> SUFFICES ASSUME NEW k \in 1 .. n - 1, seen[k] = x PROVE FALSE
      OBVIOUS
    <3>1. k \in 1 .. Len(seen) /\ ~(n <= k)
      BY <1>4, <2>5
    <3> QED
      BY <2>4, <3>1
  <2>7. \E k \in ExpLeaves : seen[k] = x /\ \A m \in 1 .. k - 1 : seen[m] # x
    BY <1>5, <2>5, <2>6
  <2>8. FirstUse(x) = CHOOSE k \in ExpLeaves : seen[k] = x /\ \A m \in 1 .. k - 1 : seen[m] # x
    BY <1>3 DEF FirstUse
  <2>9. FirstUse(x) \in ExpLeaves /\ seen[FirstUse(x)] = x /\ \A m \in 1 .. FirstUse(x) - 1 : seen[m] # x
    <3> HIDE DEF ExpLeaves
    <3> QED
      BY <2>7, <2>8
  <2> QED
    BY <1>5, <2>1, <2>9 DEF FirstAt
<1>8. \A i, j \in 1 .. Len(dependencies) : i < j => FirstUse(dependencies[i]) < FirstUse(dependencies[j])
  BY <1>1, <1>7 DEF Found
<1> QED
  BY <1>4, <1>6, <1>8

(***************************************************************************)
(* The compile gives each expression the expressions among its leaves as   *)
(* dependencies, each once and in the order of their first uses: what the  *)
(* compile order and the groups go by.  For all trees.                     *)
(***************************************************************************)
THEOREM OperationsDependenciesExact == OperationsSpec => []DependenciesExact
<1>1. OperationsInit => DependInv
  BY DependInit
<1>2. OpInv /\ DependInv /\ [OperationsNext]_operationsVars => DependInv'
  BY DependNext
<1>3. OpInv /\ DependInv => DependenciesExact
  BY DependExact
<1> QED
  BY <1>1, <1>2, <1>3, OpInvAlways, PTL DEF OperationsSpec

(***************************************************************************)
(* The value of a node depends on those of its leaves alone, in the order  *)
(* from left to right.                                                     *)
(***************************************************************************)
SameLeaves(t, r, s) == \A k \in 1 .. Len(Leaves[t]) : Leaf[Leaves[t][k]][r] = Leaf[Leaves[t][k]][s]

LEMMA LeavesBelow ==
  ASSUME NEW t \in Nodes, t.op # "leaf", NEW r, NEW s, SameLeaves(t, r, s)
  PROVE  /\ SameLeaves(t.values[1], r, s)
         /\ Arity(t.op) # 1 => SameLeaves(t.values[2], r, s)
<1> DEFINE a == Leaves[t.values[1]]
           b == IF Arity(t.op) = 1 THEN <<>> ELSE Leaves[t.values[2]]
<1>1. a \in LeafSeqs /\ b \in LeafSeqs
  BY NodeFacts, LeavesFacts, EmptySeq DEF LeafSeqs
<1>2. Leaves[t] = a \o b
  BY LeavesFacts
<1> HIDE DEF a, b
<1>3. Len(a) \in Nat /\ Len(b) \in Nat
  BY <1>1, LenProperties DEF LeafSeqs
<1>4. /\ Len(Leaves[t]) = Len(a) + Len(b)
      /\ \A i \in 1 .. Len(a) + Len(b) : Leaves[t][i] = IF i <= Len(a) THEN a[i] ELSE b[i - Len(a)]
  BY <1>1, <1>2, ConcatProperties DEF LeafSeqs
<1>5. \A k \in 1 .. Len(a) : Leaf[a[k]][r] = Leaf[a[k]][s]
  <2> SUFFICES ASSUME NEW k \in 1 .. Len(a) PROVE Leaf[a[k]][r] = Leaf[a[k]][s]
    OBVIOUS
  <2>1. k \in 1 .. Len(a) + Len(b) /\ k <= Len(a)
    BY <1>3
  <2> QED
    BY <1>4, <2>1 DEF SameLeaves
<1>6. \A k \in 1 .. Len(b) : Leaf[b[k]][r] = Leaf[b[k]][s]
  <2> SUFFICES ASSUME NEW k \in 1 .. Len(b) PROVE Leaf[b[k]][r] = Leaf[b[k]][s]
    OBVIOUS
  <2>1. k + Len(a) \in 1 .. Len(a) + Len(b) /\ ~(k + Len(a) <= Len(a)) /\ (k + Len(a)) - Len(a) = k
    BY <1>3
  <2>2. Leaves[t][k + Len(a)] = b[k]
    BY <1>4, <2>1
  <2> QED
    BY <1>4, <2>1, <2>2 DEF SameLeaves
<1> QED
  BY <1>5, <1>6 DEF SameLeaves, a, b

LEMMA MeaningOfLeaves ==
  ASSUME NEW r \in 0 .. RowCount - 1, NEW s \in 0 .. RowCount - 1, NEW t \in Nodes, SameLeaves(t, r, s)
  PROVE  TreeValue(r)[t] = TreeValue(s)[t]
<1> DEFINE S == { x \in Nodes : SameLeaves(x, r, s) => TreeValue(r)[x] = TreeValue(s)[x] }
<1>1. ASSUME NEW x \in Nodes, \A c \in Nodes : Height(c) < Height(x) => c \in S PROVE x \in S
  <2> SUFFICES ASSUME SameLeaves(x, r, s) PROVE TreeValue(r)[x] = TreeValue(s)[x]
    OBVIOUS
  <2>1. CASE x.op = "leaf"
    <3>1. Leaves[x] = <<x.id>>
      BY <2>1, LeavesFacts
    <3>2. Leaf[x.id][r] = Leaf[x.id][s]
      BY <3>1 DEF SameLeaves
    <3> QED
      BY <2>1, <3>2, MeaningFacts
  <2>2. CASE x.op # "leaf"
    <3>1. SameLeaves(x.values[1], r, s) /\ (Arity(x.op) # 1 => SameLeaves(x.values[2], r, s))
      BY <2>2, LeavesBelow
    <3>2. x.values[1] \in S /\ (Arity(x.op) # 1 => x.values[2] \in S)
      BY <1>1, <2>2, NodeFacts
    <3>3. TreeValue(r)[x.values[1]] = TreeValue(s)[x.values[1]] /\ Second(TreeValue(r), x) = Second(TreeValue(s), x)
      BY <3>1, <3>2 DEF Second
    <3>4. /\ TreeValue(r)[x] = Apply(x.op, TreeValue(r)[x.values[1]], Second(TreeValue(r), x))
          /\ TreeValue(s)[x] = Apply(x.op, TreeValue(s)[x.values[1]], Second(TreeValue(s), x))
      BY <2>2, MeaningFacts
    <3> QED
      BY <3>3, <3>4
  <2> QED
    BY <2>1, <2>2
<1>2. Nodes \subseteq S
  <2> HIDE DEF S
  <2> QED
    BY <1>1, NodeInduction
<1> QED
  BY <1>2

(***************************************************************************)
(* An expression is a function of the values of its leaves, the same at    *)
(* every row, though the vector keeps the results of the row before: what  *)
(* the other modules take it for.                                          *)
(***************************************************************************)
OfItsLeaves ==
  \A k, l \in DOMAIN evaluation : SameLeaves(tree, k - 1, l - 1) => evaluation[k] = evaluation[l]

THEOREM OperationsOfLeaves == OperationsSpec => []OfItsLeaves
<1>1. OpInv /\ EvaluatesTree => OfItsLeaves
  <2> SUFFICES ASSUME OpInv, EvaluatesTree, NEW k \in DOMAIN evaluation, NEW l \in DOMAIN evaluation,
                      SameLeaves(tree, k - 1, l - 1)
               PROVE  evaluation[k] = evaluation[l]
    BY DEF OfItsLeaves
  <2>1. OpTypeInv /\ tree \in Nodes
    BY OperationsAssumption DEF OpInv, OpTypeInv
  <2>2. DOMAIN evaluation = 1 .. evalRow /\ evalRow \in 0 .. RowCount
    BY <2>1, LenProperties DEF OpTypeInv
  <2>3. k - 1 \in 0 .. RowCount - 1 /\ l - 1 \in 0 .. RowCount - 1
    BY <2>2, NodeFacts
  <2>4. TreeValue(k - 1)[tree] = TreeValue(l - 1)[tree]
    BY <2>1, <2>3, MeaningOfLeaves
  <2> QED
    BY <2>4 DEF EvaluatesTree
<1> QED
  BY <1>1, OperationsEvaluatesTree, OpInvAlways, PTL
=============================================================================
