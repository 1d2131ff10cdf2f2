------------------------------ MODULE Lookups ------------------------------
(***************************************************************************)
(* Engine::checkPlookupIdentities and checkPermutationIdentities, over     *)
(* evaluated columns.  First prepareT collects the tuples of the selected  *)
(* rows of each T side in a table, then verifyF looks the tuples of the F  *)
(* side up in it; both handle the identities in parallel.                  *)
(***************************************************************************)
EXTENDS Cyclic, Sequences, FiniteSets

CONSTANTS
  N,           \* number of rows, Engine::n
  Chunks,      \* chunks that verifyF divides the rows in: 16 in the code
  NONE,        \* a selector that is null in the PIL
  Problems     \* the identities, their kind and the columns

ASSUME LookupsAssumption ==
  /\ N \in Nat \ {0} /\ Chunks \in Nat \ {0}
  /\ \A p \in Problems :
       /\ p.kind \in {"plookup", "permutation"}
       /\ p.identities # <<>>
       /\ p.identities \in Seq({ p.identities[i] : i \in DOMAIN p.identities })
       /\ \A i \in DOMAIN p.identities :
            /\ {p.identities[i].selF, p.identities[i].selT} \subseteq DOMAIN p.columns \cup {NONE}
            /\ \A k \in DOMAIN p.identities[i].f : p.identities[i].f[k] \in DOMAIN p.columns
            /\ \A k \in DOMAIN p.identities[i].t : p.identities[i].t[k] \in DOMAIN p.columns
       /\ 0 \in DOMAIN p.columns /\ NONE \notin DOMAIN p.columns
       /\ \A x \in DOMAIN p.columns : DOMAIN p.columns[x] = 0 .. N - 1

Rows == 0 .. N - 1

VARIABLES
  kind,         \* "plookup" or "permutation"      \
  identities,   \* with fields selF, f, selT, t    | constant from here on
  evaluations,  \* Expressions::evaluations       /
  phase,        \* "T", "F", "remaining", "end"
  rowT,         \* rowT[i]: loop variable w of prepareT, identity i
  tt,           \* tt[i]: the tuples of the T side and how often they occur
  cyclic,       \* cyclic[i]: the rows of the T side, equally spaced or not
  chunk,        \* chunk[i]: loop variable ichunk of verifyF, from 0
  row,          \* row[i]: its loop variable w
  stop,         \* stop[i]: a failed check has left the loop over w
  done,         \* the rows that updatePercentF has counted
  index,        \* loop variable of the search for remaining values
  errors        \* what onError... printed: <<identity, error, tuple, number>>

problem == <<kind, identities, evaluations>>
control == <<phase, rowT, tt, cyclic, chunk, row, stop, done, index, errors>>
vars == <<problem, control>>

Index == DOMAIN identities

Init ==
  /\ \E p \in Problems : /\ kind = p.kind
                         /\ identities = p.identities
                         /\ evaluations = p.columns
  /\ phase = "T"
  /\ rowT = [i \in Index |-> 0]
  /\ tt = [i \in Index |-> <<>>]
  /\ cyclic = [i \in Index |-> NewCyclic]
  /\ chunk = [i \in Index |-> 0]
  /\ row = [i \in Index |-> 0]
  /\ stop = [i \in Index |-> FALSE]
  /\ done = 0
  /\ index = 1
  /\ errors = {}
-----------------------------------------------------------------------------
(***************************************************************************)
(* The value of a selector: that of expression 0 when there is none.       *)
(***************************************************************************)
SelValue(sel, w) == evaluations[IF sel = NONE THEN 0 ELSE sel][w]
Selected(sel, w) == sel = NONE \/ SelValue(sel, w) # 0

(***************************************************************************)
(* valuesToBinString: the selector's value, then the values of the columns.*)
(***************************************************************************)
Tuple(sel, xs, w) == <<SelValue(sel, w)>> \o [k \in DOMAIN xs |-> evaluations[xs[k]][w]]

TupleT(i, w) == Tuple(identities[i].selT, identities[i].t, w)
TupleF(i, w) == Tuple(identities[i].selF, identities[i].f, w)

(***************************************************************************)
(* The table with one more v: the map of permutations, and the set of      *)
(* plookups, which is its domain.                                          *)
(***************************************************************************)
Inserted(table, v) ==
  [u \in DOMAIN table \cup {v} |->
     IF u # v THEN table[u] ELSE IF v \in DOMAIN table THEN table[v] + 1 ELSE 1]

(***************************************************************************)
(* prepareT, one row of identity i; a plookup also tells its Cyclic.       *)
(***************************************************************************)
PrepareRow(i) ==
  /\ phase = "T" /\ rowT[i] < N
  /\ tt' = IF Selected(identities[i].selT, rowT[i])
           THEN [tt EXCEPT ![i] = Inserted(tt[i], TupleT(i, rowT[i]))]
           ELSE tt
  /\ cyclic' = IF Selected(identities[i].selT, rowT[i]) /\ kind = "plookup"
               THEN [cyclic EXCEPT ![i] = Cycle(cyclic[i], rowT[i])]
               ELSE cyclic
  /\ rowT' = [rowT EXCEPT ![i] = @ + 1]
  /\ UNCHANGED <<problem, phase, chunk, row, stop, done, index, errors>>

JoinT ==
  /\ phase = "T" /\ \A i \in Index : rowT[i] = N
  /\ phase' = "F"
  /\ UNCHANGED <<problem, rowT, tt, cyclic, chunk, row, stop, done, index, errors>>
-----------------------------------------------------------------------------
(***************************************************************************)
(* The rows of a chunk are ChunkStart .. ChunkEnd - 1; the last chunk has  *)
(* the remainder too.                                                      *)
(***************************************************************************)
ChunkStart(k) == (N \div Chunks) * k

\* A seeded fault of ChunkEnd: no chunk has the remainder.
ChunkEndEven(k) == ChunkStart(k) + (N \div Chunks)

ChunkEnd(k) == IF k = Chunks - 1 THEN N ELSE ChunkStart(k) + (N \div Chunks)

(***************************************************************************)
(* The check of a tuple, when it fails: the error that is printed.         *)
(***************************************************************************)
Failure(i, v) ==
  IF v \notin DOMAIN tt[i] THEN "notFound"
  ELSE IF kind = "permutation" /\ tt[i][v] = 0 THEN "notEnought" ELSE "none"

InChunk(i) == phase = "F" /\ chunk[i] < Chunks /\ ~stop[i] /\ row[i] < ChunkEnd(chunk[i])

SkipRow(i) ==
  /\ InChunk(i) /\ ~Selected(identities[i].selF, row[i])
  /\ row' = [row EXCEPT ![i] = @ + 1]
  /\ UNCHANGED <<problem, phase, rowT, tt, cyclic, chunk, stop, done, index, errors>>

(***************************************************************************)
(* A tuple is found; a permutation uses it up.                             *)
(***************************************************************************)
FindRow(i) ==
  /\ InChunk(i) /\ Selected(identities[i].selF, row[i])
  /\ LET v == TupleF(i, row[i])
     IN /\ Failure(i, v) = "none"
        /\ tt' = IF kind = "permutation"
                 THEN [tt EXCEPT ![i] = [tt[i] EXCEPT ![v] = tt[i][v] - 1]]
                 ELSE tt
  /\ row' = [row EXCEPT ![i] = @ + 1]
  /\ UNCHANGED <<problem, phase, rowT, cyclic, chunk, stop, done, index, errors>>

\* A seeded fault of FailRow: the loop goes on.
FailAndGoOn(i) ==
  /\ InChunk(i) /\ Selected(identities[i].selF, row[i])
  /\ LET v == TupleF(i, row[i])
     IN /\ Failure(i, v) # "none"
        /\ errors' = errors \cup {<<i, Failure(i, v), v, row[i]>>}
  /\ row' = [row EXCEPT ![i] = @ + 1]
  /\ UNCHANGED <<problem, phase, rowT, tt, cyclic, chunk, stop, done, index>>

(***************************************************************************)
(* A tuple is not found: the error is printed and the loops are left.      *)
(***************************************************************************)
FailRow(i) ==
  /\ InChunk(i) /\ Selected(identities[i].selF, row[i])
  /\ LET v == TupleF(i, row[i])
     IN /\ Failure(i, v) # "none"
        /\ errors' = errors \cup {<<i, Failure(i, v), v, row[i]>>}
  /\ stop' = [stop EXCEPT ![i] = TRUE]
  /\ UNCHANGED <<problem, phase, rowT, tt, cyclic, chunk, row, done, index>>

\* A seeded fault of EndChunk: after a failure the rows left are not counted.
EndChunkShort(i) ==
  /\ phase = "F" /\ chunk[i] < Chunks
  /\ stop[i] \/ row[i] = ChunkEnd(chunk[i])
  /\ done' = done + ChunkEnd(chunk[i]) - ChunkStart(chunk[i])
  /\ chunk' = [chunk EXCEPT ![i] = IF stop[i] THEN Chunks ELSE @ + 1]
  /\ UNCHANGED <<problem, phase, rowT, tt, cyclic, row, stop, index, errors>>

(***************************************************************************)
(* The end of a chunk, or of all of them after a failure: updatePercentF,  *)
(* a critical section, counts its rows.                                    *)
(***************************************************************************)
EndChunk(i) ==
  /\ phase = "F" /\ chunk[i] < Chunks
  /\ stop[i] \/ row[i] = ChunkEnd(chunk[i])
  /\ done' = done + (IF stop[i] THEN N ELSE ChunkEnd(chunk[i])) - ChunkStart(chunk[i])
  /\ chunk' = [chunk EXCEPT ![i] = IF stop[i] THEN Chunks ELSE @ + 1]
  /\ UNCHANGED <<problem, phase, rowT, tt, cyclic, row, stop, index, errors>>

JoinF ==
  /\ phase = "F" /\ \A i \in Index : chunk[i] = Chunks
  /\ phase' = IF kind = "permutation" THEN "remaining" ELSE "end"
  /\ UNCHANGED <<problem, rowT, tt, cyclic, chunk, row, stop, done, index, errors>>
-----------------------------------------------------------------------------
\* A seeded fault of Remaining: an identity that has failed is passed over.
RemainingUnlessStopped(i) == { v \in DOMAIN tt[i] : tt[i][v] > 0 /\ ~stop[i] }

(***************************************************************************)
(* checkPermutationIdentities, when the F side is done: what is left of    *)
(* the T side, the first tuple in the order of the map.                    *)
(***************************************************************************)
Remaining(i) == { v \in DOMAIN tt[i] : tt[i][v] > 0 }

ReportRemaining ==
  /\ phase = "remaining" /\ index <= Len(identities)
  /\ \E v \in Remaining(index) :
       errors' = errors \cup {<<index, "remainingValues", v, tt[index][v]>>}
  /\ index' = index + 1
  /\ UNCHANGED <<problem, phase, rowT, tt, cyclic, chunk, row, stop, done>>

NoneRemaining ==
  /\ phase = "remaining" /\ index <= Len(identities)
  /\ Remaining(index) = {}
  /\ index' = index + 1
  /\ UNCHANGED <<problem, phase, rowT, tt, cyclic, chunk, row, stop, done, errors>>

Finish ==
  /\ phase = "remaining" /\ index > Len(identities)
  /\ phase' = "end"
  /\ UNCHANGED <<problem, rowT, tt, cyclic, chunk, row, stop, done, index, errors>>

Stop == phase = "end" /\ UNCHANGED vars

IdentityStep(i) == PrepareRow(i) \/ SkipRow(i) \/ FindRow(i) \/ FailRow(i) \/ EndChunk(i)

Next ==
  \/ \E i \in Index : IdentityStep(i)
  \/ JoinT \/ JoinF \/ ReportRemaining \/ NoneRemaining \/ Finish \/ Stop

Spec == Init /\ [][Next]_vars
-----------------------------------------------------------------------------
(***************************************************************************)
(* What the identities mean: a selector is a column or the constant 1, and *)
(* the selected rows of the two sides are compared with their selectors.   *)
(***************************************************************************)
Meaning(sel, xs, w) ==
  <<IF sel = NONE THEN 1 ELSE evaluations[sel][w]>> \o [k \in DOMAIN xs |-> evaluations[xs[k]][w]]
RowsF(i, v) == { w \in Rows : Selected(identities[i].selF, w)
                              /\ Meaning(identities[i].selF, identities[i].f, w) = v }
RowsT(i, v) == { w \in Rows : Selected(identities[i].selT, w)
                              /\ Meaning(identities[i].selT, identities[i].t, w) = v }
MeaningsF(i) == { Meaning(identities[i].selF, identities[i].f, w) : w \in Rows }
MeaningsT(i) == { Meaning(identities[i].selT, identities[i].t, w) : w \in Rows }

Holds(i) ==
  IF kind = "plookup"
  THEN \A v \in MeaningsF(i) : RowsF(i, v) # {} => RowsT(i, v) # {}
  ELSE \A v \in MeaningsF(i) \cup MeaningsT(i) : Cardinality(RowsF(i, v)) = Cardinality(RowsT(i, v))

Reported(i) == \E e \in errors : e[1] = i

(***************************************************************************)
(* The verdict on an identity is right when the value that stands in for a *)
(* missing selector is 1: an error is reported exactly if the identity     *)
(* does not hold, in any interleaving of the identities.                   *)
(***************************************************************************)
HasSelectors(i) == identities[i].selF # NONE /\ identities[i].selT # NONE
FirstIsOne == \A w \in Rows : evaluations[0][w] = 1

VerdictExact ==
  phase = "end" => \A i \in Index : HasSelectors(i) \/ FirstIsOne => (Reported(i) <=> ~Holds(i))

(***************************************************************************)
(* The row of a "not found" error is the first of the F side that has no   *)
(* row on the T side, and no identity has two errors of verifyF.           *)
(***************************************************************************)
FirstFailure ==
  \A e \in errors : e[2] = "notFound" =>
    /\ \A w \in Rows : Selected(identities[e[1]].selT, w) => TupleT(e[1], w) # e[3]
    /\ \A u \in 0 .. e[4] - 1 : Selected(identities[e[1]].selF, u) =>
         \E w \in Rows : /\ Selected(identities[e[1]].selT, w)
                         /\ TupleT(e[1], w) = TupleF(e[1], u)
    /\ \A d \in errors : d[1] = e[1] /\ d[2] \in {"notFound", "notEnought"} => d = e

(***************************************************************************)
(* A permutation error says how multisets differ, and none is kept back.   *)
(* "Not enough" is printed only when F has more of the tuple than T has,   *)
(* and only after F has used up all that T has.  "Remaining" gives what T  *)
(* has more than the rows of F that were looked up: all of them, or those  *)
(* before the row at which a failure left the loops; and it is printed for *)
(* an identity whenever T has more of some tuple than was looked up.       *)
(***************************************************************************)
CountF(i, v) == Cardinality({ w \in Rows : Selected(identities[i].selF, w) /\ TupleF(i, w) = v })
CountT(i, v) == Cardinality({ w \in Rows : Selected(identities[i].selT, w) /\ TupleT(i, w) = v })

LookedUp(i, w) == \A e \in errors : e[1] = i /\ e[2] # "remainingValues" => w < e[4]
CountUsed(i, v) ==
  Cardinality({ w \in Rows : Selected(identities[i].selF, w) /\ TupleF(i, w) = v /\ LookedUp(i, w) })

ErrorsCount ==
  /\ \A e \in errors :
       /\ e[2] = "notEnought" => /\ CountF(e[1], e[3]) > CountT(e[1], e[3]) /\ CountT(e[1], e[3]) > 0
                                /\ CountUsed(e[1], e[3]) = CountT(e[1], e[3])
       /\ e[2] = "remainingValues" => e[4] > 0 /\ CountT(e[1], e[3]) = CountUsed(e[1], e[3]) + e[4]
  /\ phase = "end" /\ kind = "permutation" =>
       \A i \in Index : \A u \in Rows :
         CountT(i, TupleT(i, u)) > CountUsed(i, TupleT(i, u)) =>
           \E e \in errors : e[1] = i /\ e[2] = "remainingValues"

(***************************************************************************)
(* The progress of verifyF never exceeds 100%, and ends there, also when   *)
(* identities are left early.                                              *)
(***************************************************************************)
ProgressComplete ==
  /\ done <= N * Len(identities)
  /\ phase \in {"remaining", "end"} => done = N * Len(identities)

(***************************************************************************)
(* The table prints "(none)" for a missing selector: such an identity is   *)
(* about its columns only.                                                 *)
(***************************************************************************)
UnselectedMeansColumns == phase = "end" => \A i \in Index : Reported(i) <=> ~Holds(i)

(***************************************************************************)
(* The note of a plookup in the printed table.  Without row 0, which cycle *)
(* cannot tell from "no row yet", the rows are called cyclic exactly when  *)
(* they are three or more and equally spaced, and with their first row and *)
(* their distance; and full-cyclic only if that goes on around the last.   *)
(***************************************************************************)
Seen(i) == { w \in 1 .. rowT[i] - 1 : Selected(identities[i].selT, w) }

CyclicExact ==
  kind = "plookup" => \A i \in Index :
    LET c == cyclic[i]
    IN /\ isCyclic(c) <=> Cardinality(Seen(i)) >= 3 /\ \E d \in Rows \ {0} : Spaced(Seen(i), d)
       /\ isCyclic(c) => IsFirst(c.offset, Seen(i)) /\ Spaced(Seen(i), c.period)
       /\ rowT[i] = N /\ isFullCyclic(c, N) =>
            \A a \in Seen(i) : (a + c.period) % N \in Seen(i)
=============================================================================
