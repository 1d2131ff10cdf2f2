------------------------------- MODULE Cyclic -------------------------------
(***************************************************************************)
(* Class Cyclic: told the selected rows of the T side of a plookup one by  *)
(* one, in increasing order, it finds out whether they are equally spaced. *)
(* An object is a record of its fields; cycle(w) is an operator on them.   *)
(***************************************************************************)
EXTENDS Naturals

NewCyclic == [state |-> "INIT", offset |-> 0, period |-> 0, last |-> 0]

(***************************************************************************)
(* The early return of cycle(w).                                           *)
(***************************************************************************)
Ignored(c, w) == c.last >= w

FirstRow(c, w) == [c EXCEPT !.state = "OFFSET_SET", !.offset = w]

SecondRow(c, w) == [c EXCEPT !.state = "PERIOD_SET", !.period = w - c.offset]

\* A seeded fault of NextRow: what was cyclic stays so.
NextRowKeeps(c, w) == IF w = c.last + c.period THEN [c EXCEPT !.state = "CYCLIC"] ELSE c

NextRow(c, w) ==
  [c EXCEPT !.state = IF w = c.last + c.period THEN "CYCLIC" ELSE "NO_CYCLIC"]

(***************************************************************************)
(* cycle(w).  Its INVALID state is never entered: the cases are complete.  *)
(***************************************************************************)
Cycle(c, w) ==
  IF Ignored(c, w) THEN c
  ELSE [ (CASE c.state = "INIT" -> FirstRow(c, w)
            [] c.state = "OFFSET_SET" -> SecondRow(c, w)
            [] c.state \in {"PERIOD_SET", "CYCLIC"} -> NextRow(c, w)
            [] c.state = "NO_CYCLIC" -> c) EXCEPT !.last = w ]

(***************************************************************************)
(* isCyclic() and isCyclic(n), which the table prints as "full-cyclic".    *)
(***************************************************************************)
isCyclic(c) == c.state = "CYCLIC"

isFullCyclic(c, n) == isCyclic(c) /\ (c.last + c.period) % n = c.offset
-----------------------------------------------------------------------------
(***************************************************************************)
(* The meaning: equally spaced, with distance d.  Whoever has a later row  *)
(* in the set has one d rows on, and none between.                         *)
(***************************************************************************)
Spaced(R, d) ==
  \A a \in R : (\E b \in R : b > a) =>
    /\ a + d \in R
    /\ \A b \in R : b > a => b >= a + d

IsFirst(r, R) == r \in R /\ \A b \in R : r <= b
=============================================================================
