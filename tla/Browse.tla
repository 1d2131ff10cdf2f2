------------------------------- MODULE Browse -------------------------------
(***************************************************************************)
(* What the query service promises: the answers that a query may get, said *)
(* of the columns and not of the way in which they are searched.  Once it  *)
(* has been asked for an element beyond the end of an array it promises    *)
(* nothing any more, and may die.                                          *)
(***************************************************************************)
EXTENDS Integers, Sequences, FiniteSetsExt, SequencesExt

CONSTANTS
  Workers,
  N,                        \* rows of the columns
  Length,                    \* Length[name]: the number of elements of a column
  Truth,                    \* Truth[name][index][w]
  Listed,                   \* all elements, in the order of the listing
  MaxCount,                 \* the most rows that are shown unless they are exported
  Malformed, Failed, NULL

VARIABLES
  request,   \* what each worker was asked last
  answer,    \* its answer, NULL if there is none yet
  exact      \* something is still promised

vars == <<request, answer, exact>>

Init ==
  /\ request = [k \in Workers |-> NULL]
  /\ answer = [k \in Workers |-> NULL]
  /\ exact = TRUE
-----------------------------------------------------------------------------
Conditions(r) == ToSet(r.filter) \cup IF r.trigger = NULL THEN {} ELSE {r.trigger}
Exists(c) == c.name \in DOMAIN Length
InRange(r) == \A c \in Conditions(r) : Exists(c) => c.index < Length[c.name]

\* A pattern or a value that cannot be read, or a column that does not exist.
Impossible(r) ==
  \/ Malformed \in ToSet(r.name)
  \/ \E c \in Conditions(r) : c.value = Malformed \/ ~Exists(c)

Cell(c, x) == Truth[c.name][c.index][x]
Meets(x, c) == Cell(c, x) = c.value
Matching(r) == { x \in 0 .. N - 1 : \A c \in ToSet(r.filter) : Meets(x, c) }
Limit(r) == IF r.export THEN r.count ELSE Min({r.count, MaxCount})

(***************************************************************************)
(* The row where an answer begins: the one that was asked for, or, with a  *)
(* trigger, so many rows before the first match.  It is not promised when  *)
(* there is no match, or not so many rows before it, or for a skip.        *)
(***************************************************************************)
Triggered(r) == { x \in r.from .. N - 1 : Meets(x, r.trigger) }
HasStart(r) ==
  r.trigger = NULL \/ (r.skip = 0 /\ Triggered(r) # {} /\ Min(Triggered(r)) >= r.before)
StartRow(r) == IF r.trigger = NULL THEN r.from ELSE Min(Triggered(r)) - r.before

(***************************************************************************)
(* The columns that match, each once, those of the first pattern first.    *)
(***************************************************************************)
Selected(r) ==
  IF r.name = <<>> THEN ToSet(Listed) ELSE ToSet(Listed) \cap UNION ToSet(r.name)

\* The first pattern that a column matches, and its place in the listing.
Place(r, c) ==
  << IF r.name = <<>> THEN 0 ELSE Min({ i \in DOMAIN r.name : c \in r.name[i] }),
     CHOOSE j \in DOMAIN Listed : Listed[j] = c >>

Before(p, q) == p[1] < q[1] \/ (p[1] = q[1] /\ p[2] < q[2])

TitlesRight(r, a) ==
  /\ ToSet(a.titles) = Selected(r)
  /\ \A i, j \in DOMAIN a.titles : i < j => Before(Place(r, a.titles[i]), Place(r, a.titles[j]))

(***************************************************************************)
(* The cells that are shown are true, and are those that should be.        *)
(***************************************************************************)
Hidden(r, a, i, c) ==
  /\ ~r.compact
  /\ \/ r.nozeros /\ Cell(c, a.rows[i].w) = 0
     \/ r.changes /\ i > 1 /\ Cell(c, a.rows[i].w) = Cell(c, a.rows[i - 1].w)

RowsTrue(r, a) ==
  \A i \in DOMAIN a.rows :
    /\ a.rows[i].w \in 0 .. N - 1
    /\ DOMAIN a.rows[i].cells = { c \in Selected(r) : ~Hidden(r, a, i, c) }
    /\ \A c \in DOMAIN a.rows[i].cells : a.rows[i].cells[c] = Cell(c, a.rows[i].w)

(***************************************************************************)
(* Without a filter the rows follow each other from the start, and with    *)
(* one they are the first that match, ascending; none is missing before    *)
(* the limit.  (Rows before a match of the filter are not promised: see    *)
(* the query itself.)                                                      *)
(***************************************************************************)
RowsComplete(r, a) ==
  LET wanted == { x \in (IF r.filter = <<>> THEN 0 .. N - 1 ELSE Matching(r)) : x >= StartRow(r) }
      shown == { a.rows[i].w : i \in DOMAIN a.rows }
  IN HasStart(r) /\ (r.filter = <<>> \/ r.before = 0) =>
       /\ Len(a.rows) = Min({Limit(r), Cardinality(wanted)})
       /\ shown \subseteq wanted
       /\ \A x \in wanted : (\E y \in shown : x < y) => x \in shown

Ascending(r, a) ==
  r.filter = <<>> \/ r.before = 0 =>
    \A i, j \in DOMAIN a.rows : i < j => a.rows[i].w < a.rows[j].w

Right(r, a) ==
  IF Impossible(r) THEN a = Failed
  ELSE /\ a # Failed
       /\ TitlesRight(r, a) /\ RowsTrue(r, a) /\ RowsComplete(r, a) /\ Ascending(r, a)
       /\ Len(a.rows) <= Limit(r)
-----------------------------------------------------------------------------
Ask(k) ==
  /\ request[k] = NULL /\ request'[k] # NULL
  /\ UNCHANGED <<answer, exact>>

Reply(k) ==
  /\ request[k] # NULL /\ answer[k] = NULL /\ answer'[k] # NULL
  /\ exact /\ InRange(request[k]) => Right(request[k], answer'[k])
  /\ InRange(request[k]) => UNCHANGED exact
  /\ UNCHANGED request

Spoil(k) ==
  /\ request[k] # NULL /\ answer[k] = NULL /\ ~InRange(request[k])
  /\ UNCHANGED <<request, answer>>

\* The client has taken the answer.
Take(k) ==
  /\ answer[k] # NULL
  /\ request'[k] = NULL /\ answer'[k] = NULL
  /\ UNCHANGED exact

Next ==
  \E k \in Workers :
    /\ Ask(k) \/ Reply(k) \/ Spoil(k) \/ Take(k)
    /\ \A j \in Workers \ {k} : request'[j] = request[j] /\ answer'[j] = answer[j]
    /\ exact' => exact

Spec == Init /\ [][Next]_vars
=============================================================================
