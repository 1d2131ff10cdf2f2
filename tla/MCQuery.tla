------------------------------ MODULE MCQuery ------------------------------
(***************************************************************************)
(* Four rows: a constant c, a commitment a and an array p of two, an       *)
(* intermediate column b.  Worker 1 gets queries from every row, with      *)
(* triggers, filters, rows before and skips, in every form of display, and *)
(* patterns and names that are wrong; worker 2 gets those with a value     *)
(* that is no number, or an element beyond the end of an array.            *)
(***************************************************************************)
EXTENDS Query, TLC

MCNames == <<"a", "b", "c", "p">>
Column(t, i, l) == [type |-> t, id |-> i, len |-> l]
MCPilReferences ==
  "a" :> Column("cmP", 0, 1) @@ "b" :> Column("imP", 0, 1) @@
  "c" :> Column("constP", 0, 1) @@ "p" :> Column("cmP", 1, 2)

Rows(s) == [x \in 0 .. N - 1 |-> s[x + 1]]
MCColumnValue ==
  "cmP" :> (0 :> Rows(<<0, 1, 1, 1>>) @@ 1 :> Rows(<<1, 1, 0, 1>>) @@ 2 :> Rows(<<0, 0, 1, 1>>)) @@
  "constP" :> (0 :> Rows(<<1, 0, 0, 1>>)) @@
  "imP" :> (0 :> Rows(<<0, 0, 1, 0>>))

Public(t, i, x) == [polType |-> t, polId |-> i, idx |-> x]
MCPilPublics == << Public("cmP", 1, 2), Public("imP", 0, 3), Public("imP", 0, 1) >>
MCPublicsFile == <<NULL, 2, NULL>>

-----------------------------------------------------------------------------
Is(x, i, v) == [name |-> x, index |-> i, value |-> v]
Element(x, i) == [name |-> x, index |-> i]
Plain ==
  [from |-> 0, count |-> 2, before |-> 0, skip |-> 0, trigger |-> NULL, filter |-> <<>>,
   name |-> <<{Element("a", 0)}>>, compact |-> TRUE, nozeros |-> FALSE, changes |-> FALSE,
   export |-> FALSE]

Cursors ==
  { r \in { [Plain EXCEPT !.from = f, !.before = m, !.trigger = t, !.filter = s] :
              f \in 0 .. N, m \in {0, 2},
              t \in {NULL, Is("b", 0, 1), Is("a", 0, 1)},
              s \in { <<>>, <<Is("p", 0, 1), Is("c", 0, 1)>> } } :
    r.trigger = NULL /\ r.filter = <<>> => r.before = 0 }

Displays ==
  { [Plain EXCEPT !.count = 4, !.name = n, !.compact = x, !.nozeros = y, !.changes = z,
                  !.export = y /\ z, !.filter = s] :
      n \in { <<>>, <<{Element("p", 1)}, {Element("a", 0), Element("p", 1)}>> },
      x \in BOOLEAN, y \in BOOLEAN, z \in BOOLEAN,
      s \in { <<>>, <<Is("p", 0, 1)>> } }

Skips == { [Plain EXCEPT !.trigger = Is("b", 0, 1), !.skip = s, !.before = 1] : s \in {-1, 1} }

Unreadable ==
  { [Plain EXCEPT !.name = <<{}, Malformed>>], [Plain EXCEPT !.trigger = Is("z", 0, 1)] }

Others ==
  { [Plain EXCEPT !.filter = <<Is("a", 3, 1), Is("b", 0, Malformed)>>],
    [Plain EXCEPT !.trigger = Is("b", 1, 1)],
    [Plain EXCEPT !.filter = <<Is("c", 0, 2), Is("p", 2, 1)>>, !.name = <<>>] }

MCRequests ==
  [k \in Workers |-> IF k = 1 THEN Cursors \cup Displays \cup Skips \cup Unreadable ELSE Others]
=============================================================================
