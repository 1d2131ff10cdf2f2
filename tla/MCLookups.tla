----------------------------- MODULE MCLookups -----------------------------
(***************************************************************************)
(* Instances of Lookups: six rows in four chunks of one row, the last of   *)
(* three.  Expression 0 is a column that no identity mentions.             *)
(***************************************************************************)
EXTENDS Lookups, TLC

Ones == [w \in Rows |-> 1]
Zeros == [w \in Rows |-> 0]
LastRow == [w \in Rows |-> IF w = N - 1 THEN 1 ELSE 0]
Columns01 == {Zeros, LastRow, [w \in Rows |-> w % 2], [w \in Rows |-> (w \div 2) % 2]}

\* selectors: all rows, some, none; and values other than 0 and 1
Selectors == {Ones, [w \in Rows |-> w % 3], LastRow, Zeros}

Identity(sF, f, sT, t) == [selF |-> sF, f |-> f, selT |-> sT, t |-> t]
Selecting == Identity(1, <<2>>, 3, <<4>>)
Plain == Identity(NONE, <<2>>, NONE, <<4>>)
Mixed == Identity(NONE, <<4>>, 3, <<2>>)

Of(k, is, E0, SF, F, ST, T) ==
  { [kind |-> k, identities |-> is, columns |-> <<sf, f, st, t>> @@ (0 :> e0)] :
      e0 \in E0, sf \in SF, f \in F, st \in ST, t \in T }

Kinds == {"plookup", "permutation"}
Pairs == {<<Selecting, Plain>>, <<Mixed, Selecting>>}

\* Two identities, where expression 0 is the constant 1; one, which has
\* selectors, where it is anything; and one T side with every selector of
\* zeros and ones.
SelectedProblems ==
  UNION { Of(k, is, {Ones}, Selectors, Columns01, Selectors, Columns01) : k \in Kinds, is \in Pairs }
  \cup UNION { Of(k, <<Selecting>>, Columns01, {Ones}, [Rows -> 0 .. 1], {Ones}, Columns01) : k \in Kinds }
  \cup Of("plookup", <<Selecting>>, {Ones}, {Zeros}, {Ones}, [Rows -> 0 .. 1], {Ones})

\* expression 0 is anything, no identity has selectors
UnselectedProblems == Of("plookup", <<Plain>>, Columns01, {Ones}, Columns01, {Ones}, Columns01)
=============================================================================
