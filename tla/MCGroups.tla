------------------------------ MODULE MCGroups ------------------------------
(***************************************************************************)
(* Every acyclic dependency graph of Count expressions with at most two    *)
(* dependencies each, in either order and with any numbering.              *)
(***************************************************************************)
EXTENDS Groups

Lists == {<<>>} \cup {<<y>> : y \in Ids} \cup { s \in Ids \X Ids : s[1] # s[2] }

IsAcyclic(g) ==
  \A S \in SUBSET Ids \ {{}} : \E x \in S : Range(g[x]) \cap S = {}

MCGraphs == { g \in [Ids -> Lists] : IsAcyclic(g) }
=============================================================================
