--------------------------- MODULE Groups_proofs ---------------------------
(***************************************************************************)
(* Proofs about module Groups: for every number of expressions and of      *)
(* cpus and every dependency graph, the groups are closed under            *)
(* dependencies, no larger than that needs, and each goes to one cpu.      *)
(***************************************************************************)
EXTENDS Groups, SequenceTheorems, FiniteSetTheorems, TLAPS

(***************************************************************************)
(* An expression gets its group after its dependencies.                    *)
(***************************************************************************)
ClosedSoFar ==
  \A x \in Ids : group[x] # GROUP_NONE =>
    \A k \in DOMAIN deps[x] : group[deps[x][k]] = group[x]

(***************************************************************************)
(* What a call has passed is in the current group or is the call that it   *)
(* waits for; the expressions of the active calls are in no earlier group. *)
(***************************************************************************)
PassedSoFar ==
  \A i \in DOMAIN calls :
    /\ \A j \in DOMAIN deps[calls[i].id] : j < calls[i].idep =>
         \/ group[deps[calls[i].id][j]] = gid
         \/ i < Len(calls) /\ calls[i + 1].id = deps[calls[i].id][j]
    /\ group[calls[i].id] \in {GROUP_NONE, gid}

RootsOK ==
  /\ \A x \in Ids : x < id => group[x] # GROUP_NONE
  /\ calls # <<>> => calls[1].id = id
  /\ calls = <<>> => \A x \in Ids : group[x] # gid
  /\ phase # "set" => calls = <<>> /\ id = Count

Closed(S) == \A x \in Ids : \A k \in DOMAIN deps[x] : deps[x][k] \in S <=> x \in S

(***************************************************************************)
(* The calls and the group they make are on the side of the root.          *)
(***************************************************************************)
OneSide ==
  \A S \in SUBSET Ids : Closed(S) =>
    /\ \A i \in DOMAIN calls : calls[i].id \in S <=> id \in S
    /\ calls # <<>> => \A x \in Ids : group[x] = gid => (x \in S <=> id \in S)

SetInv == TypeOK /\ ClosedSoFar /\ PassedSoFar /\ RootsOK /\ OneSide /\ GroupsMinimal

(***************************************************************************)
(* The groups dealt out so far are those before the iterator, each once.   *)
(***************************************************************************)
SortedOK ==
  /\ phase = "set" => it = 1 /\ icpu = 0 /\ bySize = <<>> /\ \A c \in CpuIds : cpuGroups[c] = <<>>
  /\ phase # "set" => Range(bySize) = Range(group)
  /\ phase = "done" => it > Len(bySize)
  /\ \A i, j \in DOMAIN bySize : bySize[i] = bySize[j] => i = j

DealtOK ==
  /\ \A c \in CpuIds : \A g \in Range(cpuGroups[c]) :
       \E m \in DOMAIN bySize : m < it /\ bySize[m] = g
  /\ \A m \in DOMAIN bySize : m < it => \E c \in CpuIds : bySize[m] \in Range(cpuGroups[c])
  /\ \A c, d \in CpuIds : Range(cpuGroups[c]) \cap Range(cpuGroups[d]) # {} => c = d

(***************************************************************************)
(* In the first round the cpus before icpu have one group and the others   *)
(* none; afterwards all have some.                                         *)
(***************************************************************************)
RoundOK ==
  \/ \A c \in CpuIds : cpuGroups[c] # <<>>
  \/ \A c \in CpuIds : /\ Len(cpuGroups[c]) <= 1
                       /\ c < icpu => cpuGroups[c] # <<>>
                       /\ c >= icpu => cpuGroups[c] = <<>>

DealInv == SortedOK /\ DealtOK /\ RoundOK
-----------------------------------------------------------------------------
(***************************************************************************)
(* The dependencies of an expression.                                      *)
(***************************************************************************)
LEMMA DepFacts ==
  ASSUME TypeOK, NEW x \in Ids
  PROVE  /\ deps[x] \in Seq(Ids)
         /\ Len(deps[x]) \in Nat
         /\ DOMAIN deps[x] = 1 .. Len(deps[x])
         /\ \A k \in DOMAIN deps[x] : deps[x][k] \in Ids
<1>1. deps[x] \in Seq(Ids)
  BY GroupsAssumption DEF TypeOK
<1> QED
  BY <1>1, LenProperties, ElementOfSeq

(***************************************************************************)
(* The innermost frame, when there is one.                                 *)
(***************************************************************************)
LEMMA TopFacts ==
  ASSUME TypeOK, calls # <<>>
  PROVE  /\ Len(calls) \in Nat \ {0}
         /\ DOMAIN calls = 1 .. Len(calls)
         /\ \A i \in DOMAIN calls : calls[i] \in Frames /\ calls[i].id \in Ids
         /\ Top \in Frames /\ Top.id \in Ids /\ Top.idep \in Nat \ {0}
         /\ Top = calls[Len(calls)]
<1>1. calls \in Seq(Frames)
  BY DEF TypeOK
<1>2. Len(calls) \in Nat /\ DOMAIN calls = 1 .. Len(calls) /\ Len(calls) # 0
  BY <1>1, LenProperties, EmptySeq
<1>3. \A i \in DOMAIN calls : calls[i] \in Frames
  BY <1>1, <1>2, ElementOfSeq
<1> QED
  BY <1>2, <1>3 DEF Frames, Top

LEMMA DependencyFacts ==
  ASSUME TypeOK, HasDependency
  PROVE  /\ calls # <<>>
         /\ Top.idep \in DOMAIN deps[Top.id]
         /\ Dependency = deps[Top.id][Top.idep]
         /\ Dependency \in Ids
<1>1. calls # <<>> /\ Top.idep <= Len(deps[Top.id])
  BY DEF HasDependency
<1>2. Top.idep \in DOMAIN deps[Top.id]
  BY <1>1, TopFacts, DepFacts
<1> QED
  BY <1>1, <1>2, TopFacts, DepFacts DEF Dependency

(***************************************************************************)
(* The frame after a dependency has been passed.                           *)
(***************************************************************************)
LEMMA AdvancedFacts ==
  ASSUME TypeOK, calls # <<>>
  PROVE  /\ Advanced \in Seq(Frames)
         /\ Len(Advanced) = Len(calls)
         /\ DOMAIN Advanced = DOMAIN calls
         /\ \A i \in DOMAIN calls :
              /\ Advanced[i].id = calls[i].id
              /\ Advanced[i].idep = IF i = Len(calls) THEN Top.idep + 1 ELSE calls[i].idep
         /\ Advanced # <<>>
<1> DEFINE f == [Top EXCEPT !.idep = @ + 1]
<1>1. f \in Frames /\ f.id = Top.id /\ f.idep = Top.idep + 1
  BY TopFacts DEF Frames
<1>2. Advanced = [calls EXCEPT ![Len(calls)] = f]
  BY DEF Advanced
<1> HIDE DEF f
<1>3. calls \in Seq(Frames) /\ Len(calls) \in 1 .. Len(calls) /\ DOMAIN calls = 1 .. Len(calls)
  BY TopFacts DEF TypeOK
<1>4. /\ Advanced \in Seq(Frames)
      /\ Len(Advanced) = Len(calls)
      /\ \A i \in 1 .. Len(calls) : Advanced[i] = IF i = Len(calls) THEN f ELSE calls[i]
  BY <1>1, <1>2, <1>3, ExceptSeq
<1>5. DOMAIN Advanced = DOMAIN calls
  BY <1>3, <1>4, LenProperties
<1>6. \A i \in DOMAIN calls :
        /\ Advanced[i].id = calls[i].id
        /\ Advanced[i].idep = IF i = Len(calls) THEN Top.idep + 1 ELSE calls[i].idep
  BY <1>1, <1>3, <1>4, TopFacts
<1>7. Advanced # <<>>
  BY <1>3, <1>4, EmptySeq
<1> QED
  BY <1>4, <1>5, <1>6, <1>7

LEMMA Push ==
  ASSUME NEW S, NEW s \in Seq(S), NEW f \in S
  PROVE  /\ Append(s, f) \in Seq(S)
         /\ Len(s) \in Nat
         /\ Len(Append(s, f)) = Len(s) + 1
         /\ DOMAIN s = 1 .. Len(s)
         /\ DOMAIN Append(s, f) = 1 .. Len(s) + 1
         /\ \A i \in DOMAIN s : Append(s, f)[i] = s[i]
         /\ Append(s, f)[Len(s) + 1] = f
         /\ Append(s, f) # <<>>
         /\ Range(Append(s, f)) = Range(s) \cup {f}
<1>1. /\ Append(s, f) \in Seq(S)
      /\ Len(s) \in Nat
      /\ Len(Append(s, f)) = Len(s) + 1
      /\ DOMAIN s = 1 .. Len(s)
      /\ DOMAIN Append(s, f) = 1 .. Len(s) + 1
      /\ \A i \in 1 .. Len(s) : Append(s, f)[i] = s[i]
      /\ Append(s, f)[Len(s) + 1] = f
      /\ Append(s, f) # <<>>
  BY AppendProperties, LenProperties
<1>2. Range(Append(s, f)) = Range(s) \cup {f}
  BY <1>1 DEF Range
<1> QED
  BY <1>1, <1>2

LEMMA Pop ==
  ASSUME TypeOK, calls # <<>>, calls' = SubSeq(calls, 1, Len(calls) - 1)
  PROVE  /\ calls' \in Seq(Frames)
         /\ Len(calls') = Len(calls) - 1
         /\ DOMAIN calls' = 1 .. Len(calls) - 1
         /\ \A i \in DOMAIN calls' : i \in DOMAIN calls /\ calls'[i] = calls[i]
         /\ calls' = <<>> <=> Len(calls) = 1
<1>1. calls \in Seq(Frames) /\ Len(calls) \in Nat \ {0} /\ DOMAIN calls = 1 .. Len(calls)
  BY TopFacts DEF TypeOK
<1>2. \A i \in 1 .. Len(calls) - 1 : calls[i] \in Frames
  BY <1>1, ElementOfSeq
<1>3. /\ calls' \in Seq(Frames)
      /\ Len(calls') = Len(calls) - 1
      /\ \A i \in 1 .. Len(calls) - 1 : calls'[i] = calls[i]
  <2>1. 1 \in Int /\ Len(calls) - 1 \in Int
    BY <1>1
  <2> QED
    BY <1>1, <1>2, <2>1, SubSeqProperties
<1>4. DOMAIN calls' = 1 .. Len(calls) - 1
  BY <1>3, LenProperties
<1>5. calls' = <<>> <=> Len(calls) = 1
  <2>1. \A s \in Seq(Frames) : s = <<>> <=> Len(s) = 0
    BY EmptySeq
  <2>2. Len(calls') = 0 <=> Len(calls) = 1
    BY <1>1, <1>3
  <2> QED
    BY <1>3, <2>1, <2>2
<1> QED
  BY <1>1, <1>3, <1>4, <1>5

(***************************************************************************)
(* The group numbers in use are finitely many.                             *)
(***************************************************************************)
LEMMA GroupRange ==
  ASSUME SetInv, calls = <<>>, id = Count
  PROVE  /\ Range(group) \subseteq Nat
         /\ IsFiniteSet(Range(group))
         /\ Cardinality(Range(group)) \in Nat
<1>1. \A x \in Ids : group[x] \in 0 .. gid
  BY CountAssumption DEF SetInv, RootsOK, TypeOK, Ids
<1>2. Range(group) \subseteq 0 .. gid /\ gid \in Nat
  BY <1>1, CountAssumption DEF SetInv, TypeOK, Range
<1>3. IsFiniteSet(0 .. gid)
  BY <1>2, FS_Interval
<1>4. Range(group) \in SUBSET (0 .. gid)
  BY <1>2
<1>5. IsFiniteSet(Range(group))
  BY <1>3, <1>4, FS_Subset
<1>6. Cardinality(Range(group)) \in Nat
  BY <1>5, FS_CardinalityType
<1> QED
  BY <1>2, <1>5, <1>6
-----------------------------------------------------------------------------
(***************************************************************************)
(* The invariants hold initially.                                          *)
(***************************************************************************)
LEMMA InitInv == Init => SetInv /\ DealInv
<1> SUFFICES ASSUME Init PROVE SetInv /\ DealInv
  OBVIOUS
<1>1. calls = <<>> /\ DOMAIN calls = {} /\ bySize = <<>> /\ DOMAIN bySize = {}
  BY DEF Init, Start
<1>2. \A c \in CpuIds : cpuGroups[c] = <<>> /\ Range(cpuGroups[c]) = {} /\ Len(cpuGroups[c]) = 0
  BY DEF Init, Start, Range
<1>3. \A x \in Ids : group[x] = GROUP_NONE
  BY DEF Init, Start
<1>4. TypeOK
  <2>1. cpuGroups \in [CpuIds -> Seq(Nat)]
    BY DEF Init, Start
  <2>2. group \in [Ids -> (0 .. gid) \cup {GROUP_NONE}]
    BY DEF Init, Start
  <2>3. icpu \in CpuIds
    BY GroupsAssumption DEF Init, Start, CpuIds
  <2> QED
    BY <2>1, <2>2, <2>3, CountAssumption DEF Init, Start, TypeOK
<1>5. RootsOK
  BY <1>1, <1>3, CountAssumption, GroupsAssumption DEF Init, Start, RootsOK, Ids
<1>6. ClosedSoFar /\ PassedSoFar /\ OneSide /\ GroupsMinimal
  BY <1>1, <1>3 DEF ClosedSoFar, PassedSoFar, OneSide, GroupsMinimal
<1>7. SortedOK /\ DealtOK
  BY <1>1, <1>2 DEF Init, Start, SortedOK, DealtOK
<1>8. RoundOK
  BY <1>2, GroupsAssumption DEF Init, Start, RoundOK, CpuIds
<1> QED
  BY <1>4, <1>5, <1>6, <1>7, <1>8 DEF SetInv, DealInv

(***************************************************************************)
(* Each action of the first part preserves SetInv.                         *)
(***************************************************************************)
LEMMA SkipRootStep == SetInv /\ SkipRoot => SetInv'
<1> SUFFICES ASSUME SetInv, SkipRoot PROVE SetInv'
  OBVIOUS
<1> USE DEF SkipRoot, AtRoot
<1>1. TypeOK'
  BY CountAssumption DEF SetInv, TypeOK, Ids
<1>2. RootsOK'
  BY CountAssumption DEF SetInv, RootsOK, TypeOK, Ids
<1>3. ClosedSoFar' /\ PassedSoFar' /\ GroupsMinimal'
  BY DEF SetInv, ClosedSoFar, PassedSoFar, GroupsMinimal
<1>4. OneSide'
  BY DEF SetInv, OneSide, Closed
<1> QED
  BY <1>1, <1>2, <1>3, <1>4 DEF SetInv

LEMMA CallRootStep == SetInv /\ CallRoot => SetInv'
<1> SUFFICES ASSUME SetInv, CallRoot PROVE SetInv'
  OBVIOUS
<1> USE DEF CallRoot, AtRoot
<1>1. id \in Ids
  BY CountAssumption DEF SetInv, TypeOK, Ids
<1>2. /\ calls' \in Seq(Frames)
      /\ Len(calls') = 1 /\ DOMAIN calls' = {1}
      /\ calls'[1].id = id /\ calls'[1].idep = 1
      /\ calls' # <<>>
  BY <1>1 DEF Frames
<1>3. TypeOK'
  BY <1>1, <1>2 DEF SetInv, TypeOK
<1>4. RootsOK'
  BY <1>2 DEF SetInv, RootsOK
<1>5. PassedSoFar'
  <2>1. \A j \in DOMAIN deps[id] : ~(j < 1)
    BY <1>1, DepFacts DEF SetInv
  <2> QED
    BY <1>2, <2>1 DEF PassedSoFar
<1>6. ClosedSoFar' /\ GroupsMinimal'
  BY DEF SetInv, ClosedSoFar, GroupsMinimal
<1>7. OneSide'
  BY <1>2 DEF SetInv, OneSide, Closed, RootsOK
<1> QED
  BY <1>3, <1>4, <1>5, <1>6, <1>7 DEF SetInv

LEMMA MergeDependencyStep == SetInv /\ MergeDependency => SetInv'
<1> SUFFICES ASSUME SetInv, MergeDependency PROVE SetInv'
  OBVIOUS
<1> DEFINE d == Dependency
           g == group[d]
<1>1. /\ calls # <<>> /\ d \in Ids /\ d = deps[Top.id][Top.idep]
      /\ Top.idep \in DOMAIN deps[Top.id]
      /\ g \notin {GROUP_NONE, gid}
  BY DependencyFacts DEF SetInv, MergeDependency, InOtherGroup
<1>2. \A x \in Ids : group'[x] = IF group[x] = g THEN gid ELSE group[x]
  BY DEF MergeDependency, MergeGroup
<1>3. calls' = Advanced /\ UNCHANGED <<deps, gid, id, phase, bySize, it, icpu, cpuGroups>>
  BY DEF MergeDependency
<1>4. gid \in Nat /\ gid # GROUP_NONE
  BY CountAssumption, GroupsAssumption DEF SetInv, TypeOK
<1>5. /\ Len(calls) \in Nat \ {0} /\ DOMAIN calls = 1 .. Len(calls)
      /\ \A i \in DOMAIN calls : calls[i].id \in Ids /\ calls[i].idep \in Nat \ {0}
      /\ Top = calls[Len(calls)] /\ Top.id \in Ids
  BY <1>1, TopFacts DEF SetInv, Frames
<1>6. /\ calls' \in Seq(Frames) /\ Len(calls') = Len(calls) /\ DOMAIN calls' = DOMAIN calls
      /\ calls' # <<>>
      /\ \A i \in DOMAIN calls :
           /\ calls'[i].id = calls[i].id
           /\ calls'[i].idep = IF i = Len(calls) THEN Top.idep + 1 ELSE calls[i].idep
  BY <1>1, <1>3, AdvancedFacts DEF SetInv
<1>7. TypeOK'
  <2>1. group' \in [Ids -> (0 .. gid) \cup {GROUP_NONE}]
    BY <1>4 DEF SetInv, TypeOK, MergeDependency, MergeGroup
  <2> QED
    BY <1>1, <1>3, <1>6, <2>1 DEF SetInv, TypeOK
<1>8. ClosedSoFar'
  <2> SUFFICES ASSUME NEW x \in Ids, group'[x] # GROUP_NONE, NEW k \in DOMAIN deps[x]
               PROVE  group'[deps[x][k]] = group'[x]
    BY <1>3 DEF ClosedSoFar
  <2>1. group[x] # GROUP_NONE /\ deps[x][k] \in Ids
    BY <1>1, <1>2, DepFacts DEF SetInv
  <2>2. group[deps[x][k]] = group[x]
    BY <2>1 DEF SetInv, ClosedSoFar
  <2> QED
    BY <1>2, <2>1, <2>2
<1>9. PassedSoFar'
  <2> SUFFICES ASSUME NEW i \in DOMAIN calls
               PROVE  /\ \A j \in DOMAIN deps[calls[i].id] : j < calls'[i].idep =>
                           \/ group'[deps[calls[i].id][j]] = gid
                           \/ i < Len(calls) /\ calls'[i + 1].id = deps[calls[i].id][j]
                      /\ group'[calls[i].id] \in {GROUP_NONE, gid}
    BY <1>3, <1>6 DEF PassedSoFar
  <2>1. group'[calls[i].id] \in {GROUP_NONE, gid}
    BY <1>1, <1>2, <1>5 DEF SetInv, PassedSoFar
  <2>2. ASSUME NEW j \in DOMAIN deps[calls[i].id], j < calls'[i].idep
        PROVE  \/ group'[deps[calls[i].id][j]] = gid
               \/ i < Len(calls) /\ calls'[i + 1].id = deps[calls[i].id][j]
    <3> DEFINE y == deps[calls[i].id][j]
    <3>1. y \in Ids /\ j \in Nat
      BY <1>5, DepFacts DEF SetInv
    <3>2. CASE j < calls[i].idep
      <4>1. group[y] = gid \/ (i < Len(calls) /\ calls[i + 1].id = y)
        BY <3>2 DEF SetInv, PassedSoFar
      <4>2. i < Len(calls) => i + 1 \in DOMAIN calls
        BY <1>5
      <4> QED
        BY <1>2, <1>6, <3>1, <4>1, <4>2
    <3>3. CASE ~(j < calls[i].idep)
      <4>1. i = Len(calls) /\ j = Top.idep
        BY <1>5, <1>6, <2>2, <3>1, <3>3
      <4>2. y = d
        BY <1>1, <1>5, <4>1
      <4> QED
        BY <1>1, <1>2, <4>2
    <3> QED
      BY <3>2, <3>3
  <2> QED
    BY <2>1, <2>2
<1>10. RootsOK'
  <2>1. \A x \in Ids : group[x] # GROUP_NONE => group'[x] # GROUP_NONE
    BY <1>2, <1>4
  <2>2. 1 \in DOMAIN calls
    BY <1>5
  <2> QED
    BY <1>1, <1>3, <1>6, <2>1, <2>2 DEF SetInv, RootsOK
<1>11. ASSUME NEW S \in SUBSET Ids, Closed(S) PROVE \A x \in Ids : group[x] = g => (x \in S <=> id \in S)
  <2>1. \A x \in Ids : group[x] = g => (x \in S <=> d \in S)
    BY <1>1, <1>11 DEF SetInv, GroupsMinimal, Closed
  <2>2. d \in S <=> Top.id \in S
    BY <1>1, <1>5, <1>11 DEF Closed
  <2>3. Top.id \in S <=> id \in S
    BY <1>5, <1>11 DEF SetInv, OneSide
  <2> QED
    BY <2>1, <2>2, <2>3
<1>12. OneSide'
  <2> SUFFICES ASSUME NEW S \in SUBSET Ids, Closed(S)
               PROVE  /\ \A i \in DOMAIN calls : calls[i].id \in S <=> id \in S
                      /\ \A x \in Ids : group'[x] = gid => (x \in S <=> id \in S)
    BY <1>3, <1>6 DEF OneSide, Closed
  <2>1. \A x \in Ids : group[x] = gid => (x \in S <=> id \in S)
    BY <1>1 DEF SetInv, OneSide
  <2> QED
    BY <1>2, <1>11, <2>1 DEF SetInv, OneSide
<1>13. GroupsMinimal'
  <2> SUFFICES ASSUME NEW S \in SUBSET Ids, Closed(S), NEW x \in Ids, NEW y \in Ids,
                      group'[x] # GROUP_NONE, group'[x] = group'[y]
               PROVE  x \in S <=> y \in S
    BY <1>3 DEF GroupsMinimal, Closed
  <2>1. \A u \in Ids : group'[u] = gid => (u \in S <=> id \in S)
    BY <1>1, <1>2, <1>11 DEF SetInv, OneSide
  <2>2. CASE group'[x] = gid
    BY <2>1, <2>2
  <2>3. CASE group'[x] # gid
    <3>1. group[x] = group'[x] /\ group[y] = group'[y]
      BY <1>2, <2>3
    <3> QED
      BY <3>1 DEF SetInv, GroupsMinimal, Closed
  <2> QED
    BY <2>2, <2>3
<1> QED
  BY <1>7, <1>8, <1>9, <1>10, <1>12, <1>13 DEF SetInv

LEMMA DescendDependencyStep == SetInv /\ DescendDependency => SetInv'
<1> SUFFICES ASSUME SetInv, DescendDependency PROVE SetInv'
  OBVIOUS
<1> DEFINE d == Dependency
           n == Len(calls)
<1>1. /\ calls # <<>> /\ d \in Ids /\ d = deps[Top.id][Top.idep]
      /\ Top.idep \in DOMAIN deps[Top.id]
      /\ group[d] \in {GROUP_NONE, gid}
  BY DependencyFacts DEF SetInv, DescendDependency, InOtherGroup
<1>2. /\ calls' = Append(Advanced, [id |-> d, idep |-> 1])
      /\ UNCHANGED <<deps, group, gid, id, phase, bySize, it, icpu, cpuGroups>>
  BY DEF DescendDependency
<1>3. [id |-> d, idep |-> 1] \in Frames
  BY <1>1 DEF Frames
<1>4. /\ n \in Nat \ {0} /\ DOMAIN calls = 1 .. n
      /\ \A i \in DOMAIN calls : calls[i].id \in Ids /\ calls[i].idep \in Nat \ {0}
      /\ Top = calls[n] /\ Top.id \in Ids
  BY <1>1, TopFacts DEF SetInv, Frames
<1>5. /\ Advanced \in Seq(Frames) /\ Len(Advanced) = n /\ DOMAIN Advanced = DOMAIN calls
      /\ \A i \in DOMAIN calls :
           /\ Advanced[i].id = calls[i].id
           /\ Advanced[i].idep = IF i = n THEN Top.idep + 1 ELSE calls[i].idep
  BY <1>1, AdvancedFacts DEF SetInv
<1> HIDE DEF d, n
<1>6. /\ calls' \in Seq(Frames) /\ Len(calls') = n + 1 /\ DOMAIN calls' = 1 .. n + 1
      /\ calls' # <<>>
      /\ calls'[n + 1] = [id |-> d, idep |-> 1]
      /\ \A i \in DOMAIN calls : calls'[i] = Advanced[i]
  BY <1>2, <1>3, <1>5, Push
<1>7. /\ \A i \in DOMAIN calls :
           /\ calls'[i].id = calls[i].id
           /\ calls'[i].idep = IF i = n THEN Top.idep + 1 ELSE calls[i].idep
      /\ calls'[n + 1].id = d /\ calls'[n + 1].idep = 1
  BY <1>5, <1>6
<1>8. TypeOK'
  BY <1>1, <1>2, <1>6 DEF SetInv, TypeOK
<1>9. PassedSoFar'
  <2> SUFFICES ASSUME NEW i \in 1 .. n + 1
               PROVE  /\ \A j \in DOMAIN deps[calls'[i].id] : j < calls'[i].idep =>
                           \/ group[deps[calls'[i].id][j]] = gid
                           \/ i < n + 1 /\ calls'[i + 1].id = deps[calls'[i].id][j]
                      /\ group[calls'[i].id] \in {GROUP_NONE, gid}
    <3>1. group' = group /\ deps' = deps /\ gid' = gid
      BY <1>2
    <3> QED
      BY <1>6, <3>1 DEF PassedSoFar
  <2>1. CASE i = n + 1
    <3>1. \A j \in DOMAIN deps[d] : ~(j < 1)
      BY <1>1, DepFacts DEF SetInv
    <3> QED
      BY <1>1, <1>7, <2>1, <3>1
  <2>2. CASE i \in DOMAIN calls
    <3>1. group[calls[i].id] \in {GROUP_NONE, gid}
      BY <2>2 DEF SetInv, PassedSoFar
    <3>2. ASSUME NEW j \in DOMAIN deps[calls[i].id], j < calls'[i].idep
          PROVE  \/ group[deps[calls[i].id][j]] = gid
                 \/ i < n + 1 /\ calls'[i + 1].id = deps[calls[i].id][j]
      <4> DEFINE y == deps[calls[i].id][j]
      <4>1. j \in Nat
        BY <1>4, <2>2, DepFacts DEF SetInv
      <4>2. CASE j < calls[i].idep
        <5>1. group[y] = gid \/ (i < n /\ calls[i + 1].id = y)
          BY <2>2, <4>2 DEF SetInv, PassedSoFar, n
        <5>2. i < n => i + 1 \in DOMAIN calls /\ i < n + 1
          BY <1>4
        <5> QED
          BY <1>7, <5>1, <5>2
      <4>3. CASE ~(j < calls[i].idep)
        <5>1. i = n /\ j = Top.idep
          BY <1>4, <1>7, <2>2, <3>2, <4>1, <4>3
        <5>2. y = d /\ i < n + 1
          BY <1>1, <1>4, <5>1
        <5> QED
          BY <1>7, <5>1, <5>2
      <4> QED
        BY <4>2, <4>3
    <3> QED
      BY <1>7, <2>2, <3>1, <3>2
  <2> QED
    BY <1>4, <2>1, <2>2
<1>10. RootsOK'
  <2>1. 1 \in DOMAIN calls
    BY <1>4
  <2> QED
    BY <1>1, <1>2, <1>6, <1>7, <2>1 DEF SetInv, RootsOK
<1>11. OneSide'
  <2> SUFFICES ASSUME NEW S \in SUBSET Ids, Closed(S)
               PROVE  /\ \A i \in 1 .. n + 1 : calls'[i].id \in S <=> id \in S
                      /\ \A x \in Ids : group[x] = gid => (x \in S <=> id \in S)
    BY <1>2, <1>6 DEF OneSide, Closed
  <2>1. \A x \in Ids : group[x] = gid => (x \in S <=> id \in S)
    BY <1>1 DEF SetInv, OneSide
  <2>2. \A i \in DOMAIN calls : calls'[i].id \in S <=> id \in S
    BY <1>7 DEF SetInv, OneSide
  <2>3. d \in S <=> Top.id \in S
    BY <1>1, <1>4 DEF Closed
  <2>4. Top.id \in S <=> id \in S
    BY <1>4 DEF SetInv, OneSide
  <2>5. \A i \in 1 .. n + 1 : i \in DOMAIN calls \/ i = n + 1
    BY <1>4
  <2> QED
    BY <1>7, <2>1, <2>2, <2>3, <2>4, <2>5
<1>12. ClosedSoFar' /\ GroupsMinimal'
  BY <1>2 DEF SetInv, ClosedSoFar, GroupsMinimal
<1> QED
  BY <1>8, <1>9, <1>10, <1>11, <1>12 DEF SetInv

LEMMA SetGroupStep == SetInv /\ SetGroup => SetInv'
<1> SUFFICES ASSUME SetInv, SetGroup PROVE SetInv'
  OBVIOUS
<1> DEFINE n == Len(calls)
           t == Top.id
<1>1. calls # <<>> /\ Top.idep > Len(deps[t])
  BY DEF SetGroup
<1>2. /\ n \in Nat \ {0} /\ DOMAIN calls = 1 .. n
      /\ \A i \in DOMAIN calls : calls[i].id \in Ids /\ calls[i].idep \in Nat \ {0}
      /\ t = calls[n].id /\ t \in Ids /\ Top.idep = calls[n].idep
  BY <1>1, TopFacts DEF SetInv, Frames
<1>3. /\ calls' = SubSeq(calls, 1, Len(calls) - 1)
      /\ group' = [group EXCEPT ![t] = gid]
      /\ gid' = IF n = 1 THEN gid + 1 ELSE gid
      /\ id' = IF n = 1 THEN id + 1 ELSE id
      /\ UNCHANGED <<deps, phase, bySize, it, icpu, cpuGroups>>
  BY DEF SetGroup
<1>4. /\ calls' \in Seq(Frames) /\ Len(calls') = n - 1 /\ DOMAIN calls' = 1 .. n - 1
      /\ \A i \in DOMAIN calls' : i \in DOMAIN calls /\ calls'[i] = calls[i]
      /\ calls' = <<>> <=> n = 1
  BY <1>1, <1>3, Pop DEF SetInv
<1> HIDE DEF n, t
<1>5. /\ gid \in Nat /\ gid # GROUP_NONE /\ id \in Nat /\ id < Count /\ gid <= id
      /\ Count \in Nat /\ group \in [Ids -> (0 .. gid) \cup {GROUP_NONE}]
  BY <1>1, CountAssumption, GroupsAssumption DEF SetInv, TypeOK, Ids
<1>6. \A x \in Ids : group'[x] = IF x = t THEN gid ELSE group[x]
  BY <1>2, <1>3, <1>5
<1>7. TypeOK'
  <2>1. group' \in [Ids -> (0 .. gid') \cup {GROUP_NONE}]
    <3>1. gid \in 0 .. gid' /\ 0 .. gid \subseteq 0 .. gid'
      BY <1>3, <1>5
    <3>2. \A x \in Ids : group[x] \in (0 .. gid') \cup {GROUP_NONE}
      BY <1>5, <3>1
    <3> QED
      BY <1>3, <1>5, <3>1, <3>2
  <2>2. gid' \in 0 .. id' /\ id' \in 0 .. Count /\ (calls' # <<>> => id' \in Ids)
    BY <1>3, <1>4, <1>5 DEF Ids
  <2> QED
    BY <1>3, <1>4, <2>1, <2>2 DEF SetInv, TypeOK
<1>8. \A k \in DOMAIN deps[t] : group[deps[t][k]] = gid
  <2> SUFFICES ASSUME NEW k \in DOMAIN deps[t] PROVE group[deps[t][k]] = gid
    OBVIOUS
  <2>1. k < calls[n].idep /\ n \in DOMAIN calls
    BY <1>1, <1>2, DepFacts DEF SetInv
  <2>2. group[deps[t][k]] = gid \/ n < Len(calls)
    BY <1>2, <2>1 DEF SetInv, PassedSoFar
  <2> QED
    BY <1>2, <2>2 DEF n
<1>9. group[t] \in {GROUP_NONE, gid}
  BY <1>2 DEF SetInv, PassedSoFar
<1>10. ClosedSoFar'
  <2> SUFFICES ASSUME NEW x \in Ids, group'[x] # GROUP_NONE, NEW k \in DOMAIN deps[x]
               PROVE  group'[deps[x][k]] = group'[x]
    BY <1>3 DEF ClosedSoFar
  <2>1. deps[x][k] \in Ids
    BY DepFacts DEF SetInv
  <2>2. CASE x = t
    BY <1>6, <1>8, <2>1, <2>2
  <2>3. CASE x # t
    <3>1. group'[x] = group[x] /\ group[deps[x][k]] = group[x]
      BY <1>6, <2>3 DEF SetInv, ClosedSoFar
    <3> QED
      BY <1>6, <1>9, <2>1, <3>1
  <2> QED
    BY <2>2, <2>3
<1>11. PassedSoFar'
  <2> SUFFICES ASSUME NEW i \in 1 .. n - 1
               PROVE  /\ \A j \in DOMAIN deps[calls[i].id] : j < calls[i].idep =>
                           \/ group'[deps[calls[i].id][j]] = gid
                           \/ i < n - 1 /\ calls[i + 1].id = deps[calls[i].id][j]
                      /\ group'[calls[i].id] \in {GROUP_NONE, gid}
    <3>1. 1 .. n - 1 # {} => gid' = gid
      BY <1>2, <1>3
    <3>2. \A i \in 1 .. n - 1 : i < n - 1 => i + 1 \in 1 .. n - 1
      BY <1>2
    <3> QED
      BY <1>3, <1>4, <3>1, <3>2 DEF PassedSoFar
  <2>1. i \in DOMAIN calls /\ i < n
    BY <1>2
  <2>2. group'[calls[i].id] \in {GROUP_NONE, gid}
    BY <1>2, <1>6, <2>1 DEF SetInv, PassedSoFar
  <2>3. ASSUME NEW j \in DOMAIN deps[calls[i].id], j < calls[i].idep
        PROVE  \/ group'[deps[calls[i].id][j]] = gid
               \/ i < n - 1 /\ calls[i + 1].id = deps[calls[i].id][j]
    <3> DEFINE y == deps[calls[i].id][j]
    <3>1. y \in Ids
      BY <1>2, <2>1, DepFacts DEF SetInv
    <3>2. group[y] = gid \/ calls[i + 1].id = y
      BY <2>1, <2>3 DEF SetInv, PassedSoFar
    <3>3. CASE group[y] = gid
      BY <1>6, <3>1, <3>3
    <3>4. CASE calls[i + 1].id = y
      <4>1. i < n - 1 \/ i + 1 = n
        BY <1>2
      <4> QED
        BY <1>2, <1>6, <3>1, <3>4, <4>1
    <3> QED
      BY <3>2, <3>3, <3>4
  <2> QED
    BY <2>2, <2>3
<1>12. RootsOK'
  <2>1. \A x \in Ids : x < id' => group'[x] # GROUP_NONE
    <3>1. \A x \in Ids : x < id => group'[x] # GROUP_NONE
      BY <1>5, <1>6 DEF SetInv, RootsOK
    <3>2. n = 1 => t = id
      BY <1>1, <1>2 DEF SetInv, RootsOK
    <3>3. \A x \in Ids : x < id + 1 => x < id \/ x = id
      BY <1>5 DEF Ids
    <3> QED
      BY <1>3, <1>5, <1>6, <3>1, <3>2, <3>3
  <2>2. calls' # <<>> => 1 \in DOMAIN calls'
    BY <1>2, <1>4
  <2>3. calls' # <<>> => calls'[1].id = id'
    BY <1>1, <1>3, <1>4, <2>2 DEF SetInv, RootsOK
  <2>4. calls' = <<>> => \A x \in Ids : group'[x] # gid'
    <3>1. \A x \in Ids : group'[x] # gid + 1
      <4>1. gid + 1 \notin (0 .. gid) \cup {GROUP_NONE}
        BY <1>5, GroupsAssumption
      <4>2. \A x \in Ids : group'[x] \in (0 .. gid) \cup {GROUP_NONE}
        BY <1>5, <1>6
      <4> QED
        BY <4>1, <4>2
    <3> QED
      BY <1>3, <1>4, <3>1
  <2> QED
    BY <1>1, <1>3, <2>1, <2>3, <2>4 DEF SetInv, RootsOK
<1>13. ASSUME NEW S \in SUBSET Ids, Closed(S)
       PROVE  \A x \in Ids : group'[x] = gid => (x \in S <=> id \in S)
  <2>1. t \in S <=> id \in S
    BY <1>2, <1>13 DEF SetInv, OneSide
  <2> QED
    BY <1>1, <1>6, <1>13, <2>1 DEF SetInv, OneSide
<1>14. OneSide'
  <2> SUFFICES ASSUME NEW S \in SUBSET Ids, Closed(S)
               PROVE  /\ \A i \in DOMAIN calls' : calls'[i].id \in S <=> id' \in S
                      /\ calls' # <<>> => \A x \in Ids : group'[x] = gid' => (x \in S <=> id' \in S)
    BY <1>3 DEF OneSide, Closed
  <2>1. CASE n = 1
    BY <1>4, <2>1
  <2>2. CASE n # 1
    BY <1>3, <1>4, <1>13, <2>2 DEF SetInv, OneSide
  <2> QED
    BY <2>1, <2>2
<1>15. GroupsMinimal'
  <2> SUFFICES ASSUME NEW S \in SUBSET Ids, Closed(S), NEW x \in Ids, NEW y \in Ids,
                      group'[x] # GROUP_NONE, group'[x] = group'[y]
               PROVE  x \in S <=> y \in S
    BY <1>3 DEF GroupsMinimal, Closed
  <2>1. CASE group'[x] = gid
    BY <1>13, <2>1
  <2>2. CASE group'[x] # gid
    <3>1. group[x] = group'[x] /\ group[y] = group'[y]
      BY <1>6, <2>2
    <3> QED
      BY <3>1 DEF SetInv, GroupsMinimal, Closed
  <2> QED
    BY <2>1, <2>2
<1> QED
  BY <1>7, <1>10, <1>11, <1>12, <1>14, <1>15 DEF SetInv

(***************************************************************************)
(* The sorting and the dealing leave the groups alone.                     *)
(***************************************************************************)
LEMMA SetFrame ==
  ASSUME SetInv, TypeOK', UNCHANGED <<deps, group, gid, id, calls>>,
         phase' # "set" => calls = <<>> /\ id = Count
  PROVE  SetInv'
<1>1. ClosedSoFar' /\ PassedSoFar' /\ GroupsMinimal'
  BY DEF SetInv, ClosedSoFar, PassedSoFar, GroupsMinimal
<1>2. OneSide' /\ RootsOK'
  BY DEF SetInv, OneSide, Closed, RootsOK
<1> QED
  BY <1>1, <1>2 DEF SetInv

LEMMA NextCpuType ==
  ASSUME NEW c \in CpuIds
  PROVE  /\ (c + 1) % Cpus \in CpuIds
         /\ c + 1 < Cpus => (c + 1) % Cpus = c + 1
         /\ c + 1 = Cpus => (c + 1) % Cpus = 0
  BY GroupsAssumption DEF CpuIds

LEMMA SortGroupsStep == SetInv /\ DealInv /\ SortGroups => SetInv' /\ DealInv'
<1> SUFFICES ASSUME SetInv, DealInv, SortGroups PROVE SetInv' /\ DealInv'
  OBVIOUS
<1>1. /\ phase = "set" /\ calls = <<>> /\ id = Count /\ phase' = "assign"
      /\ UNCHANGED <<deps, group, gid, id, calls, it, icpu, cpuGroups>>
  BY DEF SortGroups
<1>2. PICK s \in [1 .. Cardinality(Range(group)) -> Range(group)] :
        bySize' = s /\ Range(s) = Range(group) /\ IsSorted(s)
  BY DEF SortGroups
<1> DEFINE n == Cardinality(Range(group))
<1>3. n \in Nat /\ Range(group) \subseteq Nat
  BY <1>1, GroupRange
<1> HIDE DEF n
<1>4. bySize' \in Seq(Nat) /\ DOMAIN bySize' = 1 .. n /\ Len(bySize') = n
  <2>1. s \in [1 .. n -> Nat]
    BY <1>2, <1>3 DEF n
  <2>2. s \in Seq(Nat)
    BY <1>3, <2>1, SeqDef
  <2> QED
    BY <1>2, <1>3, <2>1, <2>2, LenProperties
<1>5. TypeOK'
  BY <1>1, <1>4 DEF SetInv, TypeOK
<1>6. SetInv'
  BY <1>1, <1>5, SetFrame
<1>7. \A g \in Range(group) : GroupSize(g) \in Nat
  <2>1. IsFiniteSet(Ids)
    BY CountAssumption, FS_Interval DEF Ids
  <2>2. \A g \in Range(group) : Members(g) \in SUBSET Ids
    BY DEF Members
  <2>3. \A g \in Range(group) : IsFiniteSet(Members(g))
    BY <2>1, <2>2, FS_Subset
  <2> QED
    BY <2>3, FS_CardinalityType DEF GroupSize
<1>8. ASSUME NEW i \in DOMAIN s, NEW j \in DOMAIN s, i < j PROVE s[i] # s[j]
  <2>1. s[i] \in Range(group) /\ s[i] \in Nat
    BY <1>2, <1>3
  <2>2. \/ GroupSize(s[i]) > GroupSize(s[j])
        \/ s[i] < s[j]
    BY <1>2, <1>8 DEF IsSorted
  <2>3. GroupSize(s[i]) \in Nat
    BY <1>7, <2>1
  <2>4. ~(GroupSize(s[i]) > GroupSize(s[i])) /\ ~(s[i] < s[i])
    BY <2>1, <2>3
  <2> QED
    BY <2>2, <2>4
<1>9. \A i, j \in DOMAIN bySize' : bySize'[i] = bySize'[j] => i = j
  <2>1. DOMAIN s \subseteq Nat
    BY <1>2, <1>4
  <2> QED
    BY <1>2, <1>8, <2>1
<1>10. SortedOK'
  BY <1>1, <1>2, <1>9 DEF SortedOK
<1>11. \A c \in CpuIds : cpuGroups[c] = <<>> /\ Range(cpuGroups[c]) = {}
  BY <1>1 DEF DealInv, SortedOK, Range
<1>12. DealtOK'
  <2>1. \A m \in DOMAIN bySize' : ~(m < it)
    BY <1>1, <1>4 DEF DealInv, SortedOK
  <2> QED
    BY <1>1, <1>11, <2>1 DEF DealtOK
<1>13. RoundOK'
  BY <1>1 DEF DealInv, RoundOK
<1> QED
  BY <1>6, <1>10, <1>12, <1>13 DEF DealInv

LEMMA AssignGroupStep == SetInv /\ DealInv /\ AssignGroup => SetInv' /\ DealInv'
<1> SUFFICES ASSUME SetInv, DealInv, AssignGroup PROVE SetInv' /\ DealInv'
  OBVIOUS
<1> DEFINE g == bySize[it]
<1>1. /\ phase = "assign" /\ it <= Len(bySize) /\ it' = it + 1 /\ icpu' = (icpu + 1) % Cpus
      /\ cpuGroups' = [cpuGroups EXCEPT ![icpu] = Append(@, g)]
      /\ UNCHANGED <<deps, group, gid, id, calls, phase, bySize>>
  BY DEF AssignGroup, Assigning, NextCpu
<1>2. /\ bySize \in Seq(Nat) /\ it \in Nat \ {0} /\ icpu \in CpuIds
      /\ cpuGroups \in [CpuIds -> Seq(Nat)]
  BY DEF SetInv, TypeOK
<1>3. /\ it \in DOMAIN bySize /\ g \in Nat /\ DOMAIN bySize = 1 .. Len(bySize) /\ Len(bySize) \in Nat
      /\ \A m \in DOMAIN bySize : m < it + 1 <=> m < it \/ m = it
  BY <1>1, <1>2, LenProperties, ElementOfSeq
<1> HIDE DEF g
<1>4. /\ \A c \in CpuIds : cpuGroups'[c] = IF c = icpu THEN Append(cpuGroups[icpu], g)
                                                       ELSE cpuGroups[c]
      /\ Append(cpuGroups[icpu], g) \in Seq(Nat)
      /\ Append(cpuGroups[icpu], g) # <<>>
      /\ Range(Append(cpuGroups[icpu], g)) = Range(cpuGroups[icpu]) \cup {g}
      /\ Len(cpuGroups[icpu]) \in Nat
      /\ Len(Append(cpuGroups[icpu], g)) = Len(cpuGroups[icpu]) + 1
  <2>1. cpuGroups[icpu] \in Seq(Nat)
    BY <1>2
  <2>2. \A c \in CpuIds : cpuGroups'[c] = IF c = icpu THEN Append(cpuGroups[icpu], g)
                                                       ELSE cpuGroups[c]
    BY <1>1, <1>2
  <2>3. g \in Nat
    BY <1>3
  <2> QED
    BY <2>1, <2>2, <2>3, Push
<1>5. \A c \in CpuIds :
        Range(cpuGroups'[c]) = Range(cpuGroups[c]) \cup (IF c = icpu THEN {g} ELSE {})
  BY <1>4
<1>6. SetInv'
  <2>1. TypeOK'
    <3>1. cpuGroups' \in [CpuIds -> Seq(Nat)]
      BY <1>1, <1>2, <1>4
    <3>2. icpu' \in CpuIds
      BY <1>1, <1>2, NextCpuType
    <3> QED
      BY <1>1, <1>2, <3>1, <3>2 DEF SetInv, TypeOK
  <2>2. calls = <<>> /\ id = Count
    BY <1>1 DEF SetInv, RootsOK
  <2> QED
    BY <1>1, <2>1, <2>2, SetFrame
<1>7. SortedOK'
  BY <1>1 DEF DealInv, SortedOK
<1>8. DealtOK'
  <2>1. ASSUME NEW c \in CpuIds, NEW h \in Range(cpuGroups'[c])
        PROVE  \E m \in DOMAIN bySize : m < it + 1 /\ bySize[m] = h
    <3>1. CASE h \in Range(cpuGroups[c])
      BY <1>3, <3>1 DEF DealInv, DealtOK
    <3>2. CASE h \notin Range(cpuGroups[c])
      <4>1. h = g
        BY <1>5, <2>1, <3>2
      <4>2. it < it + 1
        BY <1>3
      <4> QED
        BY <1>3, <4>1, <4>2 DEF g
    <3> QED
      BY <3>1, <3>2
  <2>2. ASSUME NEW m \in DOMAIN bySize, m < it + 1
        PROVE  \E c \in CpuIds : bySize[m] \in Range(cpuGroups'[c])
    <3>1. CASE m < it
      BY <1>5, <3>1 DEF DealInv, DealtOK
    <3>2. CASE m = it
      BY <1>2, <1>5, <3>2 DEF g
    <3> QED
      BY <1>3, <2>2, <3>1, <3>2
  <2>3. \A c \in CpuIds : g \notin Range(cpuGroups[c])
    <3> SUFFICES ASSUME NEW c \in CpuIds, g \in Range(cpuGroups[c]) PROVE FALSE
      OBVIOUS
    <3>1. PICK m \in DOMAIN bySize : m < it /\ bySize[m] = g
      BY DEF DealInv, DealtOK
    <3>2. m = it
      BY <1>3, <3>1 DEF DealInv, SortedOK, g
    <3> QED
      BY <1>3, <3>1, <3>2
  <2>4. ASSUME NEW c \in CpuIds, NEW e \in CpuIds, NEW h,
               h \in Range(cpuGroups'[c]), h \in Range(cpuGroups'[e])
        PROVE  c = e
    <3>1. CASE h = g
      BY <1>5, <2>3, <2>4, <3>1
    <3>2. CASE h # g
      BY <1>5, <2>4, <3>2 DEF DealInv, DealtOK
    <3> QED
      BY <3>1, <3>2
  <2>5. bySize' = bySize /\ it' = it + 1
    BY <1>1
  <2> HIDE DEF DealInv
  <2> QED
    BY <2>1, <2>2, <2>4, <2>5 DEF DealtOK
<1>9. RoundOK'
  <2>1. CASE \A c \in CpuIds : cpuGroups[c] # <<>>
    BY <1>4, <2>1 DEF RoundOK
  <2>2. CASE \A c \in CpuIds : /\ Len(cpuGroups[c]) <= 1
                               /\ c < icpu => cpuGroups[c] # <<>>
                               /\ c >= icpu => cpuGroups[c] = <<>>
    <3>1. icpu \in Nat /\ icpu < Cpus /\ Cpus \in Nat
      BY <1>2, GroupsAssumption DEF CpuIds
    <3>2. \A c \in CpuIds : c \in Nat /\ c < Cpus
      BY <3>1 DEF CpuIds
    <3>3. cpuGroups[icpu] = <<>> /\ Len(cpuGroups[icpu]) = 0
      BY <1>2, <2>2, <3>1
    <3>4. CASE icpu + 1 = Cpus
      <4>1. \A c \in CpuIds : c < icpu \/ c = icpu
        BY <3>1, <3>2, <3>4
      <4>2. \A c \in CpuIds : cpuGroups'[c] # <<>>
        BY <1>4, <2>2, <4>1
      <4> QED
        BY <4>2 DEF RoundOK
    <3>5. CASE icpu + 1 # Cpus
      <4>1. icpu' = icpu + 1
        BY <1>1, <1>2, <3>1, <3>5, NextCpuType
      <4>2. ASSUME NEW c \in CpuIds
            PROVE  /\ Len(cpuGroups'[c]) <= 1
                   /\ c < icpu' => cpuGroups'[c] # <<>>
                   /\ c >= icpu' => cpuGroups'[c] = <<>>
        <5>1. CASE c = icpu
          <6>1. cpuGroups'[c] # <<>> /\ Len(cpuGroups'[c]) = 0 + 1
            BY <1>4, <3>3, <5>1
          <6>2. c < icpu' /\ ~(c >= icpu')
            BY <3>1, <4>1, <5>1
          <6> QED
            BY <6>1, <6>2
        <5>2. CASE c # icpu
          BY <1>4, <2>2, <3>1, <3>2, <4>1, <5>2
        <5> QED
          BY <5>1, <5>2
      <4> QED
        BY <4>2 DEF RoundOK
    <3> QED
      BY <3>4, <3>5
  <2> QED
    BY <2>1, <2>2 DEF DealInv, RoundOK
<1> QED
  BY <1>6, <1>7, <1>8, <1>9 DEF DealInv

(***************************************************************************)
(* There is room on a cpu that has no group.                               *)
(***************************************************************************)
LEMMA EmptyCpuHasRoom ==
  ASSUME NEW c \in CpuIds, cpuGroups[c] = <<>>, Count # 0
  PROVE  CpuGroupSize(c) < CpuGroupSizeTarget
<1>1. Range(cpuGroups[c]) = {}
  BY DEF Range
<1>2. CpuGroupSize(c) = 0
  BY <1>1, FS_EmptySet DEF CpuGroupSize
<1>3. Count \in Nat /\ Cpus \in Nat \ {0}
  BY CountAssumption, GroupsAssumption
<1>4. Count \div Cpus \in Nat
  BY <1>3
<1>5. CASE Count % Cpus # 0
  BY <1>2, <1>4, <1>5 DEF CpuGroupSizeTarget
<1>6. CASE Count % Cpus = 0
  <2>1. Count = Cpus * (Count \div Cpus) + (Count % Cpus)
    BY <1>3
  <2>2. Count \div Cpus # 0
    BY <1>3, <1>6, <2>1
  <2> QED
    BY <1>2, <1>4, <1>6, <2>2 DEF CpuGroupSizeTarget
<1> QED
  BY <1>5, <1>6

LEMMA SkipFullCpuStep == SetInv /\ DealInv /\ SkipFullCpu => SetInv' /\ DealInv'
<1> SUFFICES ASSUME SetInv, DealInv, SkipFullCpu PROVE SetInv' /\ DealInv'
  OBVIOUS
<1>1. /\ phase = "assign" /\ it <= Len(bySize) /\ icpu' = (icpu + 1) % Cpus
      /\ CpuGroupSize(icpu) >= CpuGroupSizeTarget
      /\ UNCHANGED <<deps, group, gid, id, calls, phase, bySize, it, cpuGroups>>
  BY DEF SkipFullCpu, Assigning, NextCpu
<1>2. icpu \in CpuIds /\ bySize \in Seq(Nat) /\ it \in Nat \ {0}
  BY DEF SetInv, TypeOK
<1>3. SetInv'
  <2>1. TypeOK'
    BY <1>1, <1>2, NextCpuType DEF SetInv, TypeOK
  <2>2. calls = <<>> /\ id = Count
    BY <1>1 DEF SetInv, RootsOK
  <2> QED
    BY <1>1, <2>1, <2>2, SetFrame
<1>4. SortedOK' /\ DealtOK'
  BY <1>1 DEF DealInv, SortedOK, DealtOK
<1>5. Count # 0
  <2>1. it \in DOMAIN bySize
    BY <1>1, <1>2, LenProperties
  <2>2. bySize[it] \in Range(group)
    BY <1>1, <2>1 DEF DealInv, SortedOK, Range
  <2>3. Ids # {}
    BY <2>2 DEF SetInv, TypeOK, Range
  <2> QED
    BY <2>3 DEF Ids
<1>6. CpuGroupSizeTarget \in Nat /\ CpuGroupSize(icpu) \in Nat
  <2>1. CpuGroupSizeTarget \in Nat
    BY CountAssumption, GroupsAssumption DEF CpuGroupSizeTarget
  <2>2. IsFiniteSet(Ids)
    BY CountAssumption, FS_Interval DEF Ids
  <2>3. { x \in Ids : group[x] \in Range(cpuGroups[icpu]) } \in SUBSET Ids
    OBVIOUS
  <2>4. IsFiniteSet({ x \in Ids : group[x] \in Range(cpuGroups[icpu]) })
    BY <2>2, <2>3, FS_Subset
  <2> QED
    BY <2>1, <2>4, FS_CardinalityType DEF CpuGroupSize
<1>7. cpuGroups[icpu] # <<>>
  <2> SUFFICES ASSUME cpuGroups[icpu] = <<>> PROVE FALSE
    OBVIOUS
  <2>1. CpuGroupSize(icpu) < CpuGroupSizeTarget
    BY <1>2, <1>5, EmptyCpuHasRoom
  <2> QED
    BY <1>1, <1>6, <2>1
<1>8. \A c \in CpuIds : cpuGroups[c] # <<>>
  <2>1. icpu >= icpu
    BY <1>2, GroupsAssumption DEF CpuIds
  <2> QED
    BY <1>2, <1>7, <2>1 DEF DealInv, RoundOK
<1>9. RoundOK'
  BY <1>1, <1>8 DEF RoundOK
<1> QED
  BY <1>3, <1>4, <1>9 DEF DealInv

LEMMA FinishStep == SetInv /\ DealInv /\ Finish => SetInv' /\ DealInv'
<1> SUFFICES ASSUME SetInv, DealInv, Finish PROVE SetInv' /\ DealInv'
  OBVIOUS
<1> USE DEF Finish
<1>1. calls = <<>> /\ id = Count
  BY DEF SetInv, RootsOK
<1>2. TypeOK'
  BY DEF SetInv, TypeOK
<1>3. SetInv'
  BY <1>1, <1>2, SetFrame
<1>4. SortedOK' /\ DealtOK' /\ RoundOK'
  BY DEF DealInv, SortedOK, DealtOK, RoundOK
<1> QED
  BY <1>3, <1>4 DEF DealInv

(***************************************************************************)
(* Before the sorting nothing is dealt.                                    *)
(***************************************************************************)
LEMMA DealFrame ==
  ASSUME SetInv, DealInv,
         SkipRoot \/ CallRoot \/ MergeDependency \/ DescendDependency \/ SetGroup
  PROVE  DealInv'
<1>1. UNCHANGED <<phase, bySize, it, icpu, cpuGroups>>
  BY DEF SkipRoot, CallRoot, MergeDependency, DescendDependency, SetGroup
<1>2. phase = "set"
  <2>1. calls # <<>> \/ AtRoot
    BY DEF SkipRoot, CallRoot, MergeDependency, DescendDependency, SetGroup, HasDependency
  <2> QED
    BY <2>1 DEF SetInv, RootsOK, AtRoot
<1>3. SortedOK' /\ DealtOK' /\ RoundOK'
  BY <1>1, <1>2 DEF DealInv, SortedOK, DealtOK, RoundOK
<1> QED
  BY <1>3 DEF DealInv

LEMMA InvStep == SetInv /\ DealInv /\ [Next]_vars => SetInv' /\ DealInv'
<1> SUFFICES ASSUME SetInv, DealInv, [Next]_vars PROVE SetInv' /\ DealInv'
  OBVIOUS
<1>1. CASE UNCHANGED vars
  <2> USE <1>1 DEF vars
  <2>1. TypeOK'
    BY DEF SetInv, TypeOK
  <2>2. SetInv'
    BY <2>1, SetFrame DEF SetInv, RootsOK
  <2>3. SortedOK' /\ DealtOK' /\ RoundOK'
    BY DEF DealInv, SortedOK, DealtOK, RoundOK
  <2> QED
    BY <2>2, <2>3 DEF DealInv
<1>2. CASE Stop
  BY <1>1, <1>2 DEF Stop
<1> QED
  BY <1>1, <1>2, DealFrame, SkipRootStep, CallRootStep, MergeDependencyStep,
     DescendDependencyStep, SetGroupStep, SortGroupsStep, AssignGroupStep, SkipFullCpuStep,
     FinishStep DEF Next

(***************************************************************************)
(* What the invariants say of the finished groups.                         *)
(***************************************************************************)
LEMMA ClosedFacts == SetInv => GroupsClosed
<1> SUFFICES ASSUME SetInv, phase # "set", NEW x \in Ids
             PROVE  /\ group[x] # GROUP_NONE
                    /\ \A k \in DOMAIN deps[x] : group[deps[x][k]] = group[x]
  BY DEF GroupsClosed
<1>1. group[x] # GROUP_NONE
  BY CountAssumption DEF SetInv, RootsOK, Ids
<1> QED
  BY <1>1 DEF SetInv, ClosedSoFar

LEMMA DealtFacts == SetInv /\ DealInv => OneCpuEach
<1> SUFFICES ASSUME SetInv, DealInv, Done, NEW x \in Ids
             PROVE  /\ \E c \in CpuIds : group[x] \in Range(cpuGroups[c])
                    /\ \A c, d \in CpuIds :
                         group[x] \in Range(cpuGroups[c]) \cap Range(cpuGroups[d]) => c = d
  BY DEF OneCpuEach
<1>1. group[x] \in Range(bySize)
  BY DEF SetInv, DealInv, Done, SortedOK, TypeOK, Range
<1>2. PICK m \in DOMAIN bySize : bySize[m] = group[x]
  BY <1>1 DEF Range
<1>3. m < it
  <2>1. bySize \in Seq(Nat) /\ it \in Nat /\ it > Len(bySize)
    BY DEF SetInv, TypeOK, DealInv, SortedOK, Done
  <2> QED
    BY <1>2, <2>1, LenProperties
<1>4. \E c \in CpuIds : group[x] \in Range(cpuGroups[c])
  BY <1>2, <1>3 DEF DealInv, DealtOK
<1>5. \A c, d \in CpuIds :
        group[x] \in Range(cpuGroups[c]) \cap Range(cpuGroups[d]) => c = d
  BY DEF DealInv, DealtOK
<1> QED
  BY <1>4, <1>5

LEMMA Invariants == Spec => [](SetInv /\ DealInv)
  BY InitInv, InvStep, PTL DEF Spec
-----------------------------------------------------------------------------
(***************************************************************************)
(* Type correctness of calculateGroup; in particular a group number is     *)
(* always below Count when groupCounters is indexed.                       *)
(***************************************************************************)
THEOREM TypeCorrect == Spec => []TypeOK
<1>1. SetInv => TypeOK
  BY DEF SetInv
<1> QED
  BY <1>1, Invariants, PTL

(***************************************************************************)
(* After recursiveSetGroup has run over all roots, no dependency crosses   *)
(* from one group to another: for cyclic graphs too, if it gets there.     *)
(***************************************************************************)
THEOREM GroupsAreClosed == Spec => []GroupsClosed
  BY ClosedFacts, Invariants, PTL

(***************************************************************************)
(* mergeGroup never joins more than the dependencies force it to.          *)
(***************************************************************************)
THEOREM GroupsAreMinimal == Spec => []GroupsMinimal
<1>1. SetInv => GroupsMinimal
  BY DEF SetInv
<1> QED
  BY <1>1, Invariants, PTL

(***************************************************************************)
(* The dealing gives every expression to one cpu and to no other.          *)
(***************************************************************************)
THEOREM EachHasOneCpu == Spec => []OneCpuEach
  BY DealtFacts, Invariants, PTL

(***************************************************************************)
(* The dealing goes round all cpus before it gives one a second group.     *)
(***************************************************************************)
THEOREM NoCpuIsIdle == Spec => []NoIdleCpu
<1>1. SetInv /\ DealInv => NoIdleCpu
  <2> SUFFICES ASSUME SetInv, DealInv, NEW c \in CpuIds, NEW d \in CpuIds,
                      Len(cpuGroups[c]) >= 2
               PROVE  cpuGroups[d] # <<>>
    BY DEF NoIdleCpu
  <2>1. ~(Len(cpuGroups[c]) <= 1)
    <3>1. cpuGroups[c] \in Seq(Nat)
      BY DEF SetInv, TypeOK
    <3>2. Len(cpuGroups[c]) \in Nat
      BY <3>1, LenProperties
    <3> QED
      BY <3>2
  <2> QED
    BY <2>1 DEF DealInv, RoundOK
<1> QED
  BY <1>1, Invariants, PTL
=============================================================================
