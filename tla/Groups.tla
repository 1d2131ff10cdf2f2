------------------------------- MODULE Groups -------------------------------
(***************************************************************************)
(* Expressions::calculateGroup: split the expressions into groups that do  *)
(* not depend on each other, and deal the groups out to the cpus.  evalAll *)
(* then evaluates the groups of different cpus in parallel without any     *)
(* synchronisation.  recursiveSetGroup is recursive; its call stack is the *)
(* variable calls.                                                         *)
(***************************************************************************)
EXTENDS Program, FiniteSets

CONSTANTS
  Graphs,      \* the Expression::dependencies of every expression
  Cpus,        \* omp_get_max_threads()
  GROUP_NONE   \* Expressions::GROUP_NONE, the group of no expression

ASSUME GroupsAssumption ==
  /\ Graphs \subseteq [Ids -> Seq(Ids)]
  /\ Cpus \in Nat \ {0}
  /\ GROUP_NONE \notin Nat

VARIABLES
  deps,        \* the dependencies; they do not change
  group,       \* Expression::groupId
  gid,         \* groupId, the group being made
  id,          \* the loop variable of the root loop
  calls,       \* frames of the active recursiveSetGroup calls
  phase,       \* "set" the groups, "assign" them to cpus, "done"
  bySize,      \* groupsBySizeDesc
  it,          \* the iterator over bySize
  icpu,        \* the inner loop variable of the assignment
  cpuGroups    \* Expressions::cpuGroups

vars == <<deps, group, gid, id, calls, phase, bySize, it, icpu, cpuGroups>>

CpuIds == 0 .. Cpus - 1
Frames == [id : Ids, idep : Nat \ {0}]
Top == calls[Len(calls)]

(***************************************************************************)
(* The state before calculateGroup, but for the dependencies.              *)
(***************************************************************************)
Start ==
  /\ group = [x \in Ids |-> GROUP_NONE]
  /\ gid = 0
  /\ id = 0
  /\ calls = <<>>
  /\ phase = "set"
  /\ bySize = <<>>
  /\ it = 1
  /\ icpu = 0
  /\ cpuGroups = [c \in CpuIds |-> <<>>]

Init == deps \in Graphs /\ Start

AtRoot == phase = "set" /\ calls = <<>> /\ id < Count

(***************************************************************************)
(* The root loop skips what some earlier call has reached.                 *)
(***************************************************************************)
SkipRoot ==
  /\ AtRoot /\ group[id] # GROUP_NONE
  /\ id' = id + 1
  /\ UNCHANGED <<deps, group, gid, calls, phase, bySize, it, icpu, cpuGroups>>

CallRoot ==
  /\ AtRoot /\ group[id] = GROUP_NONE
  /\ calls' = <<[id |-> id, idep |-> 1]>>
  /\ UNCHANGED <<deps, group, gid, id, phase, bySize, it, icpu, cpuGroups>>

HasDependency == calls # <<>> /\ Top.idep <= Len(deps[Top.id])
Dependency == deps[Top.id][Top.idep]
InOtherGroup(x) == group[x] \notin {GROUP_NONE, gid}
Advanced == [calls EXCEPT ![Len(calls)] = [Top EXCEPT !.idep = @ + 1]]

\* A seeded fault of MergeGroup: the group is not merged.
MergeNothing(g, toId, fromId) == g

MergeGroup(g, toId, fromId) == [x \in Ids |-> IF g[x] = fromId THEN toId ELSE g[x]]

(***************************************************************************)
(* A dependency that an earlier root reached: its whole group joins the    *)
(* current one, and the call returns at once.                              *)
(***************************************************************************)
MergeDependency ==
  /\ HasDependency /\ InOtherGroup(Dependency)
  /\ group' = MergeGroup(group, gid, group[Dependency])
  /\ calls' = Advanced
  /\ UNCHANGED <<deps, gid, id, phase, bySize, it, icpu, cpuGroups>>

(***************************************************************************)
(* Otherwise the recursion goes on, also into a dependency that already    *)
(* has the current group.                                                  *)
(***************************************************************************)
DescendDependency ==
  /\ HasDependency /\ ~InOtherGroup(Dependency)
  /\ calls' = Append(Advanced, [id |-> Dependency, idep |-> 1])
  /\ UNCHANGED <<deps, group, gid, id, phase, bySize, it, icpu, cpuGroups>>

\* A seeded fault of SetGroup: the group identifier is not advanced.
SetGroupSame ==
  /\ calls # <<>> /\ Top.idep > Len(deps[Top.id])
  /\ group' = [group EXCEPT ![Top.id] = gid]
  /\ calls' = SubSeq(calls, 1, Len(calls) - 1)
  /\ id' = IF Len(calls) = 1 THEN id + 1 ELSE id
  /\ UNCHANGED <<deps, gid, phase, bySize, it, icpu, cpuGroups>>

(***************************************************************************)
(* The group of an expression is set after those of its dependencies; when *)
(* the root call returns the loop goes on with a new group.                *)
(***************************************************************************)
SetGroup ==
  /\ calls # <<>> /\ Top.idep > Len(deps[Top.id])
  /\ group' = [group EXCEPT ![Top.id] = gid]
  /\ calls' = SubSeq(calls, 1, Len(calls) - 1)
  /\ gid' = IF Len(calls) = 1 THEN gid + 1 ELSE gid
  /\ id' = IF Len(calls) = 1 THEN id + 1 ELSE id
  /\ UNCHANGED <<deps, phase, bySize, it, icpu, cpuGroups>>

Members(g) == { x \in Ids : group[x] = g }
GroupSize(g) == Cardinality(Members(g))

(***************************************************************************)
(* std::list::sort is stable: by size, the largest first, then by index.   *)
(***************************************************************************)
IsSorted(s) ==
  \A i, j \in DOMAIN s : i < j =>
    \/ GroupSize(s[i]) > GroupSize(s[j])
    \/ GroupSize(s[i]) = GroupSize(s[j]) /\ s[i] < s[j]

SortGroups ==
  /\ phase = "set" /\ calls = <<>> /\ id = Count
  /\ bySize' \in { s \in [1 .. Cardinality(Range(group)) -> Range(group)] :
                     Range(s) = Range(group) /\ IsSorted(s) }
  /\ phase' = "assign"
  /\ UNCHANGED <<deps, group, gid, id, calls, it, icpu, cpuGroups>>

(***************************************************************************)
(* cpuGroupSizes and cpuGroupSizeTarget.                                   *)
(***************************************************************************)
CpuGroupSize(c) == Cardinality({ x \in Ids : group[x] \in Range(cpuGroups[c]) })
CpuGroupSizeTarget == Count \div Cpus + (IF Count % Cpus # 0 THEN 1 ELSE 0)

Assigning == phase = "assign" /\ it <= Len(bySize)

NextCpu == icpu' = (icpu + 1) % Cpus

\* A seeded fault of AssignGroup: neither the size of the cpu is tested nor
\* the next cpu taken.
AssignSameCpu ==
  /\ Assigning
  /\ cpuGroups' = [cpuGroups EXCEPT ![icpu] = Append(@, bySize[it])]
  /\ it' = it + 1
  /\ UNCHANGED <<deps, group, gid, id, calls, phase, bySize, icpu>>

AssignGroup ==
  /\ Assigning /\ CpuGroupSize(icpu) < CpuGroupSizeTarget
  /\ cpuGroups' = [cpuGroups EXCEPT ![icpu] = Append(@, bySize[it])]
  /\ it' = it + 1
  /\ NextCpu
  /\ UNCHANGED <<deps, group, gid, id, calls, phase, bySize>>

\* A seeded fault of SkipFullCpu: the group is skipped too.
SkipGroupToo ==
  /\ Assigning /\ CpuGroupSize(icpu) >= CpuGroupSizeTarget
  /\ NextCpu
  /\ it' = it + 1
  /\ UNCHANGED <<deps, group, gid, id, calls, phase, bySize, cpuGroups>>

SkipFullCpu ==
  /\ Assigning /\ CpuGroupSize(icpu) >= CpuGroupSizeTarget
  /\ NextCpu
  /\ UNCHANGED <<deps, group, gid, id, calls, phase, bySize, it, cpuGroups>>

Finish ==
  /\ phase = "assign" /\ it > Len(bySize)
  /\ phase' = "done"
  /\ UNCHANGED <<deps, group, gid, id, calls, bySize, it, icpu, cpuGroups>>

Done == phase = "done"
Stop == Done /\ UNCHANGED vars

Next ==
  \/ SkipRoot \/ CallRoot \/ MergeDependency \/ DescendDependency \/ SetGroup
  \/ SortGroups \/ AssignGroup \/ SkipFullCpu \/ Finish \/ Stop

Spec == Init /\ [][Next]_vars
-----------------------------------------------------------------------------
(***************************************************************************)
(* Types: a group number is never larger than the number of the group      *)
(* being made, which indexes groupCounters, an array of Count counters.    *)
(***************************************************************************)
TypeOK ==
  /\ deps \in Graphs
  /\ group \in [Ids -> (0 .. gid) \cup {GROUP_NONE}]
  /\ gid \in 0 .. id
  /\ id \in 0 .. Count
  /\ calls \in Seq(Frames)
  /\ calls # <<>> => id \in Ids
  /\ phase \in {"set", "assign", "done"}
  /\ bySize \in Seq(Nat)
  /\ it \in Nat \ {0}
  /\ icpu \in CpuIds
  /\ cpuGroups \in [CpuIds -> Seq(Nat)]

(***************************************************************************)
(* What the parallel evaluation rests on: an expression is in the group of *)
(* everything it depends on, whatever roots were merged in which order.    *)
(***************************************************************************)
GroupsClosed ==
  phase # "set" =>
    \A x \in Ids : /\ group[x] # GROUP_NONE
                   /\ \A k \in DOMAIN deps[x] : group[deps[x][k]] = group[x]

(***************************************************************************)
(* Nor are groups merged that could run on different cpus: a set that no   *)
(* dependency enters or leaves is a union of groups.                       *)
(***************************************************************************)
GroupsMinimal ==
  \A S \in SUBSET Ids :
    (\A x \in Ids : \A k \in DOMAIN deps[x] : deps[x][k] \in S <=> x \in S) =>
      \A x, y \in Ids :
        group[x] # GROUP_NONE /\ group[x] = group[y] => (x \in S <=> y \in S)

(***************************************************************************)
(* Every expression is evaluated by exactly one cpu: none is left out by   *)
(* the sorting and the dealing, none is written by two threads.            *)
(***************************************************************************)
OneCpuEach ==
  Done => \A x \in Ids :
            /\ \E c \in CpuIds : group[x] \in Range(cpuGroups[c])
            /\ \A c, d \in CpuIds :
                 group[x] \in Range(cpuGroups[c]) \cap Range(cpuGroups[d]) => c = d

(***************************************************************************)
(* No cpu is left without work while another one has two groups.           *)
(***************************************************************************)
NoIdleCpu ==
  Done => \A c, d \in CpuIds : Len(cpuGroups[c]) >= 2 => cpuGroups[d] # <<>>
=============================================================================
