---------------------------- MODULE Query_proofs ----------------------------
(***************************************************************************)
(* Proofs about modules References and Query: for every set of columns and *)
(* publics, every number of rows and of worker threads, and all requests,  *)
(* the publics are read right and the answers are those that Browse        *)
(* promises.                                                               *)
(***************************************************************************)
EXTENDS Query, SequenceTheorems, FiniteSetTheorems, WellFoundedInduction, TLAPS

(***************************************************************************)
(* The ids of the references that have been loaded so far.                 *)
(***************************************************************************)
LoadedNames(type) == { Names[i] : i \in { l \in 1 .. loaded : PilReferences[Names[l]].type = type } }
LoadedIds(type) == UNION { Span(name) : name \in LoadedNames(type) }

(***************************************************************************)
(* Lookups of ids that are not there have added null entries, and nothing  *)
(* else.                                                                   *)
(***************************************************************************)
Extends(v) ==
  /\ v = [type \in Types |-> v[type]]
  /\ \A type \in Types :
       /\ ColumnIds(type) \subseteq DOMAIN v[type]
       /\ v[type] = [id \in DOMAIN v[type] |-> IF id \in ColumnIds(type) THEN Reference(type, id) ELSE NULL]

LoadInv ==
  /\ stage \in {"references", "publics", "serve", "dead"}
  /\ stage = "references" => /\ loaded \in 0 .. Len(Names) /\ publics = <<>>
                             /\ values = [type \in Types |-> [id \in LoadedIds(type) |-> Reference(type, id)]]
  /\ stage = "publics" => Intact /\ loaded = Len(publics)
  /\ stage # "references" => Extends(values)
  /\ publics \in Seq(ToSet(publics))
  /\ Len(publics) <= Len(PilPublics)
  /\ PublicsExact

(***************************************************************************)
(* Where a worker is, what it has been asked and what it has found.        *)
(***************************************************************************)
Working(k) == pc[k] \in {"trigger", "filter", "rows"}

WorkerInv(k) ==
  /\ pc[k] \in {"idle", "trigger", "filter", "rows", "sent"}
  /\ stage # "serve" => pc[k] = "idle"
  /\ pc[k] = "idle" => request[k] = NULL
  /\ pc[k] # "idle" => request[k] \in Requests[k]
  /\ pc[k] = "sent" <=> answer[k] # NULL
  /\ pc[k] = "trigger" => w[k] = request[k].from
  /\ pc[k] # "rows" => rows[k] = <<>>
  /\ pc[k] \in {"filter", "rows"} => Resolvable(k) /\ pols[k] = filterPols(request[k].name)
  /\ pc[k] = "rows" => Good(request[k].filter)
  /\ Working(k) => Len(rows[k]) <= options(k).count
  /\ pols[k] \in Seq(Elements) /\ w[k] \in 0 .. Word - 1 /\ rows[k] \in Seq(Row)

WorkersInv ==
  /\ alive \in BOOLEAN
  /\ pc = [k \in Workers |-> pc[k]] /\ request = [k \in Workers |-> request[k]]
  /\ pols = [k \in Workers |-> pols[k]] /\ w = [k \in Workers |-> w[k]]
  /\ rows = [k \in Workers |-> rows[k]] /\ evaluations = [k \in Workers |-> evaluations[k]]
  /\ answer = [k \in Workers |-> answer[k]]
  /\ \A k \in Workers : WorkerInv(k)

(***************************************************************************)
(* As long as nothing has been added to the maps, and for a query that     *)
(* adds nothing: what is promised of the rows of an answer holds of those  *)
(* that there are so far.                                                  *)
(***************************************************************************)
Promised(k) == pc[k] \in {"filter", "rows"} /\ Intact /\ Promise!InRange(request[k])

Partial(k) == [titles |-> pols[k], rows |-> rows[k]]
Candidates(r) == IF r.filter = <<>> THEN 0 .. N - 1 ELSE Promise!Matching(r)
Wanted(r) == { x \in Candidates(r) : x >= Promise!StartRow(r) }
InOrder(r) == r.filter = <<>> \/ r.before = 0
Passed(k) == { x \in Wanted(request[k]) : x < w[k] }

RowsInv(k) ==
  LET r == request[k]
      s == rows[k]
  IN  /\ Promise!RowsTrue(r, Partial(k))
      /\ s # <<>> => evaluations[k] = [c \in ToSet(pols[k]) |-> Promise!Cell(c, s[Len(s)].w)]
      /\ InOrder(r) => /\ \A i, j \in DOMAIN s : i < j => s[i].w < s[j].w
                       /\ \A i \in DOMAIN s : s[i].w < w[k]
      /\ InOrder(r) /\ Promise!HasStart(r) =>
           /\ Promise!StartRow(r) <= w[k]
           /\ { s[i].w : i \in DOMAIN s } = Passed(k)
           /\ Len(s) = Cardinality(Passed(k))

ExactInv(k) ==
  Promised(k) =>
    /\ pc[k] = "filter" /\ Promise!HasStart(request[k]) => w[k] = Promise!StartRow(request[k])
    /\ pc[k] = "rows" => RowsInv(k)
-----------------------------------------------------------------------------
(***************************************************************************)
(* The names and the ids of their columns.                                 *)
(***************************************************************************)
LEMMA NameFacts ==
  /\ DOMAIN Names = 1 .. Len(Names) /\ Len(Names) \in Nat
  /\ \A i \in 1 .. Len(Names) : Names[i] \in Known
  /\ \A x \in Known : \E i \in 1 .. Len(Names) : Names[i] = x
  /\ \A x \in Known : /\ PilReferences[x].type \in Types /\ PilReferences[x].id \in Nat
                      /\ PilReferences[x].len \in Nat \ {0}
                      /\ PilReferences[x].id \in Span(x)
                      /\ Span(x) \subseteq ColumnIds(PilReferences[x].type)
  /\ \A type \in Types : ColumnIds(type) \subseteq Nat
  /\ N \in Nat \ {0}
<1>1. /\ Names \in Seq(Known) /\ N \in Nat \ {0}
      /\ PilReferences \in [Known -> [type : Types, id : Nat, len : Nat \ {0}]]
  BY ReferencesAssumption
<1>2. DOMAIN Names = 1 .. Len(Names) /\ Len(Names) \in Nat /\ \A i \in 1 .. Len(Names) : Names[i] \in Known
  BY <1>1, LenProperties, ElementOfSeq
<1>3. \A x \in Known : \E i \in 1 .. Len(Names) : Names[i] = x
  BY <1>2 DEF Known
<1>4. ASSUME NEW x \in Known
      PROVE  /\ PilReferences[x].type \in Types /\ PilReferences[x].id \in Nat
             /\ PilReferences[x].len \in Nat \ {0}
             /\ PilReferences[x].id \in Span(x) /\ Span(x) \subseteq Nat
             /\ Span(x) \subseteq ColumnIds(PilReferences[x].type)
  <2>1. PilReferences[x].type \in Types /\ PilReferences[x].id \in Nat /\ PilReferences[x].len \in Nat \ {0}
    BY <1>1
  <2>2. PilReferences[x].id \in Span(x) /\ Span(x) \subseteq Nat
    BY <2>1 DEF Span
  <2> QED
    BY <2>1, <2>2 DEF ColumnIds
<1>5. \A type \in Types : ColumnIds(type) \subseteq Nat
  BY <1>4 DEF ColumnIds
<1> QED
  BY <1>1, <1>2, <1>3, <1>4, <1>5

LEMMA TypesDiffer == Types = {"constP", "cmP", "imP"}
  BY DEF Types

(***************************************************************************)
(* Products and quotients of natural numbers.                              *)
(***************************************************************************)
LEMMA Positive ==
  ASSUME NEW a \in Nat, NEW b \in Nat PROVE a * b \in Nat
OBVIOUS

LEMMA Product ==
  ASSUME NEW a \in Nat, NEW b \in Nat, NEW c \in Nat, a <= b
  PROVE  c * a <= c * b /\ a * c <= b * c /\ a * c = c * a
<1>1. PICK d \in Nat : b = a + d
  <2>1. b - a \in Nat /\ b = a + (b - a)
    OBVIOUS
  <2> QED
    BY <2>1
<1>2. c * b = c * a + c * d /\ c * d \in Nat
  BY <1>1
<1> QED
  BY <1>2

LEMMA Division ==
  ASSUME NEW m \in Nat \ {0}, NEW q \in Nat, NEW r \in 0 .. m - 1
  PROVE  (r + m * q) \div m = q /\ (r + m * q) % m = r
<1> DEFINE a == r + m * q
<1>1. a \in Nat /\ a = m * (a \div m) + (a % m) /\ a % m \in 0 .. m - 1 /\ a \div m \in Nat
  BY Positive
<1>2. a \div m <= q
  <2>1. SUFFICES ASSUME a \div m >= q + 1 PROVE FALSE
    BY <1>1
  <2>2. m * (q + 1) <= m * (a \div m) /\ m * (q + 1) = m * q + m
    BY <1>1, <2>1, Product
  <2> QED
    BY <1>1, <2>2, Positive
<1>3. q <= a \div m
  <2>1. SUFFICES ASSUME q >= (a \div m) + 1 PROVE FALSE
    BY <1>1
  <2>2. m * ((a \div m) + 1) <= m * q /\ m * ((a \div m) + 1) = m * (a \div m) + m
    BY <1>1, <2>1, Product
  <2> QED
    BY <1>1, <2>2, Positive
<1>4. a \div m = q
  BY <1>1, <1>2, <1>3
<1> QED
  BY <1>1, <1>4, Positive

LEMMA Between ==
  ASSUME NEW m \in Nat \ {0}, NEW n \in Nat \ {0}, NEW q \in 0 .. n - 1, NEW r \in 0 .. m - 1
  PROVE  1 + m * q + r \in 1 .. m * n /\ m * n = n * m
<1>1. m * (q + 1) <= m * n /\ m * (q + 1) = m * q + m /\ m * q \in Nat /\ m * n \in Nat
  BY Product, Positive
<1> QED
  BY <1>1, Product

LEMMA Split ==
  ASSUME NEW m \in Nat \ {0}, NEW n \in Nat \ {0}, NEW c \in 1 .. m * n
  PROVE  /\ (c - 1) \div m \in 0 .. n - 1 /\ (c - 1) % m \in 0 .. m - 1
         /\ c = 1 + m * ((c - 1) \div m) + ((c - 1) % m)
<1> DEFINE a == c - 1
           q == a \div m
<1>1. a \in Nat /\ a < m * n /\ m * n \in Nat
  BY Positive
<1>2. a = m * q + (a % m) /\ a % m \in 0 .. m - 1 /\ q \in Nat
  BY <1>1
<1>3. q <= n - 1
  <2>1. SUFFICES ASSUME q >= n PROVE FALSE
    BY <1>2
  <2>2. m * n <= m * q
    BY <1>2, <2>1, Product
  <2> QED
    BY <1>1, <1>2, <2>2, Positive
<1> QED
  BY <1>2, <1>3

(***************************************************************************)
(* The columns of a file are numbered from 0 to its width.                 *)
(***************************************************************************)
LEMMA WidthFacts ==
  ASSUME NEW type \in {"constP", "cmP"}
  PROVE  /\ Width[type] \in Nat /\ ColumnIds(type) = 0 .. Width[type] - 1
         /\ Width[type] = Cardinality(ColumnIds(type))
<1>1. Width[type] = Cardinality(ColumnIds(type))
  BY DEF Width
<1>2. ColumnIds(type) = 0 .. Width[type] - 1
  BY <1>1, ReferencesAssumption
<1>3. IsFiniteSet(ColumnIds(type))
  <2> DEFINE T == { x \in Known : PilReferences[x].type = type }
             U == { Span(x) : x \in T }
  <2>1. IsFiniteSet(Known) 
    <3>1. IsFiniteSet(1 .. Len(Names)) /\ DOMAIN Names = 1 .. Len(Names)
      BY NameFacts, FS_Interval
    <3>2. Known = { Names[i] : i \in 1 .. Len(Names) }
      BY <3>1 DEF Known
    <3>3. [i \in 1 .. Len(Names) |-> Names[i]] \in Surjection(1 .. Len(Names), Known)
      BY <3>2, NameFacts DEF Surjection
    <3> QED
      BY <3>1, <3>3, FS_Surjection
  <2>2. IsFiniteSet(T)
    BY <2>1, FS_Subset
  <2>3. IsFiniteSet(U)
    <3>1. [x \in T |-> Span(x)] \in Surjection(T, U)
      BY DEF Surjection
    <3> QED
      BY <2>2, <3>1, FS_Surjection
  <2>4. \A x \in T : IsFiniteSet(Span(x))
    <3> TAKE x \in T
    <3>1. PilReferences[x].id \in Int /\ PilReferences[x].len \in Int
      BY NameFacts
    <3>2. PilReferences[x].id + PilReferences[x].len - 1 \in Int
      BY <3>1
    <3> QED
      BY <3>1, <3>2, FS_Interval DEF Span
  <2>5. \A s \in U : IsFiniteSet(s)
    BY <2>4
  <2>6. ColumnIds(type) = UNION U
    BY DEF ColumnIds
  <2> HIDE DEF U
  <2> QED
    BY <2>3, <2>5, <2>6, FS_UNION
<1>4. Width[type] \in Nat
  BY <1>1, <1>3, FS_CardinalityType
<1> QED
  BY <1>1, <1>2, <1>4

(***************************************************************************)
(* As long as the maps are as they were loaded, a reference gives the      *)
(* value of its column.                                                    *)
(***************************************************************************)
LEMMA EvaluationExact ==
  ASSUME NEW type \in Types, NEW id \in ColumnIds(type), NEW x \in 0 .. N - 1, NEW beyond
  PROVE  Evaluation(Loaded, Reference(type, id), x, beyond) = ColumnValue[type][id][x]
<1> DEFINE ref == Reference(type, id)
<1>1. ref.type = type /\ ref.id = id
  BY DEF Reference
<1>2. CASE type = "imP"
  BY <1>1, <1>2 DEF Evaluation
<1>3. CASE type \in {"constP", "cmP"}
  <2> DEFINE W == Width[type]
  <2>1. W \in Nat /\ id \in 0 .. W - 1 /\ W = Cardinality(ColumnIds(type))
    BY <1>3, WidthFacts
  <2>2. DOMAIN Loaded[type] = ColumnIds(type)
    BY DEF Loaded
  <2>3. Offset(Loaded, ref, x) = x * W + id
    BY <1>1, <2>1, <2>2 DEF Offset
  <2>4. DOMAIN File[type] = 0 .. N * W - 1
    BY <1>3 DEF File
  <2>5. \A o \in 0 .. N * W - 1 : File[type][o] = ColumnValue[type][o % W][o \div W]
    BY <1>3 DEF File
  <2> HIDE DEF W
  <2>6. x * W + id \in 0 .. N * W - 1 /\ (x * W + id) % W = id /\ (x * W + id) \div W = x
    <3>1. N \in Nat \ {0} /\ x \in Nat /\ x <= N - 1
      BY NameFacts
    <3>2. PICK d \in Nat : N = x + 1 + d
      <4>1. N - (x + 1) \in Nat /\ N = x + 1 + (N - (x + 1))
        BY <3>1
      <4> QED
        BY <4>1
    <3>3. N * W = x * W + W + d * W /\ d * W \in Nat /\ x * W \in Nat
      BY <3>1, <3>2, <2>1
    <3>4. x * W + id \in 0 .. N * W - 1
      BY <3>3, <2>1
    <3>5. W \in Nat \ {0} /\ x * W = W * x
      <4>1. W \in Nat \ {0}
        BY <2>1
      <4> QED
        BY <3>1, <4>1, Product
    <3>6. (id + W * x) % W = id /\ (id + W * x) \div W = x
      <4>1. W \in Nat \ {0} /\ x \in Nat /\ id \in 0 .. W - 1
        BY <2>1, <3>1, <3>5
      <4> QED
        BY <4>1, Division, Zenon
    <3>7. x * W + id = id + W * x
      <4>1. \A a, b \in Nat : a + b = b + a
        OBVIOUS
      <4>2. x * W \in Nat /\ id \in Nat
        BY <3>3, <2>1
      <4> QED
        BY <3>5, <4>1, <4>2, Zenon
    <3> QED
      BY <3>4, <3>6, <3>7
  <2>7. InFile(Loaded, ref, x)
    BY <1>1, <2>3, <2>4, <2>6 DEF InFile
  <2> QED
    BY <1>1, <1>3, <2>3, <2>5, <2>6, <2>7 DEF Evaluation
<1> QED
  BY <1>2, <1>3 DEF Types
-----------------------------------------------------------------------------
LEMMA SeqOfSet ==
  ASSUME NEW S, NEW s \in Seq(S)
  PROVE  /\ s \in Seq(ToSet(s)) /\ ToSet(s) \subseteq S
         /\ DOMAIN s = 1 .. Len(s) /\ Len(s) \in Nat
         /\ \A i \in 1 .. Len(s) : s[i] \in ToSet(s) /\ s[i] \in S
<1>1. DOMAIN s = 1 .. Len(s) /\ Len(s) \in Nat /\ s \in [1 .. Len(s) -> S]
  BY LenProperties
<1>2. \A i \in 1 .. Len(s) : s[i] \in ToSet(s)
  BY <1>1 DEF ToSet
<1>3. s \in [1 .. Len(s) -> ToSet(s)]
  BY <1>1, <1>2
<1>4. s \in Seq(ToSet(s))
  BY <1>1, <1>3, SeqDef
<1> QED
  BY <1>1, <1>2, <1>4 DEF ToSet

LEMMA AppendSet ==
  ASSUME NEW S, NEW s \in Seq(S), NEW e
  PROVE  /\ Append(s, e) \in Seq(ToSet(Append(s, e)))
         /\ Append(s, e) \in Seq(S \cup {e})
         /\ Len(Append(s, e)) = Len(s) + 1
         /\ DOMAIN Append(s, e) = 1 .. Len(s) + 1
         /\ \A i \in 1 .. Len(s) : Append(s, e)[i] = s[i]
         /\ Append(s, e)[Len(s) + 1] = e
         /\ ToSet(Append(s, e)) = ToSet(s) \cup {e}
<1>1. s \in Seq(S \cup {e})
  BY SeqMonotonic
<1>2. /\ Append(s, e) \in Seq(S \cup {e}) /\ Len(Append(s, e)) = Len(s) + 1
      /\ \A i \in 1 .. Len(s) : Append(s, e)[i] = s[i]
      /\ Append(s, e)[Len(s) + 1] = e
  BY <1>1, AppendProperties
<1>3. Append(s, e) \in Seq(ToSet(Append(s, e))) /\ DOMAIN Append(s, e) = 1 .. Len(s) + 1
  BY <1>2, SeqOfSet
<1>4. DOMAIN s = 1 .. Len(s) /\ Len(s) \in Nat
  BY LenProperties
<1>5. ToSet(Append(s, e)) = ToSet(s) \cup {e}
  BY <1>2, <1>3, <1>4 DEF ToSet
<1> QED
  BY <1>2, <1>3, <1>5

(***************************************************************************)
(* Lookups only add null entries, for ids that were not there.             *)
(***************************************************************************)
LEMMA LoadedExtends == Extends(Loaded)
BY DEF Extends, Loaded

LEMMA AfterGetExtends ==
  ASSUME NEW v, Extends(v), NEW ids
  PROVE  Extends(AfterGet(v, ids))
<1> DEFINE a == AfterGet(v, ids)
<1>1. a = [type \in Types |-> a[type]]
  BY DEF AfterGet
<1>2. ASSUME NEW type \in Types
      PROVE  /\ ColumnIds(type) \subseteq DOMAIN a[type]
             /\ a[type] = [id \in DOMAIN a[type] |-> IF id \in ColumnIds(type) THEN Reference(type, id) ELSE NULL]
  <2>1. /\ ColumnIds(type) \subseteq DOMAIN v[type]
        /\ \A id \in DOMAIN v[type] : v[type][id] = IF id \in ColumnIds(type) THEN Reference(type, id) ELSE NULL
    BY DEF Extends
  <2>2. a[type] = [id \in DOMAIN v[type] \cup ids[type] |-> Get(v, type, id)]
    BY DEF AfterGet
  <2>3. \A id \in DOMAIN v[type] \cup ids[type] :
          Get(v, type, id) = IF id \in ColumnIds(type) THEN Reference(type, id) ELSE NULL
    BY <2>1 DEF Get
  <2> HIDE DEF a
  <2> QED
    BY <2>1, <2>2, <2>3
<1> QED
  BY <1>1, <1>2 DEF Extends

LEMMA AfterAllExtends ==
  ASSUME NEW v, Extends(v), NEW conds
  PROVE  Extends(AfterAll(v, conds))
BY AfterGetExtends DEF AfterAll

(***************************************************************************)
(* What a step of a worker leaves alone.                                   *)
(***************************************************************************)
Step(k) == Work(k) \/ Deliver(k) \/ \E r \in Requests[k] : Receive(k, r)

LEMMA StepFacts ==
  ASSUME NEW k \in Workers, Step(k)
  PROVE  /\ Running /\ UNCHANGED <<stage, loaded, publics>>
         /\ values' = values \/ values' = AfterAll(values, Trigger(k))
                             \/ values' = AfterAll(values, request[k].filter)
<1>1. CASE RefuseTrigger(k)
  BY <1>1 DEF RefuseTrigger, Send
<1>2. CASE SeekTrigger(k)
  BY <1>2 DEF SeekTrigger, Continue
<1>3. CASE RefuseFilter(k)
  BY <1>3 DEF RefuseFilter, Send
<1>4. CASE SetupFilter(k)
  BY <1>4 DEF SetupFilter, Continue
<1>5. CASE EmitRow(k)
  BY <1>5 DEF EmitRow, loading
<1>6. CASE EndRows(k)
  BY <1>6 DEF EndRows, Send
<1>7. CASE Fault(k)
  BY <1>7 DEF Fault
<1>8. CASE Deliver(k)
  BY <1>8 DEF Deliver, loading
<1>9. CASE \E r \in Requests[k] : Receive(k, r)
  BY <1>9 DEF Receive, loading
<1> QED
  BY <1>1, <1>2, <1>3, <1>4, <1>5, <1>6, <1>7, <1>8, <1>9 DEF Step, Work

(***************************************************************************)
(* Each name adds its ids, and in the end all columns are there.           *)
(***************************************************************************)
LEMMA LoadedAll ==
  ASSUME loaded = Len(Names), NEW type \in Types
  PROVE  LoadedIds(type) = ColumnIds(type)
<1>1. LoadedNames(type) = { x \in Known : PilReferences[x].type = type }
  BY NameFacts DEF LoadedNames
<1> QED
  BY <1>1 DEF LoadedIds, ColumnIds

LEMMA LoadedGrows ==
  ASSUME loaded \in 0 .. Len(Names) - 1, loaded' = loaded + 1, NEW type \in Types
  PROVE  LoadedIds(type)' = LoadedIds(type) \cup
           IF PilReferences[Names[loaded + 1]].type = type THEN Span(Names[loaded + 1]) ELSE {}
<1>1. 1 .. loaded' = 1 .. loaded \cup {loaded + 1}
  BY NameFacts
<1>2. LoadedNames(type)' = LoadedNames(type) \cup
        IF PilReferences[Names[loaded + 1]].type = type THEN {Names[loaded + 1]} ELSE {}
  BY <1>1 DEF LoadedNames
<1> QED
  BY <1>2 DEF LoadedIds

LEMMA LoadInvInit == Init => LoadInv
<1> SUFFICES ASSUME Init PROVE LoadInv
  OBVIOUS
<1> USE DEF Init, Start
<1>1. \A type \in Types : LoadedIds(type) = {}
  BY DEF LoadedIds, LoadedNames
<1>2. \A type \in Types : <<>> = [id \in LoadedIds(type) |-> Reference(type, id)]
  BY <1>1
<1>3. values = [type \in Types |-> [id \in LoadedIds(type) |-> Reference(type, id)]]
  BY <1>2 DEF NoReferences
<1>4. publics \in Seq(ToSet(publics)) /\ Len(publics) = 0 /\ publics = <<>>
  BY EmptySeq
<1>5. Len(Names) \in Nat /\ Len(PilPublics) \in Nat
  BY NameFacts, ReferencesAssumption, LenProperties
<1>6. PublicsExact
  BY <1>4 DEF PublicsExact
<1> QED
  BY <1>3, <1>4, <1>5, <1>6 DEF LoadInv

LEMMA LoadReferenceKeeps == LoadInv /\ LoadReference => LoadInv'
<1> SUFFICES ASSUME LoadInv, LoadReference PROVE LoadInv'
  OBVIOUS
<1> DEFINE name == Names[loaded + 1]
           t == PilReferences[name].type
<1>1. stage = "references" /\ stage' = stage /\ publics' = publics /\ loaded' = loaded + 1
  BY DEF LoadReference
<1>2. loaded \in 0 .. Len(Names) - 1 /\ publics = <<>>
  BY NameFacts, <1>1 DEF LoadInv, LoadReference, AllLoaded
<1>3. loaded' \in 0 .. Len(Names) /\ name \in Known /\ t \in Types
  BY <1>1, <1>2, NameFacts
<1>4. values = [type \in Types |-> [id \in LoadedIds(type) |-> Reference(type, id)]]
  BY <1>1 DEF LoadInv
<1>5. values' = [values EXCEPT ![t] = [id \in DOMAIN values[t] \cup Span(name) |->
                   IF id \in Span(name) THEN Reference(t, id) ELSE values[t][id]]]
  BY <1>1 DEF LoadReference, Added
<1>6. ASSUME NEW type \in Types
      PROVE  values'[type] = [id \in LoadedIds(type)' |-> Reference(type, id)]
  <2>1. CASE type = t
    <3>1. LoadedIds(type)' = LoadedIds(type) \cup Span(name)
      BY <1>1, <1>2, <2>1, LoadedGrows
    <3>2. values'[type] = [id \in LoadedIds(type) \cup Span(name) |->
                             IF id \in Span(name) THEN Reference(type, id) ELSE values[type][id]]
      BY <1>3, <1>4, <1>5, <2>1
    <3>3. \A id \in LoadedIds(type) : values[type][id] = Reference(type, id)
      BY <1>4
    <3> QED
      BY <3>1, <3>2, <3>3
  <2>2. CASE type # t
    <3>1. LoadedIds(type)' = LoadedIds(type)
      BY <1>1, <1>2, <2>2, LoadedGrows
    <3>2. values'[type] = values[type]
      BY <1>4, <1>5, <2>2
    <3> QED
      BY <1>4, <3>1, <3>2
  <2> QED
    BY <2>1, <2>2
<1>7. values' = [type \in Types |-> values'[type]]
  BY <1>4, <1>5
<1>8. values' = [type \in Types |-> [id \in LoadedIds(type)' |-> Reference(type, id)]]
  BY <1>6, <1>7
<1> QED
  BY <1>1, <1>2, <1>3, <1>8 DEF LoadInv, PublicsExact, Given

LEMMA MapFilesKeeps == LoadInv /\ MapFiles => LoadInv'
<1> SUFFICES ASSUME LoadInv, MapFiles PROVE LoadInv'
  OBVIOUS
<1>1. /\ stage = "references" /\ loaded = Len(Names) /\ stage' = "publics" /\ loaded' = 0
      /\ values' = values /\ publics' = publics /\ publics = <<>>
  BY DEF MapFiles, AllLoaded, LoadInv
<1>2. values = [type \in Types |-> [id \in LoadedIds(type) |-> Reference(type, id)]]
  BY <1>1 DEF LoadInv
<1>3. values = Loaded
  BY <1>1, <1>2, LoadedAll DEF Loaded
<1>4. Extends(values') /\ Intact'
  BY <1>1, <1>3, LoadedExtends DEF Intact, Loaded, Reference
<1>5. Len(publics) = 0
  BY <1>1, EmptySeq
<1> QED
  BY <1>1, <1>4, <1>5 DEF LoadInv, PublicsExact, Given

(***************************************************************************)
(* A public that is read from the commitments has the value of its column, *)
(* since every column is there when the publics are read.                  *)
(***************************************************************************)
LEMMA PublicIsExact ==
  ASSUME Intact, NEW i \in DOMAIN PilPublics
  PROVE  LET public == PilPublics[i]
         IN /\ public.polType = "cmP" => PublicValue(i) = ColumnValue["cmP"][public.polId][public.idx]
            /\ public.polType = "imP" /\ Given(i) => PublicValue(i) = PublicsFile[i]
<1> DEFINE public == PilPublics[i]
<1>1. CASE public.polType = "cmP"
  <2>1. public.polId \in ColumnIds("cmP") /\ public.idx \in 0 .. N - 1
    BY <1>1, ReferencesAssumption
  <2>2. Evaluation(values, Reference("cmP", public.polId), public.idx, NULL)
        = ColumnValue["cmP"][public.polId][public.idx]
    BY <2>1, EvaluationExact, TypesDiffer DEF Intact
  <2> QED
    BY <1>1, <2>2 DEF PublicValue
<1>2. CASE public.polType = "imP"
  BY <1>2 DEF PublicValue
<1> QED
  BY <1>1, <1>2

LEMMA LoadPublicKeeps == LoadInv /\ LoadPublic => LoadInv'
<1> SUFFICES ASSUME LoadInv, LoadPublic PROVE LoadInv'
  OBVIOUS
<1> DEFINE n == Len(publics)
<1>1. /\ stage = "publics" /\ stage' = stage /\ values' = values /\ loaded' = loaded + 1
      /\ loaded = n /\ loaded < Len(PilPublics) /\ publics' = Append(publics, PublicValue(loaded + 1))
  BY DEF LoadPublic, LoadInv
<1>2. Intact /\ Intact' /\ Extends(values) /\ Extends(values')
  BY <1>1 DEF LoadInv, Intact, Loaded, Reference
<1>3. DOMAIN PilPublics = 1 .. Len(PilPublics) /\ Len(PilPublics) \in Nat
  BY ReferencesAssumption, LenProperties
<1>4. publics \in Seq(ToSet(publics))
  BY DEF LoadInv
<1>5. n \in Nat /\ DOMAIN publics = 1 .. n
  BY <1>4, LenProperties
<1> DEFINE a == Append(publics, PublicValue(n + 1))
<1>a. /\ a \in Seq(ToSet(a)) /\ Len(a) = n + 1 /\ DOMAIN a = 1 .. n + 1
      /\ \A i \in 1 .. n : a[i] = publics[i]
      /\ a[n + 1] = PublicValue(n + 1)
  <2>1. PICK S : publics \in Seq(S)
    BY <1>4
  <2>2. ASSUME NEW e PROVE Append(publics, e) \in Seq(ToSet(Append(publics, e)))
    BY <2>1, AppendSet
  <2>3. ASSUME NEW e PROVE Len(Append(publics, e)) = n + 1 /\ DOMAIN Append(publics, e) = 1 .. n + 1
    BY <2>1, AppendSet
  <2>4. ASSUME NEW e PROVE \A i \in 1 .. n : Append(publics, e)[i] = publics[i]
    BY <2>1, AppendSet
  <2>5. ASSUME NEW e PROVE Append(publics, e)[n + 1] = e
    BY <2>1, AppendSet
  <2> QED
    BY <2>2, <2>3, <2>4, <2>5
<1>b. publics' = a
  BY <1>1
<1> HIDE DEF a
<1>6. /\ publics' \in Seq(ToSet(publics')) /\ Len(publics') = n + 1 /\ DOMAIN publics' = 1 .. n + 1
      /\ \A i \in 1 .. n : publics'[i] = publics[i]
      /\ publics'[n + 1] = PublicValue(n + 1)
  BY <1>a, <1>b
<1>7. PublicsExact'
  <2> SUFFICES ASSUME NEW i \in 1 .. n + 1
               PROVE  LET public == PilPublics[i]
                      IN /\ public.polType = "cmP" => publics'[i] = ColumnValue["cmP"][public.polId][public.idx]
                         /\ public.polType = "imP" /\ Given(i) => publics'[i] = PublicsFile[i]
    BY <1>6 DEF PublicsExact, Given
  <2>1. CASE i = n + 1
    BY <1>1, <1>2, <1>3, <1>5, <1>6, <2>1, PublicIsExact
  <2>2. CASE i \in 1 .. n
    BY <1>5, <1>6, <2>2 DEF LoadInv, PublicsExact
  <2> QED
    BY <1>5, <2>1, <2>2
<1> QED
  BY <1>1, <1>2, <1>3, <1>5, <1>6, <1>7 DEF LoadInv

LEMMA OthersKeep ==
  ASSUME LoadInv, stage # "references", stage' \in {"serve", "dead"}, UNCHANGED publics, Extends(values)'
  PROVE  LoadInv'
BY DEF LoadInv, PublicsExact, Given

LEMMA LoadInvStep == LoadInv /\ [Next]_vars => LoadInv'
<1> SUFFICES ASSUME LoadInv, [Next]_vars PROVE LoadInv'
  OBVIOUS
<1>1. CASE LoadReference
  BY <1>1, LoadReferenceKeeps
<1>2. CASE MapFiles
  BY <1>2, MapFilesKeeps
<1>3. CASE LoadPublic
  BY <1>3, LoadPublicKeeps
<1>4. CASE PublicFault \/ StartServer
  <2>1. stage = "publics" /\ stage' \in {"dead", "serve"} /\ publics' = publics /\ values' = values
    BY <1>4 DEF PublicFault, StartServer
  <2>2. Extends(values')
    BY <2>1 DEF LoadInv
  <2> QED
    BY <2>1, <2>2, OthersKeep
<1>5. ASSUME NEW k \in Workers, Step(k) PROVE LoadInv'
  <2>1. stage = "serve" /\ stage' = stage /\ publics' = publics
    BY <1>5, StepFacts DEF Running
  <2>2. Extends(values)
    BY <2>1 DEF LoadInv
  <2>3. Extends(values')
    BY <1>5, <2>2, StepFacts, AfterAllExtends
  <2> QED
    BY <2>1, <2>3, OthersKeep
<1>6. CASE UNCHANGED vars
  BY <1>6 DEF vars, loading, LoadInv, PublicsExact, Given, Intact, Loaded, Reference, Extends, LoadedIds, LoadedNames
<1> QED
  BY <1>1, <1>2, <1>3, <1>4, <1>5, <1>6 DEF Next, Loading, Load, Step

LEMMA LoadInvHolds == Spec => []LoadInv
<1> QED
  BY LoadInvInit, LoadInvStep, PTL DEF Spec

(***************************************************************************)
(* Every public that is a commitment, or is given in the file, is loaded   *)
(* with its value (Engine::loadPublics).                                   *)
(***************************************************************************)
THEOREM PublicsAreExact == Spec => []PublicsExact
<1>1. LoadInv => PublicsExact
  BY DEF LoadInv
<1> QED
  BY LoadInvHolds, <1>1, PTL
-----------------------------------------------------------------------------
(***************************************************************************)
(* The natural numbers: a set of them has a least element, and what holds  *)
(* of 0 and of the successor of every n of which it holds, holds of all.   *)
(***************************************************************************)
LEMMA LeastOf ==
  ASSUME NEW S \in SUBSET Nat, S # {}
  PROVE  \E n \in S : \A m \in S : n <= m
<1>1. PICK n \in S : \A m \in S : ~(<<m, n>> \in OpToRel(<, Nat))
  BY NatLessThanWellFounded, WFMin
<1>2. \A m \in S : ~(m < n)
  BY <1>1 DEF OpToRel
<1> QED
  BY <1>2

LEMMA Induction ==
  ASSUME NEW S, 0 \in S, \A n \in Nat : n \in S => n + 1 \in S
  PROVE  Nat \subseteq S
<1> SUFFICES ASSUME Nat \ S # {} PROVE FALSE
  OBVIOUS
<1>1. PICK n \in Nat \ S : \A m \in Nat \ S : n <= m
  BY LeastOf
<1>2. n # 0 /\ n - 1 \in Nat /\ n - 1 < n
  BY <1>1
<1>3. n - 1 \in S
  BY <1>1, <1>2
<1>4. (n - 1) + 1 \in S /\ (n - 1) + 1 = n
  BY <1>2, <1>3
<1> QED
  BY <1>1, <1>4

LEMMA MinIs ==
  ASSUME NEW S \in SUBSET Int, NEW m \in S, \A x \in S : m <= x
  PROVE  Min(S) = m
<1>1. \A y \in S : (\A x \in S : y =< x) => y = m
  OBVIOUS
<1> QED
  BY <1>1 DEF Min

LEMMA MinFacts ==
  ASSUME NEW S \in SUBSET Nat, S # {}
  PROVE  Min(S) \in S /\ \A x \in S : Min(S) <= x
<1>1. PICK m \in S : \A x \in S : m <= x
  BY LeastOf
<1> QED
  BY <1>1, MinIs

(***************************************************************************)
(* The search stops at the first row where all conditions hold, or at the  *)
(* end.                                                                    *)
(***************************************************************************)
LEMMA SeekFacts ==
  ASSUME NEW v, NEW conds, NEW from \in Nat, NEW beyond
  PROVE  LET x == Seek(v, conds, from, beyond)
         IN  /\ conds = <<>> \/ from >= N => x = from
             /\ ~(conds = <<>> \/ from >= N) =>
                  /\ x \in from .. N
                  /\ x = N \/ Holds(v, conds, x, beyond)
                  /\ \A y \in from .. x - 1 : ~Holds(v, conds, y, beyond)
<1>1. CASE conds = <<>> \/ from >= N
  BY <1>1 DEF Seek
<1>2. CASE ~(conds = <<>> \/ from >= N)
  <2> DEFINE P(x) == /\ x = N \/ Holds(v, conds, x, beyond)
                     /\ \A y \in from .. x - 1 : ~Holds(v, conds, y, beyond)
             S == { x \in from .. N : x = N \/ Holds(v, conds, x, beyond) }
  <2>1. N \in Nat /\ N \in S /\ S \subseteq Nat
    BY <1>2, NameFacts
  <2>2. PICK x \in S : \A y \in S : x <= y
    BY <2>1, LeastOf
  <2>3. \A y \in from .. x - 1 : ~Holds(v, conds, y, beyond)
    <3> SUFFICES ASSUME NEW y \in from .. x - 1, Holds(v, conds, y, beyond) PROVE FALSE
      OBVIOUS
    <3>1. y \in from .. N /\ y < x
      BY <2>1, <2>2
    <3>2. y \in S
      BY <3>1
    <3> QED
      BY <2>1, <2>2, <3>1, <3>2
  <2>4. \E z \in from .. N : P(z)
    BY <2>2, <2>3
  <2>5. Seek(v, conds, from, beyond) = CHOOSE z \in from .. N : P(z)
    BY <1>2 DEF Seek
  <2> HIDE DEF P
  <2>6. Seek(v, conds, from, beyond) \in from .. N /\ P(Seek(v, conds, from, beyond))
    BY <2>4, <2>5
  <2> QED
    BY <1>2, <2>6 DEF P
<1> QED
  BY <1>1, <1>2

LEMMA SeekType ==
  ASSUME NEW v, NEW conds, NEW from \in 0 .. Word - 1, NEW beyond
  PROVE  /\ Seek(v, conds, from, beyond) \in 0 .. Word - 1
         /\ Seek(v, conds, from, beyond) >= from
<1>1. N \in Nat /\ Word \in Nat /\ N < Word
  BY NameFacts, QueryAssumption
<1> DEFINE x == Seek(v, conds, from, beyond)
<1>2. x = from \/ x \in from .. N
  BY <1>1, SeekFacts
<1> QED
  BY <1>1, <1>2

LEMMA MinusType ==
  ASSUME NEW a \in 0 .. Word - 1, NEW b \in Nat
  PROVE  Minus(a, b) \in 0 .. Word - 1 /\ (b <= a => Minus(a, b) = a - b)
<1>1. Word \in Nat \ {0} /\ a - b \in Int
  BY QueryAssumption
<1>2. (a - b) % Word \in 0 .. Word - 1
  BY <1>1
<1>3. b <= a => (a - b) % Word = a - b
  BY <1>1
<1> QED
  BY <1>2, <1>3 DEF Minus
-----------------------------------------------------------------------------
(***************************************************************************)
(* The listing: the elements of each name, one name after another.         *)
(***************************************************************************)
Chunk(i) == [j \in 1 .. PilReferences[Names[i]].len |-> [name |-> Names[i], index |-> j - 1]]
Chunks == [i \in DOMAIN Names |-> Chunk(i)]
IsFlat(f, u) == f = [i \in 1 .. u |-> IF i = 1 THEN Chunks[i] ELSE f[i - 1] \o Chunks[i]]

LEMMA FlatExists ==
  ASSUME NEW u \in Nat
  PROVE  \E f : IsFlat(f, u)
<1> DEFINE S == { n \in Nat : \E f : IsFlat(f, n) }
<1>1. 0 \in S
  <2>1. IsFlat(<<>>, 0)
    BY DEF IsFlat
  <2> QED
    BY <2>1
<1>2. ASSUME NEW n \in Nat, n \in S PROVE n + 1 \in S
  <2>1. PICK f : IsFlat(f, n)
    BY <1>2
  <2> DEFINE e == IF n = 0 THEN Chunks[1] ELSE f[n] \o Chunks[n + 1]
             g == [i \in 1 .. n + 1 |-> IF i = n + 1 THEN e ELSE f[i]]
  <2>2. ASSUME NEW i \in 1 .. n + 1
        PROVE  g[i] = IF i = 1 THEN Chunks[i] ELSE g[i - 1] \o Chunks[i]
    <3>1. CASE i = n + 1
      <4>1. g[i] = e /\ (n # 0 => i # 1 /\ i - 1 = n /\ g[i - 1] = f[n])
        BY <3>1
      <4> QED
        BY <3>1, <4>1
    <3>2. CASE i \in 1 .. n
      <4>1. g[i] = f[i] /\ (i # 1 => i - 1 \in 1 .. n /\ g[i - 1] = f[i - 1])
        BY <3>2
      <4>2. f[i] = IF i = 1 THEN Chunks[i] ELSE f[i - 1] \o Chunks[i]
        BY <2>1, <3>2 DEF IsFlat
      <4> QED
        BY <4>1, <4>2
    <3> QED
      BY <3>1, <3>2
  <2>3. IsFlat(g, n + 1)
    <3>1. g = [i \in 1 .. n + 1 |-> g[i]]
      OBVIOUS
    <3> HIDE DEF g
    <3> QED
      BY <2>2, <3>1 DEF IsFlat
  <2> QED
    BY <2>3
<1>3. Nat \subseteq S
  BY <1>1, <1>2, Induction
<1> QED
  BY <1>3

LEMMA ChunkFacts ==
  ASSUME NEW i \in 1 .. Len(Names)
  PROVE  /\ Chunks[i] \in Seq(Elements)
         /\ \A j \in 1 .. Len(Chunks[i]) : Chunks[i][j].name = Names[i] /\ Chunks[i][j].index = j - 1
<1> DEFINE l == PilReferences[Names[i]].len
<1>1. Names[i] \in Known /\ l \in Nat /\ Chunks[i] = Chunk(i)
  BY NameFacts DEF Chunks
<1>2. \A j \in 1 .. l : [name |-> Names[i], index |-> j - 1] \in Elements
  <2> TAKE j \in 1 .. l
  <2>1. j - 1 \in 0 .. l - 1
    BY <1>1
  <2> QED
    BY <1>1, <2>1 DEF Elements
<1>3. Chunk(i) \in [1 .. l -> Elements]
  BY <1>2 DEF Chunk
<1>4. Chunk(i) \in Seq(Elements)
  BY <1>1, <1>3, SeqDef
<1>5. Len(Chunk(i)) = l
  BY <1>1, <1>3, <1>4, LenProperties
<1>6. \A j \in 1 .. l : Chunk(i)[j].name = Names[i] /\ Chunk(i)[j].index = j - 1
  BY DEF Chunk
<1> QED
  BY <1>1, <1>4, <1>5, <1>6

LEMMA NamesDiffer ==
  \A i, j \in 1 .. Len(Names) : Names[i] = Names[j] => i = j
<1> DEFINE D == 1 .. Len(Names)
           f == [i \in D |-> Names[i]]
<1>1. IsFiniteSet(D) /\ Cardinality(D) = Len(Names)
  BY NameFacts, FS_Interval
<1>2. f \in Surjection(D, Known)
  BY NameFacts DEF Surjection
<1>3. Cardinality(Known) = Len(Names)
  BY ReferencesAssumption
<1>4. f \in Injection(D, Known)
  BY <1>1, <1>2, <1>3, FS_Surjection
<1> QED
  BY <1>4 DEF Injection, IsInjective

LEMMA ListedFacts ==
  /\ Listed \in Seq(Elements)
  /\ \A i, j \in 1 .. Len(Listed) : Listed[i] = Listed[j] => i = j
<1> DEFINE n == Len(Names)
<1>1. n \in Nat /\ DOMAIN Names = 1 .. n
  BY NameFacts
<1>2. Chunks \in Seq(Seq(Elements)) /\ Len(Chunks) = n
  <2>1. Chunks \in [1 .. n -> Seq(Elements)]
    BY <1>1, ChunkFacts DEF Chunks
  <2> QED
    BY <1>1, <2>1, SeqDef, LenProperties
<1>3. Listed = FlattenSeq(Chunks)
  BY DEF Listed, Chunks, Chunk
<1>4. CASE n = 0
  <2>1. Listed = Chunks /\ Chunks = <<>>
    BY <1>2, <1>3, <1>4, EmptySeq DEF FlattenSeq
  <2> QED
    BY <2>1, EmptySeq
<1>5. CASE n # 0
  <2> DEFINE F == CHOOSE f : IsFlat(f, Len(Chunks))
  <2>1. IsFlat(F, n)
    BY <1>1, <1>2, FlatExists
  <2>2. Listed = F[n]
    BY <1>2, <1>3, <1>5 DEF FlattenSeq, IsFlat
  <2> HIDE DEF F
  <2> DEFINE Right(u) == /\ F[u] \in Seq(Elements)
                         /\ \A i \in 1 .. Len(F[u]) : \E l \in 1 .. u : F[u][i].name = Names[l]
                         /\ \A i, j \in 1 .. Len(F[u]) : F[u][i] = F[u][j] => i = j
             S == { u \in Nat : u \in 1 .. n => Right(u) }
  <2>3. 0 \in S
    OBVIOUS
  <2>4. ASSUME NEW u \in Nat, u \in S PROVE u + 1 \in S
    <3> SUFFICES ASSUME u + 1 \in 1 .. n PROVE Right(u + 1)
      OBVIOUS
    <3> DEFINE c == Chunks[u + 1]
    <3>1. c \in Seq(Elements) /\ Len(c) \in Nat
      BY ChunkFacts, LenProperties
    <3>2. \A j \in 1 .. Len(c) : c[j].name = Names[u + 1] /\ c[j].index = j - 1
      BY ChunkFacts
    <3>3. \A i, j \in 1 .. Len(c) : c[i] = c[j] => i = j
      BY <3>1, <3>2
    <3>a. \A i \in 1 .. n : F[i] = IF i = 1 THEN Chunks[i] ELSE F[i - 1] \o Chunks[i]
      BY <2>1 DEF IsFlat
    <3>4. F[u + 1] = IF u + 1 = 1 THEN c ELSE F[u + 1 - 1] \o c
      BY <3>a
    <3> HIDE DEF c
    <3>5. CASE u = 0
      <4>1. F[u + 1] = c
        BY <3>4, <3>5
      <4> QED
        BY <3>1, <3>2, <3>3, <4>1
    <3>6. CASE u # 0
      <4> DEFINE b == F[u]
      <4>1. u \in 1 .. n /\ F[u + 1] = b \o c
        BY <3>4, <3>6
      <4>2. Right(u)
        BY <2>4, <4>1
      <4>3. b \in Seq(Elements) /\ Len(b) \in Nat
        BY <4>2, LenProperties
      <4>4. /\ b \o c \in Seq(Elements) /\ Len(b \o c) = Len(b) + Len(c)
            /\ \A i \in 1 .. Len(b) + Len(c) : (b \o c)[i] = IF i <= Len(b) THEN b[i] ELSE c[i - Len(b)]
        BY <3>1, <4>3, ConcatProperties
      <4> DEFINE a == b \o c
      <4>5. \A i \in 1 .. Len(b) : a[i] = b[i] /\ \E l \in 1 .. u : b[i].name = Names[l]
        BY <3>1, <4>2, <4>3, <4>4
      <4>6. ASSUME NEW i \in Len(b) + 1 .. Len(b) + Len(c)
            PROVE  a[i] = c[i - Len(b)] /\ i - Len(b) \in 1 .. Len(c) /\ a[i].name = Names[u + 1]
        <5>1. i - Len(b) \in 1 .. Len(c) /\ i \in 1 .. Len(b) + Len(c) /\ ~(i <= Len(b))
          BY <3>1, <4>3
        <5>2. a[i] = c[i - Len(b)]
          BY <4>4, <5>1
        <5> QED
          BY <3>2, <5>1, <5>2
      <4>7. \A l \in 1 .. u : Names[l] # Names[u + 1]
        BY NamesDiffer, <4>1
      <4>b. ASSUME NEW i \in 1 .. Len(b), NEW j \in Len(b) + 1 .. Len(b) + Len(c)
            PROVE  a[i].name # a[j].name
        <5>1. a[j].name = Names[u + 1]
          BY <4>6
        <5>2. a[i] = b[i]
          BY <4>5
        <5>3. PICK l \in 1 .. u : b[i].name = Names[l]
          BY <4>5
        <5> HIDE DEF a
        <5> QED
          BY <4>7, <5>1, <5>2, <5>3
      <4>8. 1 .. Len(a) = 1 .. Len(b) \cup (Len(b) + 1 .. Len(b) + Len(c))
        BY <3>1, <4>3, <4>4
      <4>9. a \in Seq(Elements)
        BY <4>4
      <4> HIDE DEF a
      <4>10. \A i \in 1 .. Len(a) : \E l \in 1 .. u + 1 : a[i].name = Names[l]
        <5> SUFFICES ASSUME NEW i \in 1 .. Len(a) PROVE \E l \in 1 .. u + 1 : a[i].name = Names[l]
          OBVIOUS
        <5>1. u + 1 \in 1 .. u + 1 /\ \A l \in 1 .. u : l \in 1 .. u + 1
          BY <4>1
        <5>2. CASE i \in 1 .. Len(b)
          <6>1. (\E l \in 1 .. u : b[i].name = Names[l]) /\ a[i] = b[i]
            BY <4>5, <5>2
          <6> QED
            BY <5>1, <6>1
        <5>3. CASE i \in Len(b) + 1 .. Len(b) + Len(c)
          BY <4>6, <5>1, <5>3
        <5> QED
          BY <4>8, <5>2, <5>3
      <4>11. ASSUME NEW i \in 1 .. Len(a), NEW j \in 1 .. Len(a), a[i] = a[j] PROVE i = j
        <5>1. CASE i \in 1 .. Len(b) /\ j \in 1 .. Len(b)
          BY <4>2, <4>5, <4>11, <5>1
        <5>2. CASE i \in Len(b) + 1 .. Len(b) + Len(c) /\ j \in Len(b) + 1 .. Len(b) + Len(c)
          <6>1. c[i - Len(b)] = c[j - Len(b)] /\ i - Len(b) \in 1 .. Len(c) /\ j - Len(b) \in 1 .. Len(c)
            BY <4>6, <4>11, <5>2
          <6>2. i - Len(b) = j - Len(b)
            BY <3>3, <6>1
          <6> QED
            BY <4>3, <6>2
        <5>3. CASE i \in 1 .. Len(b) /\ j \in Len(b) + 1 .. Len(b) + Len(c)
          BY <4>11, <4>b, <5>3
        <5>4. CASE j \in 1 .. Len(b) /\ i \in Len(b) + 1 .. Len(b) + Len(c)
          BY <4>11, <4>b, <5>4
        <5> QED
          BY <4>8, <5>1, <5>2, <5>3, <5>4
      <4>12. F[u + 1] = a
        BY <4>1 DEF a
      <4> QED
        BY <4>9, <4>10, <4>11, <4>12
    <3> QED
      BY <3>5, <3>6
  <2>5. n \in S
    <3> HIDE DEF Right
    <3>1. Nat \subseteq S
      BY <2>3, <2>4, Induction
    <3> QED
      BY <1>1, <3>1
  <2>6. Right(n)
    BY <1>1, <1>5, <2>5
  <2> QED
    BY <2>2, <2>6
<1> QED
  BY <1>4, <1>5
-----------------------------------------------------------------------------
(***************************************************************************)
(* The columns that are included.                                          *)
(***************************************************************************)
IsIncluded(f, p, u) ==
  f = [t \in 0 .. u |->
        IF t = 0 THEN <<>>
        ELSE IF Tested(t) \in Against(p, t) /\ Tested(t) \notin ToSet(f[t - 1])
             THEN Append(f[t - 1], Tested(t))
             ELSE f[t - 1]]

LEMMA IncludedExists ==
  ASSUME NEW p, NEW u \in Nat
  PROVE  \E f : IsIncluded(f, p, u)
<1> DEFINE S == { n \in Nat : \E f : IsIncluded(f, p, n) }
           Next1(f, t) == IF Tested(t) \in Against(p, t) /\ Tested(t) \notin ToSet(f[t - 1])
                          THEN Append(f[t - 1], Tested(t))
                          ELSE f[t - 1]
<1>1. 0 \in S
  <2> DEFINE f == [t \in 0 .. 0 |-> <<>>]
  <2>1. f = [t \in 0 .. 0 |-> IF t = 0 THEN <<>> ELSE Next1(f, t)]
    OBVIOUS
  <2>2. IsIncluded(f, p, 0)
    BY <2>1 DEF IsIncluded
  <2> HIDE DEF f
  <2> QED
    BY <2>2
<1>2. ASSUME NEW n \in Nat, n \in S PROVE n + 1 \in S
  <2>1. PICK f : IsIncluded(f, p, n)
    BY <1>2
  <2> DEFINE g == [t \in 0 .. n + 1 |-> IF t = n + 1 THEN Next1(f, t) ELSE f[t]]
  <2>a. f = [t \in 0 .. n |-> IF t = 0 THEN <<>> ELSE Next1(f, t)]
    BY <2>1 DEF IsIncluded
  <2>2. ASSUME NEW t \in 0 .. n + 1
        PROVE  g[t] = IF t = 0 THEN <<>> ELSE Next1(g, t)
    <3>1. CASE t = n + 1
      <4>1. g[t] = Next1(f, t) /\ t # 0 /\ t - 1 = n /\ g[t - 1] = f[t - 1]
        BY <3>1
      <4> HIDE DEF g
      <4> QED
        BY <4>1
    <3>2. CASE t \in 0 .. n
      <4>1. g[t] = f[t] /\ (t # 0 => t - 1 \in 0 .. n /\ g[t - 1] = f[t - 1])
        BY <3>2
      <4>2. f[t] = IF t = 0 THEN <<>> ELSE Next1(f, t)
        BY <2>a, <3>2
      <4> HIDE DEF g
      <4> QED
        BY <4>1, <4>2
    <3> QED
      BY <3>1, <3>2
  <2>3. IsIncluded(g, p, n + 1)
    <3>1. g = [t \in 0 .. n + 1 |-> g[t]]
      OBVIOUS
    <3> HIDE DEF g
    <3> QED
      BY <2>2, <3>1 DEF IsIncluded
  <2> HIDE DEF g
  <2> QED
    BY <2>3
<1>3. Nat \subseteq S
  BY <1>1, <1>2, Induction
<1> QED
  BY <1>3

LEMMA IncludedSteps ==
  ASSUME NEW p, Turns(p) \in Nat
  PROVE  /\ Included(p)[0] = <<>>
         /\ \A t \in 1 .. Turns(p) :
              Included(p)[t] = IF Tested(t) \in Against(p, t) /\ Tested(t) \notin ToSet(Included(p)[t - 1])
                               THEN Append(Included(p)[t - 1], Tested(t))
                               ELSE Included(p)[t - 1]
<1> DEFINE F == CHOOSE f : IsIncluded(f, p, Turns(p))
<1>1. IsIncluded(F, p, Turns(p))
  BY IncludedExists
<1>2. Included(p) = F
  BY DEF Included, IsIncluded
<1> HIDE DEF F
<1>3. \A t \in 0 .. Turns(p) :
        F[t] = IF t = 0 THEN <<>>
               ELSE IF Tested(t) \in Against(p, t) /\ Tested(t) \notin ToSet(F[t - 1])
                    THEN Append(F[t - 1], Tested(t)) ELSE F[t - 1]
  BY <1>1 DEF IsIncluded
<1> QED
  BY <1>2, <1>3

(***************************************************************************)
(* The turns: one for each pattern and element, and the first of those     *)
(* where a column is found to match.                                       *)
(***************************************************************************)
Hits(p, t) == { u \in 1 .. t : Tested(u) \in Against(p, u) }
HitsOf(p, c) == { u \in Hits(p, Turns(p)) : Tested(u) = c }

LEMMA TurnFacts ==
  ASSUME NEW p, p \in Seq(ToSet(p)), NEW u \in 1 .. Turns(p)
  PROVE  LET m == Len(Listed)
             i == ((u - 1) \div m) + 1
             q == ((u - 1) % m) + 1
         IN  /\ m \in Nat \ {0} /\ i \in 1 .. Len(p) /\ q \in 1 .. m
             /\ u = m * (i - 1) + q
             /\ Tested(u) = Listed[q] /\ Against(p, u) = p[i] /\ Tested(u) \in Elements
<1> DEFINE m == Len(Listed)
           n == Len(p)
<1>1. m \in Nat /\ n \in Nat
  BY ListedFacts, LenProperties
<1>2. m # 0 /\ n # 0 /\ u \in 1 .. m * n
  BY <1>1, Product DEF Turns
<1> DEFINE i == ((u - 1) \div m) + 1
           q == ((u - 1) % m) + 1
<1> HIDE DEF m, n
<1>3. /\ (u - 1) \div m \in 0 .. n - 1 /\ (u - 1) % m \in 0 .. m - 1
      /\ u = 1 + m * ((u - 1) \div m) + ((u - 1) % m)
  BY <1>1, <1>2, Split
<1>4. i \in 1 .. n /\ q \in 1 .. m /\ u = m * (i - 1) + q
  <2>1. i - 1 = (u - 1) \div m /\ m * ((u - 1) \div m) \in Nat
    BY <1>1, <1>3, Positive
  <2> QED
    BY <1>1, <1>3, <2>1
<1>5. Tested(u) = Listed[q] /\ Against(p, u) = p[i]
  BY DEF Tested, Against, m
<1>6. Listed[q] \in Elements
  BY <1>4, ListedFacts, ElementOfSeq DEF m
<1> QED
  BY <1>1, <1>2, <1>4, <1>5, <1>6 DEF m, n

LEMMA TurnOf ==
  ASSUME NEW p, p \in Seq(ToSet(p)), NEW i \in 1 .. Len(p), NEW q \in 1 .. Len(Listed)
  PROVE  LET u == Len(Listed) * (i - 1) + q
         IN  /\ u \in 1 .. Turns(p) /\ Tested(u) = Listed[q] /\ Against(p, u) = p[i]
<1> DEFINE m == Len(Listed)
           n == Len(p)
           u == m * (i - 1) + q
<1>1. m \in Nat \ {0} /\ n \in Nat \ {0} /\ Turns(p) = m * n
  <2>1. m \in Nat /\ n \in Nat
    BY ListedFacts, LenProperties
  <2> QED
    BY <2>1, Product DEF Turns
<1> HIDE DEF m, n
<1>2. i - 1 \in 0 .. n - 1 /\ q - 1 \in 0 .. m - 1
  BY <1>1 DEF m, n
<1>3. 1 + m * (i - 1) + (q - 1) \in 1 .. m * n
  BY <1>1, <1>2, Between
<1>4. m * (i - 1) \in Nat
  BY <1>1, <1>2, Positive
<1>5. u = 1 + m * (i - 1) + (q - 1) /\ u - 1 = (q - 1) + m * (i - 1)
  BY <1>1, <1>2, <1>4
<1>6. (u - 1) \div m = i - 1 /\ (u - 1) % m = q - 1
  <2>1. i - 1 \in Nat
    BY <1>2
  <2>2. ((q - 1) + m * (i - 1)) \div m = i - 1 /\ ((q - 1) + m * (i - 1)) % m = q - 1
    BY <1>1, <1>2, <2>1, Division
  <2> HIDE DEF u
  <2> QED
    BY <1>5, <2>2
<1> HIDE DEF u
<1>7. Tested(u) = Listed[q] /\ Against(p, u) = p[i]
  <2>1. ((u - 1) % m) + 1 = q /\ ((u - 1) \div m) + 1 = i
    BY <1>2, <1>6
  <2> QED
    BY <2>1 DEF Tested, Against, m
<1> QED
  BY <1>1, <1>3, <1>5, <1>7 DEF u, m

(***************************************************************************)
(* After each turn: the columns that have been found to match, once each,  *)
(* in the order of the first turn where they are.                          *)
(***************************************************************************)
First(p, c) == Min(HitsOf(p, c))

IncludedInv(p, t) ==
  LET s == Included(p)[t]
  IN  /\ s \in Seq(Elements)
      /\ ToSet(s) = { Tested(u) : u \in Hits(p, t) }
      /\ \A i \in 1 .. Len(s) : HitsOf(p, s[i]) # {} /\ First(p, s[i]) <= t
      /\ \A i, j \in 1 .. Len(s) : i < j => First(p, s[i]) < First(p, s[j])

LEMMA FirstFacts ==
  ASSUME NEW p, Turns(p) \in Nat, NEW c, HitsOf(p, c) # {}
  PROVE  First(p, c) \in HitsOf(p, c) /\ \A u \in HitsOf(p, c) : First(p, c) <= u
<1>1. HitsOf(p, c) \subseteq Nat
  BY DEF HitsOf, Hits
<1> QED
  BY <1>1, MinFacts DEF First

LEMMA TurnsType ==
  ASSUME NEW p, p \in Seq(ToSet(p))
  PROVE  Turns(p) \in Nat
<1>1. Len(p) \in Nat /\ Len(Listed) \in Nat
  BY LenProperties, ListedFacts
<1> QED
  BY <1>1, Positive DEF Turns

LEMMA IncludedStart ==
  ASSUME NEW p, p \in Seq(ToSet(p))
  PROVE  IncludedInv(p, 0)
<1>1. Included(p)[0] = <<>>
  BY TurnsType, IncludedSteps
<1>2. ToSet(<<>>) = {} /\ Hits(p, 0) = {}
  BY DEF ToSet, Hits
<1>3. <<>> \in Seq(Elements) /\ Len(<<>>) = 0
  BY EmptySeq
<1> QED
  BY <1>1, <1>2, <1>3 DEF IncludedInv

LEMMA IncludedStep ==
  ASSUME NEW p, p \in Seq(ToSet(p)), NEW t \in Nat, t + 1 \in 1 .. Turns(p), IncludedInv(p, t)
  PROVE  IncludedInv(p, t + 1)
<1> DEFINE s == Included(p)[t]
           z == Included(p)[t + 1]
           c == Tested(t + 1)
           T == Turns(p)
<1>1. T \in Nat /\ t \in 0 .. T /\ t \in 0 .. T - 1
  BY TurnsType
<1>2. /\ s \in Seq(Elements) /\ ToSet(s) = { Tested(u) : u \in Hits(p, t) }
      /\ \A i \in 1 .. Len(s) : HitsOf(p, s[i]) # {} /\ First(p, s[i]) <= t
      /\ \A i, j \in 1 .. Len(s) : i < j => First(p, s[i]) < First(p, s[j])
  BY DEF IncludedInv
<1>3. Hits(p, t + 1) = Hits(p, t) \cup IF c \in Against(p, t + 1) THEN {t + 1} ELSE {}
  <2>1. 1 .. t + 1 = 1 .. t \cup {t + 1}
    OBVIOUS
  <2> QED
    BY <2>1 DEF Hits
<1>4. c \in Elements
  BY TurnFacts
<1>5. z = IF c \in Against(p, t + 1) /\ c \notin ToSet(s) THEN Append(s, c) ELSE s
  <2>1. t + 1 - 1 = t
    OBVIOUS
  <2>2. \A x \in 1 .. T : Included(p)[x] =
          IF Tested(x) \in Against(p, x) /\ Tested(x) \notin ToSet(Included(p)[x - 1])
          THEN Append(Included(p)[x - 1], Tested(x)) ELSE Included(p)[x - 1]
    BY <1>1, IncludedSteps
  <2>3. z = IF c \in Against(p, t + 1) /\ c \notin ToSet(Included(p)[t + 1 - 1])
            THEN Append(Included(p)[t + 1 - 1], c) ELSE Included(p)[t + 1 - 1]
    BY <2>2
  <2> QED
    BY <2>1, <2>3
<1>6. Len(s) \in Nat
  BY <1>2, LenProperties
<1>7. \A i \in 1 .. Len(s) : First(p, s[i]) \in Nat /\ First(p, s[i]) <= t + 1
  <2> TAKE i \in 1 .. Len(s)
  <2>1. First(p, s[i]) \in HitsOf(p, s[i]) /\ First(p, s[i]) <= t
    BY <1>1, <1>2, FirstFacts
  <2> QED
    BY <2>1 DEF HitsOf, Hits
<1>8. CASE ~(c \in Against(p, t + 1) /\ c \notin ToSet(s))
  <2>1. z = s
    BY <1>5, <1>8
  <2>2. ToSet(s) = { Tested(u) : u \in Hits(p, t + 1) }
    BY <1>2, <1>3, <1>8
  <2> QED
    BY <1>2, <1>7, <2>1, <2>2 DEF IncludedInv
<1>9. CASE c \in Against(p, t + 1) /\ c \notin ToSet(s)
  <2> HIDE DEF c, s, z
  <2> DEFINE a == Append(s, c)
  <2>1. a \in Seq(Elements)
    BY <1>2, <1>4, AppendProperties
  <2>2. Len(a) = Len(s) + 1 /\ a[Len(s) + 1] = c /\ \A i \in 1 .. Len(s) : a[i] = s[i]
    BY <1>2, <1>4, AppendProperties
  <2>3. ToSet(a) = ToSet(s) \cup {c}
    <3>1. DOMAIN a = 1 .. Len(s) + 1 /\ DOMAIN s = 1 .. Len(s)
      BY <1>2, <2>1, <2>2, LenProperties
    <3>2. 1 .. Len(s) + 1 = 1 .. Len(s) \cup {Len(s) + 1} /\ Len(s) + 1 \in 1 .. Len(s) + 1
      BY <1>6
    <3> HIDE DEF a
    <3> QED
      BY <2>2, <3>1, <3>2 DEF ToSet
  <2>4. z = a
    BY <1>5, <1>9
  <2> HIDE DEF a
  <2>5. ToSet(a) = { Tested(u) : u \in Hits(p, t + 1) }
    BY <1>2, <1>3, <1>9, <2>3 DEF c
  <2>6. HitsOf(p, c) # {} /\ First(p, c) = t + 1
    <3>1. t + 1 \in HitsOf(p, c)
      BY <1>9 DEF HitsOf, Hits, c
    <3>2. First(p, c) \in HitsOf(p, c) /\ First(p, c) <= t + 1
      BY <1>1, <3>1, FirstFacts
    <3>3. First(p, c) \notin 1 .. t
      BY <1>2, <1>9, <3>2 DEF HitsOf, Hits
    <3> QED
      BY <3>1, <3>2, <3>3 DEF HitsOf, Hits
  <2>7. 1 .. Len(a) = 1 .. Len(s) \cup {Len(s) + 1}
    BY <1>6, <2>2
  <2>8. \A i \in 1 .. Len(a) : HitsOf(p, a[i]) # {} /\ First(p, a[i]) <= t + 1
    BY <1>2, <1>7, <2>2, <2>6, <2>7
  <2>9. ASSUME NEW i \in 1 .. Len(a), NEW j \in 1 .. Len(a), i < j
        PROVE  First(p, a[i]) < First(p, a[j])
    <3>1. i \in 1 .. Len(s)
      BY <1>6, <2>7, <2>9
    <3>2. CASE j \in 1 .. Len(s)
      BY <1>2, <2>2, <2>9, <3>1, <3>2
    <3>3. CASE j = Len(s) + 1
      <4>1. First(p, a[i]) <= t /\ First(p, a[i]) \in Nat
        BY <1>2, <1>7, <2>2, <3>1
      <4>2. First(p, a[j]) = t + 1
        BY <2>2, <2>6, <3>3
      <4> QED
        BY <4>1, <4>2
    <3> QED
      BY <2>7, <3>2, <3>3
  <2> QED
    BY <2>1, <2>4, <2>5, <2>8, <2>9 DEF IncludedInv, z
<1> QED
  BY <1>8, <1>9

LEMMA IncludedFacts ==
  ASSUME NEW p, p \in Seq(ToSet(p))
  PROVE  IncludedInv(p, Turns(p))
<1> DEFINE S == { t \in Nat : t \in 0 .. Turns(p) => IncludedInv(p, t) }
<1>1. Turns(p) \in Nat
  BY TurnsType
<1>2. 0 \in S
  BY IncludedStart
<1>3. \A t \in Nat : t \in S => t + 1 \in S
  <2> SUFFICES ASSUME NEW t \in Nat, t \in S, t + 1 \in 0 .. Turns(p) PROVE IncludedInv(p, t + 1)
    OBVIOUS
  <2>1. t \in 0 .. Turns(p) /\ t + 1 \in 1 .. Turns(p)
    BY <1>1
  <2>2. IncludedInv(p, t)
    BY <2>1
  <2> QED
    BY <2>1, <2>2, IncludedStep
<1>4. Nat \subseteq S
  BY <1>2, <1>3, Induction
<1> QED
  BY <1>1, <1>4

(***************************************************************************)
(* Browse takes the operators on sequences and sets from the same modules. *)
(***************************************************************************)
LEMMA SameOperators ==
  /\ \A s : Promise!ToSet(s) = ToSet(s)
  /\ \A S : Promise!Min(S) = Min(S)
BY DEF ToSet, Promise!ToSet, Min, Promise!Min

(***************************************************************************)
(* The turn where a column is first found is the one of its place: its     *)
(* first pattern, and its place in the listing.                            *)
(***************************************************************************)
LEMMA PlaceFacts ==
  ASSUME NEW r, r.name \in Seq(ToSet(r.name)), r.name # <<>>, NEW c, HitsOf(r.name, c) # {}
  PROVE  LET p == Promise!Place(r, c)
         IN  /\ p[1] \in 1 .. Len(r.name) /\ p[2] \in 1 .. Len(Listed)
             /\ First(r.name, c) = Len(Listed) * (p[1] - 1) + p[2]
             /\ c \in ToSet(Listed) /\ c \in UNION ToSet(r.name)
<1> DEFINE name == r.name
           m == Len(Listed)
           u == First(name, c)
           i == ((u - 1) \div m) + 1
           q == ((u - 1) % m) + 1
<1>1. Turns(name) \in Nat
  BY TurnsType
<1>2. /\ u \in 1 .. Turns(name) /\ Tested(u) \in Against(name, u) /\ Tested(u) = c
      /\ \A t \in HitsOf(name, c) : u <= t
  BY <1>1, FirstFacts DEF HitsOf, Hits
<1>3. /\ m \in Nat \ {0} /\ i \in 1 .. Len(name) /\ q \in 1 .. m /\ u = m * (i - 1) + q
      /\ Tested(u) = Listed[q] /\ Against(name, u) = name[i]
  BY <1>2, TurnFacts
<1> HIDE DEF u, i, q
<1>4. Len(name) \in Nat /\ DOMAIN name = 1 .. Len(name) /\ DOMAIN Listed = 1 .. m
  BY LenProperties, ListedFacts
<1>5. c = Listed[q] /\ c \in name[i]
  BY <1>2, <1>3
<1>6. ASSUME NEW j \in DOMAIN name, c \in name[j] PROVE i <= j
  <2> DEFINE t == m * (j - 1) + q
  <2>1. t \in 1 .. Turns(name) /\ Tested(t) = Listed[q] /\ Against(name, t) = name[j]
    BY <1>3, <1>4, TurnOf
  <2>2. u <= t
    BY <1>2, <1>5, <1>6, <2>1 DEF HitsOf, Hits
  <2> HIDE DEF t
  <2>3. SUFFICES ASSUME j <= i - 1 PROVE FALSE
    BY <1>3, <1>4
  <2>4. m * j <= m * (i - 1) /\ m * j = m * (j - 1) + m
    <3>1. m \in Nat /\ j \in Nat /\ j - 1 \in Nat /\ i - 1 \in Nat
      BY <1>3, <1>4
    <3>2. m * j <= m * (i - 1)
      BY <2>3, <3>1, Product
    <3>3. \A a, b \in Nat : a * b = a * (b - 1) + a
      OBVIOUS
    <3> QED
      BY <3>1, <3>2, <3>3
  <2>5. m * (i - 1) \in Nat /\ m * (j - 1) \in Nat
    BY <1>3, <1>4, Positive
  <2> QED
    BY <1>3, <2>2, <2>4, <2>5 DEF t
<1>7. Min({ j \in DOMAIN name : c \in name[j] }) = i
  <2>1. { j \in DOMAIN name : c \in name[j] } \in SUBSET Int /\ i \in { j \in DOMAIN name : c \in name[j] }
    BY <1>3, <1>4, <1>5
  <2>2. \A j \in { j \in DOMAIN name : c \in name[j] } : i <= j
    BY <1>6
  <2> QED
    BY <2>1, <2>2, MinIs
<1>8. (CHOOSE j \in DOMAIN Listed : Listed[j] = c) = q
  BY <1>3, <1>4, <1>5, ListedFacts
<1>9. Promise!Place(r, c) = <<i, q>>
  <2>1. r.name # <<>>
    OBVIOUS
  <2> QED
    BY <1>7, <1>8, <2>1, SameOperators DEF Promise!Place
<1>10. c \in ToSet(Listed) /\ c \in UNION ToSet(name)
  BY <1>3, <1>4, <1>5 DEF ToSet
<1> QED
  BY <1>3, <1>9, <1>10 DEF u

(***************************************************************************)
(* The columns that are shown are those that are promised, in the order    *)
(* that is promised.                                                       *)
(***************************************************************************)
LEMMA TitlesAll ==
  ASSUME NEW r, r.name = <<>>
  PROVE  /\ filterPols(r.name) \in Seq(Elements)
         /\ ToSet(filterPols(r.name)) = Promise!Selected(r)
         /\ \A a : a.titles = filterPols(r.name) => Promise!TitlesRight(r, a)
<1>1. filterPols(r.name) = Listed
  BY DEF filterPols
<1>2. Promise!Selected(r) = ToSet(Listed)
  BY SameOperators DEF Promise!Selected
<1>3. DOMAIN Listed = 1 .. Len(Listed) /\ Len(Listed) \in Nat
  BY ListedFacts, LenProperties
<1>4. \A j \in DOMAIN Listed : Promise!Place(r, Listed[j]) = <<0, j>>
  <2> TAKE j \in DOMAIN Listed
  <2>1. (CHOOSE l \in DOMAIN Listed : Listed[l] = Listed[j]) = j
    BY <1>3, ListedFacts
  <2> QED
    BY <2>1 DEF Promise!Place
<1>5. \A i, j \in DOMAIN Listed : i < j => Promise!Before(Promise!Place(r, Listed[i]), Promise!Place(r, Listed[j]))
  <2> TAKE i, j \in DOMAIN Listed
  <2>1. Promise!Place(r, Listed[i]) = <<0, i>> /\ Promise!Place(r, Listed[j]) = <<0, j>>
    BY <1>4
  <2> QED
    BY <1>3, <2>1 DEF Promise!Before
<1> QED
  BY <1>1, <1>2, <1>5, ListedFacts, SameOperators DEF Promise!TitlesRight

LEMMA Lexicographic ==
  ASSUME NEW m \in Nat, NEW n \in Nat, NEW i \in 1 .. n, NEW j \in 1 .. n,
         NEW p \in 1 .. m, NEW q \in 1 .. m,
         m * (i - 1) + p < m * (j - 1) + q
  PROVE  i < j \/ (i = j /\ p < q)
<1>1. i - 1 \in Nat /\ j - 1 \in Nat /\ m * (i - 1) \in Nat /\ m * (j - 1) \in Nat
  BY Positive
<1>2. ~(j < i)
  <2>1. SUFFICES ASSUME j <= i - 1 PROVE FALSE
    OBVIOUS
  <2>2. m * j <= m * (i - 1)
    BY <1>1, <2>1, Product
  <2>3. m * j = m * (j - 1) + m
    OBVIOUS
  <2> QED
    BY <1>1, <2>2, <2>3
<1>3. i = j => p < q
  BY <1>1
<1> QED
  BY <1>2, <1>3

LEMMA PlaceOrder ==
  ASSUME NEW r, r.name \in Seq(ToSet(r.name)), r.name # <<>>,
         NEW c, HitsOf(r.name, c) # {}, NEW d, HitsOf(r.name, d) # {},
         First(r.name, c) < First(r.name, d)
  PROVE  Promise!Before(Promise!Place(r, c), Promise!Place(r, d))
<1>1. PICK m, n, i, p, j, q :
         /\ m = Len(Listed) /\ n = Len(r.name)
         /\ i = Promise!Place(r, c)[1] /\ p = Promise!Place(r, c)[2]
         /\ j = Promise!Place(r, d)[1] /\ q = Promise!Place(r, d)[2]
  OBVIOUS
<1>2. m \in Nat /\ n \in Nat
  BY <1>1, ListedFacts, LenProperties
<1>3. i \in 1 .. n /\ p \in 1 .. m /\ First(r.name, c) = m * (i - 1) + p
  BY <1>1, PlaceFacts
<1>4. j \in 1 .. n /\ q \in 1 .. m /\ First(r.name, d) = m * (j - 1) + q
  BY <1>1, PlaceFacts
<1>5. m * (i - 1) + p < m * (j - 1) + q
  BY <1>3, <1>4
<1>6. i < j \/ (i = j /\ p < q)
  BY <1>2, <1>3, <1>4, <1>5, Lexicographic
<1> QED
  BY <1>1, <1>6 DEF Promise!Before

LEMMA TitlesSome ==
  ASSUME NEW r, r.name \in Seq(ToSet(r.name)), r.name # <<>>
  PROVE  /\ filterPols(r.name) \in Seq(Elements)
         /\ ToSet(filterPols(r.name)) = Promise!Selected(r)
         /\ \A a : a.titles = filterPols(r.name) => Promise!TitlesRight(r, a)
<1> DEFINE name == r.name
           s == filterPols(name)
           m == Len(Listed)
<1>1. s = Included(name)[Turns(name)]
  BY DEF filterPols
<1>2. /\ s \in Seq(Elements) /\ ToSet(s) = { Tested(u) : u \in Hits(name, Turns(name)) }
      /\ \A i \in 1 .. Len(s) : HitsOf(name, s[i]) # {}
      /\ \A i, j \in 1 .. Len(s) : i < j => First(name, s[i]) < First(name, s[j])
  BY <1>1, IncludedFacts DEF IncludedInv
<1> HIDE DEF s
<1>3. DOMAIN s = 1 .. Len(s)
  BY <1>2, LenProperties
<1>4. DOMAIN Listed = 1 .. m /\ m \in Nat /\ DOMAIN name = 1 .. Len(name) /\ Len(name) \in Nat
  BY ListedFacts, LenProperties
<1>5. Promise!Selected(r) = ToSet(Listed) \cap UNION ToSet(name)
  BY SameOperators DEF Promise!Selected
<1>6. ASSUME NEW c \in ToSet(s) PROVE c \in Promise!Selected(r)
  <2>1. PICK u \in Hits(name, Turns(name)) : c = Tested(u)
    BY <1>2
  <2>2. HitsOf(name, c) # {}
    BY <2>1 DEF HitsOf
  <2> QED
    BY <1>5, <2>2, PlaceFacts
<1>7. ASSUME NEW c \in Promise!Selected(r) PROVE c \in ToSet(s)
  <2>1. PICK q \in 1 .. m : c = Listed[q]
    BY <1>4, <1>5 DEF ToSet
  <2>2. PICK i \in 1 .. Len(name) : c \in name[i]
    BY <1>4, <1>5 DEF ToSet
  <2> DEFINE u == m * (i - 1) + q
  <2>3. u \in 1 .. Turns(name) /\ Tested(u) = c /\ Against(name, u) = name[i]
    BY <2>1, TurnOf
  <2>4. u \in Hits(name, Turns(name))
    BY <2>2, <2>3 DEF Hits
  <2> QED
    BY <1>2, <2>3, <2>4
<1>8. ToSet(s) = Promise!Selected(r)
  BY <1>6, <1>7
<1>9. ASSUME NEW i \in DOMAIN s, NEW j \in DOMAIN s, i < j
      PROVE  Promise!Before(Promise!Place(r, s[i]), Promise!Place(r, s[j]))
  <2>1. HitsOf(name, s[i]) # {} /\ HitsOf(name, s[j]) # {} /\ First(name, s[i]) < First(name, s[j])
    BY <1>2, <1>3, <1>9
  <2> QED
    BY <2>1, PlaceOrder
<1> QED
  BY <1>2, <1>8, <1>9, SameOperators DEF Promise!TitlesRight, s

LEMMA TitlesFacts ==
  ASSUME NEW r, r.name \in Seq(ToSet(r.name))
  PROVE  /\ filterPols(r.name) \in Seq(Elements)
         /\ ToSet(filterPols(r.name)) = Promise!Selected(r)
         /\ \A a : a.titles = filterPols(r.name) => Promise!TitlesRight(r, a)
BY TitlesAll, TitlesSome
-----------------------------------------------------------------------------
(***************************************************************************)
(* The requests, and what parseOptions makes of them.                      *)
(***************************************************************************)
LEMMA RequestFacts ==
  ASSUME NEW k \in Workers, NEW r \in Requests[k]
  PROVE  /\ r # NULL
         /\ r.from \in 0 .. Word - 1 /\ r.before \in Nat /\ r.count \in Nat /\ r.skip \in Int
         /\ r.name \in Seq(ToSet(r.name)) /\ r.filter \in Seq(ToSet(r.filter))
         /\ DOMAIN r.filter = 1 .. Len(r.filter) /\ Len(r.filter) \in Nat
         /\ r.trigger # NULL => r.trigger.index \in Nat
         /\ \A i \in DOMAIN r.filter : r.filter[i].index \in Nat
<1>1. r # NULL /\ IsRequest(r) /\ r.from < Word /\ Word \in Nat
  BY QueryAssumption
<1>2. r.from \in Nat /\ r.before \in Nat /\ r.count \in Nat /\ r.skip \in Int
  BY <1>1 DEF IsRequest
<1>3. /\ r.name \in Seq(ToSet(r.name)) /\ r.filter \in Seq(ToSet(r.filter))
      /\ r.trigger # NULL => r.trigger.index \in Nat
      /\ \A i \in DOMAIN r.filter : r.filter[i].index \in Nat
  BY <1>1 DEF IsRequest, IsCondition
<1>4. DOMAIN r.filter = 1 .. Len(r.filter) /\ Len(r.filter) \in Nat
  BY <1>3, LenProperties
<1> QED
  BY <1>1, <1>2, <1>3, <1>4

LEMMA OptionFacts ==
  ASSUME NEW k \in Workers, NEW r \in Requests[k]
  PROVE  /\ Options(r).count \in Nat /\ Options(r).count = Promise!Limit(r)
         /\ Options(r).nozeros <=> r.nozeros /\ ~r.compact
         /\ Options(r).changes <=> r.changes /\ ~r.compact
<1>1. DOMAIN r = {"from", "count", "before", "skip", "trigger", "filter", "name", "compact",
                  "nozeros", "changes", "export"}
  BY QueryAssumption DEF IsRequest
<1>3. MaxCount \in Nat /\ r.count \in Nat
  BY QueryAssumption, RequestFacts
<1>4. Min({r.count, MaxCount}) = IF r.count > MaxCount THEN MaxCount ELSE r.count
  <2>1. CASE r.count > MaxCount
    BY <1>3, <2>1, MinIs
  <2>2. CASE ~(r.count > MaxCount)
    BY <1>3, <2>2, MinIs
  <2> QED
    BY <2>1, <2>2
<1>5. Promise!Limit(r) = IF r.export THEN r.count ELSE Min({r.count, MaxCount})
  BY SameOperators DEF Promise!Limit
<1>6. Options(r).count = IF ~r.export /\ r.count > MaxCount THEN MaxCount ELSE r.count
  BY <1>1 DEF Options
<1>7. Options(r).nozeros <=> r.nozeros /\ ~r.compact
  BY <1>1 DEF Options
<1>8. Options(r).changes <=> r.changes /\ ~r.compact
  BY <1>1 DEF Options
<1> QED
  BY <1>3, <1>4, <1>5, <1>6, <1>7, <1>8

(***************************************************************************)
(* An element of a column is found, and has the value of a field element.  *)
(***************************************************************************)
LEMMA ElementFacts ==
  ASSUME NEW v, Extends(v), NEW x \in Known, NEW index \in 0 .. PilReferences[x].len - 1
  PROVE  /\ PilReferences[x].type \in Types
         /\ ElementId(x, index) \in Span(x) /\ ElementId(x, index) \in ColumnIds(PilReferences[x].type)
         /\ ElementId(x, index) = PilReferences[x].id + index
         /\ Referenced(v, x, index) = Reference(PilReferences[x].type, ElementId(x, index))
         /\ Referenced(v, x, index) # NULL
<1> DEFINE p == PilReferences[x]
           id == ElementId(x, index)
<1>1. /\ p.type \in Types /\ p.id \in Nat /\ p.len \in Nat /\ Span(x) \subseteq ColumnIds(p.type)
      /\ ColumnIds(p.type) \subseteq Nat
  BY NameFacts
<1>2. id = p.id + index /\ id \in Span(x)
  BY <1>1 DEF ElementId, Span
<1>3. id \in ColumnIds(p.type) /\ id \in Nat
  BY <1>1, <1>2
<1>4. id \in DOMAIN v[p.type] /\ v[p.type][id] = Reference(p.type, id)
  BY <1>1, <1>3 DEF Extends
<1>5. Referenced(v, x, index) = Reference(p.type, id)
  BY <1>4 DEF Referenced, Get
<1>6. Reference(p.type, id) # NULL
  BY <1>1, <1>3, ReferencesAssumption DEF Reference
<1> QED
  BY <1>1, <1>2, <1>3, <1>5, <1>6

LEMMA ElementsAre ==
  ASSUME NEW c \in Elements
  PROVE  c.name \in Known /\ c.index \in 0 .. PilReferences[c.name].len - 1
BY DEF Elements

LEMMA CellType ==
  ASSUME NEW v, Extends(v), NEW c \in Elements, NEW x \in 0 .. N - 1, NEW beyond \in Field
  PROVE  Evaluation(v, Of(v, c), x, beyond) \in Field
<1> DEFINE t == PilReferences[c.name].type
           id == ElementId(c.name, c.index)
           ref == Of(v, c)
<1>1. t \in Types /\ id \in ColumnIds(t) /\ ref = Reference(t, id)
  BY ElementsAre, ElementFacts DEF Of
<1>2. ref.type = t /\ ref.id = id
  BY <1>1 DEF Reference
<1> HIDE DEF t, id, ref
<1>3. \A i \in ColumnIds(t) : ColumnValue[t][i] \in [0 .. N - 1 -> Field]
  BY <1>1, QueryAssumption
<1>4. CASE t = "imP"
  <2>1. Evaluation(v, ref, x, beyond) = ColumnValue[t][id][x]
    BY <1>2, <1>4 DEF Evaluation
  <2> QED
    BY <1>1, <1>3, <2>1 DEF ref
<1>5. CASE t # "imP"
  <2>1. t \in {"constP", "cmP"}
    BY <1>1, <1>5 DEF Types
  <2> DEFINE W == Width[t]
             o == Offset(v, ref, x)
  <2>2. W \in Nat /\ ColumnIds(t) = 0 .. W - 1
    BY <2>1, WidthFacts
  <2>3. CASE InFile(v, ref, x)
    <3>1. /\ o \in DOMAIN File[t] /\ Evaluation(v, ref, x, beyond) = File[t][o]
      BY <1>2, <1>5, <2>3 DEF InFile, Evaluation
    <3>2. o \in 0 .. N * W - 1 /\ File[t][o] = ColumnValue[t][o % W][o \div W]
      BY <2>1, <3>1 DEF File
    <3> HIDE DEF o, W
    <3>3. N \in Nat \ {0} /\ N * W \in Nat /\ W * N = N * W
      BY <2>2, NameFacts, Positive, Product
    <3>4. W # 0 /\ o \in Nat /\ o + 1 \in 1 .. W * N /\ (o + 1) - 1 = o
      BY <2>2, <3>2, <3>3
    <3>5. o \div W \in 0 .. N - 1 /\ o % W \in 0 .. W - 1
      <4>1. ((o + 1) - 1) \div W \in 0 .. N - 1 /\ ((o + 1) - 1) % W \in 0 .. W - 1
        BY <2>2, <3>3, <3>4, Split
      <4> QED
        BY <3>4, <4>1
    <3>6. ColumnValue[t][o % W] \in [0 .. N - 1 -> Field]
      BY <1>3, <2>2, <3>5
    <3> QED
      BY <3>1, <3>2, <3>5, <3>6 DEF ref
  <2>4. CASE ~InFile(v, ref, x)
    BY <1>2, <1>5, <2>4 DEF Evaluation, ref
  <2> QED
    BY <2>3, <2>4
<1> QED
  BY <1>4, <1>5
-----------------------------------------------------------------------------
(***************************************************************************)
(* A step of a worker leaves what belongs to the others alone.             *)
(***************************************************************************)
Mine(k) == <<pc[k], request[k], pols[k], w[k], rows[k], evaluations[k], answer[k]>>

LEMMA StepShape ==
  ASSUME WorkersInv, NEW k \in Workers, Step(k)
  PROVE  /\ pc' = [pc EXCEPT ![k] = pc'[k]] /\ request' = [request EXCEPT ![k] = request'[k]]
         /\ pols' = [pols EXCEPT ![k] = pols'[k]] /\ w' = [w EXCEPT ![k] = w'[k]]
         /\ rows' = [rows EXCEPT ![k] = rows'[k]]
         /\ evaluations' = [evaluations EXCEPT ![k] = evaluations'[k]]
         /\ answer' = [answer EXCEPT ![k] = answer'[k]]
         /\ alive' \in BOOLEAN
<1>1. /\ alive \in BOOLEAN
      /\ pc = [j \in Workers |-> pc[j]] /\ request = [j \in Workers |-> request[j]]
      /\ pols = [j \in Workers |-> pols[j]] /\ w = [j \in Workers |-> w[j]]
      /\ rows = [j \in Workers |-> rows[j]] /\ evaluations = [j \in Workers |-> evaluations[j]]
      /\ answer = [j \in Workers |-> answer[j]]
  BY DEF WorkersInv
<1>2. CASE RefuseTrigger(k) \/ RefuseFilter(k) \/ EndRows(k)
  <2>1. \E a : Send(k, a)
    BY <1>2 DEF RefuseTrigger, RefuseFilter, EndRows
  <2> QED
    BY <1>1, <2>1 DEF Send
<1>3. CASE SeekTrigger(k)
  BY <1>1, <1>3 DEF SeekTrigger, Continue
<1>4. CASE SetupFilter(k)
  BY <1>1, <1>4 DEF SetupFilter, Continue
<1>5. CASE EmitRow(k)
  BY <1>1, <1>5 DEF EmitRow
<1>6. CASE Fault(k)
  BY <1>1, <1>6 DEF Fault, local
<1>7. CASE Deliver(k)
  BY <1>1, <1>7 DEF Deliver
<1>8. CASE \E r \in Requests[k] : Receive(k, r)
  BY <1>1, <1>8 DEF Receive
<1> QED
  BY <1>2, <1>3, <1>4, <1>5, <1>6, <1>7, <1>8 DEF Step, Work

LEMMA StepOthers ==
  ASSUME WorkersInv, NEW k \in Workers, Step(k)
  PROVE  /\ \A j \in Workers \ {k} : UNCHANGED Mine(j)
         /\ alive' \in BOOLEAN
         /\ pc' = [j \in Workers |-> pc'[j]] /\ request' = [j \in Workers |-> request'[j]]
         /\ pols' = [j \in Workers |-> pols'[j]] /\ w' = [j \in Workers |-> w'[j]]
         /\ rows' = [j \in Workers |-> rows'[j]] /\ evaluations' = [j \in Workers |-> evaluations'[j]]
         /\ answer' = [j \in Workers |-> answer'[j]]
<1>1. /\ pc = [j \in Workers |-> pc[j]] /\ request = [j \in Workers |-> request[j]]
      /\ pols = [j \in Workers |-> pols[j]] /\ w = [j \in Workers |-> w[j]]
      /\ rows = [j \in Workers |-> rows[j]] /\ evaluations = [j \in Workers |-> evaluations[j]]
      /\ answer = [j \in Workers |-> answer[j]]
  BY DEF WorkersInv
<1>2. ASSUME NEW f, NEW g, NEW e, f = [j \in Workers |-> f[j]], g = [f EXCEPT ![k] = e]
      PROVE  g = [j \in Workers |-> g[j]] /\ \A j \in Workers \ {k} : g[j] = f[j]
  BY <1>2
<1> QED
  BY <1>1, <1>2, StepShape DEF Mine

LEMMA WorkerFrame ==
  ASSUME NEW j \in Workers, WorkerInv(j), stage' = stage, UNCHANGED Mine(j)
  PROVE  WorkerInv(j)'
<1>1. /\ pc'[j] = pc[j] /\ request'[j] = request[j] /\ pols'[j] = pols[j]
      /\ w'[j] = w[j] /\ rows'[j] = rows[j] /\ answer'[j] = answer[j]
  BY DEF Mine
<1>2. Resolvable(j)' = Resolvable(j) /\ options(j)' = options(j) /\ Working(j)' = Working(j)
  BY <1>1 DEF Resolvable, Trigger, options, Working
<1> QED
  BY <1>1, <1>2 DEF WorkerInv

(***************************************************************************)
(* Each step of a worker keeps what is known of it.                        *)
(***************************************************************************)
LEMMA SendKeeps ==
  ASSUME WorkersInv, NEW k \in Workers, Working(k), Running, NEW a, a # NULL, Send(k, a)
  PROVE  WorkerInv(k)'
<1>1. /\ pc'[k] = "sent" /\ request'[k] = request[k] /\ pols'[k] = <<>> /\ w'[k] = 0 /\ rows'[k] = <<>>
      /\ answer'[k] = a /\ stage' = stage
  BY DEF Send, WorkersInv
<1>2. WorkerInv(k) /\ Word \in Nat \ {0}
  BY QueryAssumption, NameFacts DEF WorkersInv
<1>3. request[k] \in Requests[k]
  BY <1>2 DEF WorkerInv, Working
<1>4. <<>> \in Seq(Elements) /\ <<>> \in Seq(Row) /\ 0 \in 0 .. Word - 1
  BY <1>2, EmptySeq
<1> QED
  BY <1>1, <1>3, <1>4 DEF WorkerInv, Working, Running

LEMMA ReceiveKeeps ==
  ASSUME WorkersInv, NEW k \in Workers, NEW r \in Requests[k], Receive(k, r)
  PROVE  WorkerInv(k)'
<1>1. /\ pc[k] = "idle" /\ pc'[k] = "trigger" /\ request'[k] = r /\ pols'[k] = pols[k]
      /\ w'[k] = r.from /\ rows'[k] = rows[k]
      /\ answer'[k] = answer[k] /\ stage' = stage /\ stage = "serve"
  BY DEF Receive, WorkersInv, loading, Running
<1>2. /\ answer[k] = NULL /\ rows[k] = <<>> /\ pols[k] \in Seq(Elements) /\ rows[k] \in Seq(Row)
  BY <1>1 DEF WorkerInv, WorkersInv
<1>3. r.from \in 0 .. Word - 1 /\ Options(r).count \in Nat /\ Len(rows[k]) = 0
  BY <1>2, RequestFacts, OptionFacts, EmptySeq
<1> QED
  BY <1>1, <1>2, <1>3 DEF WorkerInv, Working, options

LEMMA DeliverKeeps ==
  ASSUME WorkersInv, NEW k \in Workers, Deliver(k)
  PROVE  WorkerInv(k)'
<1>1. /\ pc[k] = "sent" /\ pc'[k] = "idle" /\ request'[k] = NULL /\ pols'[k] = pols[k]
      /\ w'[k] = w[k] /\ rows'[k] = rows[k]
      /\ answer'[k] = NULL /\ stage' = stage /\ stage = "serve"
  BY DEF Deliver, WorkersInv, loading, Running
<1>2. /\ rows[k] = <<>> /\ pols[k] \in Seq(Elements) /\ rows[k] \in Seq(Row) /\ w[k] \in 0 .. Word - 1
  BY <1>1 DEF WorkerInv, WorkersInv
<1> QED
  BY <1>1, <1>2 DEF WorkerInv, Working

LEMMA SeekTriggerKeeps ==
  ASSUME WorkersInv, NEW k \in Workers, SeekTrigger(k)
  PROVE  WorkerInv(k)'
<1>1. /\ pc[k] = "trigger" /\ pc'[k] = "filter" /\ request'[k] = request[k]
      /\ pols'[k] = filterPols(request[k].name) /\ rows'[k] = rows[k]
      /\ answer'[k] = answer[k] /\ stage' = stage /\ stage = "serve" /\ Resolvable(k)
  BY DEF SeekTrigger, Continue, WorkersInv, Running
<1>2. /\ request[k] \in Requests[k] /\ answer[k] = NULL /\ w[k] \in 0 .. Word - 1
      /\ rows[k] = <<>> /\ rows[k] \in Seq(Row) /\ Len(rows[k]) <= options(k).count
  BY <1>1 DEF WorkerInv, WorkersInv, Working
<1>3. filterPols(request[k].name) \in Seq(Elements)
  BY <1>2, RequestFacts, TitlesFacts
<1>4. w'[k] \in 0 .. Word - 1
  <2>1. PICK found : found \in 0 .. Word - 1
                     /\ w' = [w EXCEPT ![k] = IF Trigger(k) = <<>> THEN found ELSE Minus(found, request[k].before)]
    BY <1>2, SeekType DEF SeekTrigger
  <2>2. Minus(found, request[k].before) \in 0 .. Word - 1
    BY <1>2, <2>1, RequestFacts, MinusType
  <2> QED
    BY <2>1, <2>2 DEF WorkersInv
<1>5. Resolvable(k)' /\ options(k)' = options(k)
  BY <1>1 DEF Resolvable, Trigger, options
<1> QED
  BY <1>1, <1>2, <1>3, <1>4, <1>5 DEF WorkerInv, Working

LEMMA FilteredType ==
  ASSUME WorkersInv, NEW k \in Workers, Working(k), NEW v, NEW beyond
  PROVE  Filtered(k, v, beyond) \in 0 .. Word - 1
<1>1. request[k] \in Requests[k] /\ w[k] \in 0 .. Word - 1
  BY DEF WorkerInv, WorkersInv, Working
<1> DEFINE found == Seek(v, request[k].filter, w[k], beyond)
<1>2. found \in 0 .. Word - 1
  BY <1>1, SeekType
<1> HIDE DEF found
<1>3. Minus(found, request[k].before) \in 0 .. Word - 1
  BY <1>1, <1>2, RequestFacts, MinusType
<1> QED
  BY <1>2, <1>3 DEF Filtered, found

LEMMA SetupFilterKeeps ==
  ASSUME WorkersInv, NEW k \in Workers, SetupFilter(k)
  PROVE  WorkerInv(k)'
<1>1. /\ pc[k] = "filter" /\ pc'[k] = "rows" /\ request'[k] = request[k]
      /\ pols'[k] = pols[k] /\ rows'[k] = rows[k]
      /\ answer'[k] = answer[k] /\ stage' = stage /\ stage = "serve" /\ Good(request[k].filter)
  BY DEF SetupFilter, Continue, WorkersInv, Running
<1>2. /\ request[k] \in Requests[k] /\ answer[k] = NULL
      /\ rows[k] = <<>> /\ rows[k] \in Seq(Row) /\ Len(rows[k]) <= options(k).count
      /\ pols[k] \in Seq(Elements) /\ Resolvable(k) /\ pols[k] = filterPols(request[k].name)
  BY <1>1 DEF WorkerInv, WorkersInv, Working
<1>3. w'[k] \in 0 .. Word - 1
  <2>1. PICK beyond : w' = [w EXCEPT ![k] = Filtered(k, values', beyond)]
    BY DEF SetupFilter
  <2> QED
    BY <1>1, <2>1, FilteredType DEF WorkersInv, Working
<1>4. Resolvable(k)' /\ options(k)' = options(k)
  BY <1>1, <1>2 DEF Resolvable, Trigger, options
<1> QED
  BY <1>1, <1>2, <1>3, <1>4 DEF WorkerInv, Working

\* The row that EmitRow adds, and what it is made of.
NewRow(k, x) == [w |-> x, cells |-> Restrict(evaluations'[k], Shown(k, evaluations'[k]))]

LEMMA EmitRowIs ==
  ASSUME WorkersInv, NEW k \in Workers, EmitRow(k)
  PROVE  \E beyond \in Beyond(values), x \in 0 .. N - 1 :
           /\ x = Filtered(k, values, beyond)
           /\ evaluations'[k] = Cells(k, values, x, beyond)
           /\ w'[k] = x + 1
           /\ rows'[k] = Append(rows[k], NewRow(k, x))
<1>1. /\ w = [j \in Workers |-> w[j]] /\ rows = [j \in Workers |-> rows[j]]
      /\ evaluations = [j \in Workers |-> evaluations[j]]
  BY DEF WorkersInv
<1>2. PICK beyond \in Beyond(values), x \in 0 .. N - 1 :
        /\ x = Filtered(k, values, beyond)
        /\ evaluations' = [evaluations EXCEPT ![k] = Cells(k, values, x, beyond)]
        /\ w' = [w EXCEPT ![k] = x + 1]
  BY DEF EmitRow
<1>3. evaluations'[k] = Cells(k, values, x, beyond) /\ w'[k] = x + 1 /\ w'[k] - 1 = x
  BY <1>1, <1>2, NameFacts
<1>4. rows' = [rows EXCEPT ![k] =
                 Append(@, [w |-> w'[k] - 1, cells |-> Restrict(evaluations'[k], Shown(k, evaluations'[k]))])]
  BY DEF EmitRow
<1>5. rows'[k] = Append(rows[k], NewRow(k, x))
  BY <1>1, <1>3, <1>4 DEF NewRow
<1> QED
  BY <1>2, <1>3, <1>5

LEMMA NewRowType ==
  ASSUME WorkersInv, Extends(values), NEW k \in Workers, pc[k] = "rows",
         NEW x \in 0 .. N - 1, NEW beyond \in Beyond(values), evaluations'[k] = Cells(k, values, x, beyond)
  PROVE  /\ NewRow(k, x) \in Row /\ NewRow(k, x).w = x
         /\ NewRow(k, x).cells = [c \in Shown(k, evaluations'[k]) |-> evaluations'[k][c]]
<1> DEFINE cells == evaluations'[k]
           S == Shown(k, cells)
<1>1. beyond \in Field
  BY QueryAssumption DEF Beyond
<1>2. ToSet(pols[k]) \subseteq Elements
  BY SeqOfSet DEF WorkersInv, WorkerInv
<1>3. cells \in [ToSet(pols[k]) -> Field]
  BY <1>1, <1>2, CellType DEF Cells
<1>4. S \subseteq ToSet(pols[k])
  BY <1>3 DEF Shown
<1>5. Restrict(cells, S) = [c \in S |-> cells[c]]
  BY DEF Restrict
<1> HIDE DEF cells, S
<1>6. Restrict(cells, S) \in [S -> Field]
  BY <1>3, <1>4, <1>5
<1>7. S \in SUBSET Elements
  BY <1>2, <1>4
<1>8. [w |-> x, cells |-> Restrict(cells, S)] \in Row
  BY <1>6, <1>7 DEF Row
<1>9. NewRow(k, x) = [w |-> x, cells |-> Restrict(cells, S)]
  BY DEF NewRow, cells, S
<1> QED
  BY <1>5, <1>8, <1>9 DEF cells, S

LEMMA EmitRowKeeps ==
  ASSUME WorkersInv, Extends(values), NEW k \in Workers, EmitRow(k)
  PROVE  WorkerInv(k)'
<1>1. /\ pc[k] = "rows" /\ pc'[k] = pc[k] /\ request'[k] = request[k] /\ pols'[k] = pols[k]
      /\ answer'[k] = answer[k] /\ stage' = stage /\ More(k)
  BY DEF EmitRow, WorkersInv, loading
<1>2. WorkerInv(k)
  BY DEF WorkersInv
<1>3. PICK beyond \in Beyond(values), x \in 0 .. N - 1 :
           /\ evaluations'[k] = Cells(k, values, x, beyond)
           /\ w'[k] = x + 1
           /\ rows'[k] = Append(rows[k], NewRow(k, x))
  BY EmitRowIs
<1>4. rows[k] \in Seq(Row) /\ Len(rows[k]) \in Nat /\ request[k] \in Requests[k]
  BY <1>1, <1>2, LenProperties DEF WorkerInv
<1>5. rows'[k] \in Seq(Row) /\ Len(rows'[k]) = Len(rows[k]) + 1
  <2>1. NewRow(k, x) \in Row
    BY <1>1, <1>3, NewRowType
  <2>2. Append(rows[k], NewRow(k, x)) \in Seq(Row) /\ Len(Append(rows[k], NewRow(k, x))) = Len(rows[k]) + 1
    BY <1>4, <2>1, AppendProperties
  <2> QED
    BY <1>3, <2>2
<1>6. options(k).count \in Nat
  BY <1>4, OptionFacts DEF options
<1>7. Len(rows'[k]) <= options(k).count
  BY <1>1, <1>4, <1>5, <1>6 DEF More
<1>8. w'[k] \in 0 .. Word - 1
  BY <1>3, NameFacts, QueryAssumption
<1>9. Resolvable(k)' = Resolvable(k) /\ options(k)' = options(k)
  BY <1>1 DEF Resolvable, Trigger, options
<1> QED
  BY <1>1, <1>2, <1>5, <1>7, <1>8, <1>9 DEF WorkerInv, Working

LEMMA AnswerFacts ==
  ASSUME WorkersInv, NEW k \in Workers
  PROVE  [titles |-> pols[k], rows |-> rows[k]] \notin {NULL, Failed} /\ Failed # NULL
<1>1. [titles |-> pols[k], rows |-> rows[k]] \in Answers
  BY DEF WorkersInv, WorkerInv, Answers
<1> QED
  BY <1>1, QueryAssumption

LEMMA FaultKeeps ==
  ASSUME WorkersInv, NEW k \in Workers, Fault(k)
  PROVE  WorkerInv(k)'
<1>1. stage' = stage /\ UNCHANGED Mine(k)
  BY DEF Fault, local, Mine
<1> QED
  BY <1>1, WorkerFrame DEF WorkersInv

LEMMA WorkersInvStep ==
  ASSUME WorkersInv, Extends(values), NEW k \in Workers, Step(k)
  PROVE  WorkersInv'
<1>1. stage' = stage
  BY StepFacts
<1>2. ASSUME NEW j \in Workers \ {k} PROVE WorkerInv(j)'
  BY <1>1, StepOthers, WorkerFrame DEF WorkersInv
<1>3. WorkerInv(k)'
  <2>1. CASE RefuseTrigger(k) \/ RefuseFilter(k) \/ EndRows(k)
    <3>1. Running /\ Working(k) /\ \E a : a # NULL /\ Send(k, a)
      BY <2>1, AnswerFacts DEF RefuseTrigger, RefuseFilter, EndRows, Working
    <3> QED
      BY <3>1, SendKeeps
  <2> QED
    BY <2>1, SeekTriggerKeeps, SetupFilterKeeps, EmitRowKeeps, FaultKeeps, DeliverKeeps, ReceiveKeeps
       DEF Step, Work
<1> QED
  BY <1>2, <1>3, StepOthers DEF WorkersInv

LEMMA WorkersInvInit == Init => WorkersInv
<1> SUFFICES ASSUME Init PROVE WorkersInv
  OBVIOUS
<1>1. <<>> \in Seq(Elements) /\ <<>> \in Seq(Row) /\ 0 \in 0 .. Word - 1
  BY EmptySeq, QueryAssumption, NameFacts
<1>2. \A k \in Workers : WorkerInv(k)
  BY <1>1 DEF Init, WorkerInv, Working, Start
<1> QED
  BY <1>2 DEF Init, WorkersInv

LEMMA WorkersInvLoad ==
  ASSUME WorkersInv, Loading
  PROVE  WorkersInv'
<1>1. alive' = alive /\ pc' = pc /\ request' = request /\ pols' = pols /\ w' = w
      /\ rows' = rows /\ evaluations' = evaluations /\ answer' = answer
  BY DEF Loading, local
<1>2. stage # "serve"
  BY DEF Loading, Load, LoadReference, MapFiles, LoadPublic, PublicFault, StartServer
<1>3. ASSUME NEW k \in Workers PROVE WorkerInv(k)'
  <2>1. WorkerInv(k)
    BY DEF WorkersInv
  <2>2. pc[k] = "idle"
    BY <1>2, <2>1 DEF WorkerInv
  <2> QED
    BY <1>1, <2>1, <2>2 DEF WorkerInv, Working
<1> QED
  BY <1>1, <1>3 DEF WorkersInv

LEMMA WorkersInvNext == LoadInv /\ WorkersInv /\ [Next]_vars => WorkersInv'
<1> SUFFICES ASSUME LoadInv, WorkersInv, [Next]_vars PROVE WorkersInv'
  OBVIOUS
<1>1. ASSUME NEW k \in Workers, Step(k) PROVE WorkersInv'
  <2>1. Extends(values)
    BY <1>1, StepFacts DEF LoadInv, Running
  <2> QED
    BY <1>1, <2>1, WorkersInvStep
<1>2. CASE UNCHANGED vars
  <2>1. stage' = stage /\ \A k \in Workers : UNCHANGED Mine(k)
    BY <1>2 DEF vars, local, loading, Mine
  <2>2. \A k \in Workers : WorkerInv(k)'
    BY <2>1, WorkerFrame DEF WorkersInv
  <2> QED
    BY <1>2, <2>2 DEF WorkersInv, vars, local
<1> QED
  BY <1>1, <1>2, WorkersInvLoad DEF Next, Step

LEMMA WorkersInvHolds == Spec => [](LoadInv /\ WorkersInv)
<1>1. Init => LoadInv /\ WorkersInv
  BY LoadInvInit, WorkersInvInit
<1>2. LoadInv /\ WorkersInv /\ [Next]_vars => (LoadInv /\ WorkersInv)'
  BY LoadInvStep, WorkersInvNext
<1> QED
  BY <1>1, <1>2, PTL DEF Spec

(***************************************************************************)
(* Query's variables keep their types: the maps hold a reference or null   *)
(* for every id, the row where a worker is stays a number of its word, and *)
(* no more rows are collected than were asked for.                         *)
(***************************************************************************)
THEOREM QueryTypeOK == Spec => []TypeOK
<1>1. LoadInv /\ WorkersInv => TypeOK
  <2> SUFFICES ASSUME LoadInv, WorkersInv PROVE TypeOK
    OBVIOUS
  <2>1. ASSUME NEW type \in Types, NEW id \in DOMAIN values[type]
        PROVE  values[type][id] \in {NULL, Reference(type, id)}
    <3>1. CASE stage = "references"
      BY <3>1 DEF LoadInv
    <3>2. CASE stage # "references"
      <4>1. Extends(values)
        BY <3>2 DEF LoadInv
      <4> QED
        BY <4>1 DEF Extends
    <3> QED
      BY <3>1, <3>2
  <2>2. /\ pc \in [Workers -> {"idle", "trigger", "filter", "rows", "sent"}]
        /\ pols \in [Workers -> Seq(Elements)]
        /\ w \in [Workers -> 0 .. Word - 1]
    BY DEF WorkersInv, WorkerInv
  <2>3. \A k \in Workers : pc[k] \in {"trigger", "filter", "rows"} => Len(rows[k]) <= options(k).count
    BY DEF WorkersInv, WorkerInv, Working
  <2> QED
    BY <2>1, <2>2, <2>3 DEF TypeOK, LoadInv, WorkersInv
<1> QED
  BY WorkersInvHolds, <1>1, PTL
-----------------------------------------------------------------------------
(***************************************************************************)
(* A query of elements that exist leaves the maps as they were loaded, and *)
(* once something was added it stays.                                      *)
(***************************************************************************)
InRangeConds(conds) ==
  /\ DOMAIN conds \subseteq Nat \ {0}
  /\ \A i \in DOMAIN conds : conds[i].name \in Known =>
       conds[i].index \in 0 .. PilReferences[conds[i].name].len - 1

LEMMA ConditionsInRange ==
  ASSUME NEW k \in Workers, request[k] \in Requests[k], Promise!InRange(request[k])
  PROVE  InRangeConds(Trigger(k)) /\ InRangeConds(Searched(k)) /\ InRangeConds(request[k].filter)
<1> DEFINE r == request[k]
<1>1. \A c : Promise!Exists(c) <=> c.name \in Known
  BY DEF Promise!Exists, Length
<1>2. \A c : c.name \in Known => Length[c.name] = PilReferences[c.name].len
  BY DEF Length
<1>3. ASSUME NEW c, c \in Promise!Conditions(r), c.name \in Known, c.index \in Nat
      PROVE  c.index \in 0 .. PilReferences[c.name].len - 1
  <2>1. c.index < PilReferences[c.name].len
    BY <1>1, <1>2, <1>3 DEF Promise!InRange
  <2>2. PilReferences[c.name].len \in Nat
    BY <1>3, NameFacts
  <2> QED
    BY <1>3, <2>1, <2>2
<1>4. \A i \in DOMAIN r.filter : r.filter[i] \in Promise!Conditions(r)
  BY SameOperators DEF Promise!Conditions, ToSet
<1>5. r.trigger # NULL => r.trigger \in Promise!Conditions(r)
  BY DEF Promise!Conditions
<1>6. \A i \in DOMAIN r.filter : r.filter[i].index \in Nat
  BY RequestFacts
<1>7. r.trigger # NULL => r.trigger.index \in Nat
  BY RequestFacts
<1>8. InRangeConds(r.filter)
  BY <1>3, <1>4, <1>6, RequestFacts DEF InRangeConds
<1>9. InRangeConds(<<r.trigger>>) \/ r.trigger = NULL
  <2>1. DOMAIN <<r.trigger>> = {1} /\ <<r.trigger>>[1] = r.trigger
    OBVIOUS
  <2> QED
    BY <1>3, <1>5, <1>7, <2>1 DEF InRangeConds
<1>10. InRangeConds(<<>>)
  BY DEF InRangeConds
<1> QED
  BY <1>8, <1>9, <1>10 DEF Trigger, Searched

LEMMA AfterAllIntact ==
  ASSUME NEW conds, InRangeConds(conds)
  PROVE  AfterAll(Loaded, conds) = Loaded
<1> DEFINE ids == [type \in Types |->
             { ElementId(c.name, c.index) :
                 c \in { c \in Resolved(conds) : PilReferences[c.name].type = type } }]
<1>1. AfterAll(Loaded, conds) = AfterGet(Loaded, ids)
  BY DEF AfterAll
<1>2. ASSUME NEW type \in Types PROVE ids[type] \subseteq ColumnIds(type)
  <2>1. SUFFICES ASSUME NEW c \in Resolved(conds), PilReferences[c.name].type = type
                 PROVE  ElementId(c.name, c.index) \in ColumnIds(type)
    OBVIOUS
  <2>2. PICK i \in DOMAIN conds : c = conds[i] /\ \A j \in 1 .. i : ~Wrong(conds[j])
    BY DEF Resolved
  <2>3. c.name \in Known
    BY <2>2 DEF Wrong, InRangeConds
  <2>4. c.index \in 0 .. PilReferences[c.name].len - 1
    BY <2>2, <2>3 DEF InRangeConds
  <2> QED
    BY <2>1, <2>3, <2>4, LoadedExtends, ElementFacts
<1> HIDE DEF ids
<1>3. \A type \in Types :
        [id \in DOMAIN Loaded[type] \cup ids[type] |-> Get(Loaded, type, id)]
        = [id \in ColumnIds(type) |-> Reference(type, id)]
  BY <1>2 DEF Loaded, Get
<1> QED
  BY <1>1, <1>3 DEF AfterGet, Loaded

LEMMA AfterAllStays ==
  ASSUME NEW v, Extends(v), v # Loaded, NEW conds
  PROVE  AfterAll(v, conds) # Loaded
<1> DEFINE a == AfterAll(v, conds)
<1>1. Extends(a)
  BY AfterAllExtends
<1>2. \A type \in Types : DOMAIN v[type] \subseteq DOMAIN a[type]
  BY DEF AfterAll, AfterGet
<1>3. PICK type \in Types : DOMAIN v[type] # ColumnIds(type)
  <2>1. SUFFICES ASSUME \A type \in Types : DOMAIN v[type] = ColumnIds(type) PROVE v = Loaded
    OBVIOUS
  <2>2. \A type \in Types : v[type] = [id \in ColumnIds(type) |-> Reference(type, id)]
    BY <2>1 DEF Extends
  <2> QED
    BY <2>2 DEF Extends, Loaded
<1>4. ColumnIds(type) \subseteq DOMAIN v[type]
  BY DEF Extends
<1>5. DOMAIN a[type] # ColumnIds(type)
  BY <1>2, <1>3, <1>4
<1>6. DOMAIN Loaded[type] = ColumnIds(type)
  BY DEF Loaded
<1> QED
  BY <1>5, <1>6

(***************************************************************************)
(* A step of a worker on a query in range keeps the maps as they are; no   *)
(* step makes them again what they were.                                   *)
(***************************************************************************)
LEMMA StepIntact ==
  ASSUME LoadInv, WorkersInv, NEW k \in Workers, Step(k)
  PROVE  /\ stage = "serve" /\ stage' = "serve" /\ Extends(values)
         /\ Intact' => Intact
         /\ pc[k] # "idle" /\ Promise!InRange(request[k]) /\ Intact => Intact'
         /\ values' = values => (Intact' <=> Intact)
<1>1. stage = "serve" /\ stage' = "serve" /\ Extends(values)
  BY StepFacts DEF LoadInv, Running
<1>2. Loaded' = Loaded
  BY DEF Loaded, Reference
<1>3. values' = values => (Intact' <=> Intact)
  BY <1>2 DEF Intact
<1>4. Intact' => Intact
  BY <1>1, <1>2, StepFacts, AfterAllStays DEF Intact
<1>5. ASSUME pc[k] # "idle", Promise!InRange(request[k]), Intact PROVE Intact'
  <2>1. request[k] \in Requests[k]
    BY <1>5 DEF WorkersInv, WorkerInv
  <2>2. InRangeConds(Trigger(k)) /\ InRangeConds(request[k].filter)
    BY <1>5, <2>1, ConditionsInRange
  <2> QED
    BY <1>2, <1>5, <2>2, StepFacts, AfterAllIntact DEF Intact
<1> QED
  BY <1>1, <1>3, <1>4, <1>5

(***************************************************************************)
(* With the maps as they were loaded, a condition holds where its column   *)
(* has its value.                                                          *)
(***************************************************************************)
LEMMA CellExact ==
  ASSUME NEW c, c.name \in Known, c.index \in 0 .. PilReferences[c.name].len - 1,
         NEW x \in 0 .. N - 1, NEW beyond
  PROVE  Of(Loaded, c) # NULL /\ Evaluation(Loaded, Of(Loaded, c), x, beyond) = Promise!Cell(c, x)
<1> DEFINE p == PilReferences[c.name]
           id == ElementId(c.name, c.index)
<1>1. /\ p.type \in Types /\ id \in ColumnIds(p.type) /\ id = p.id + c.index
      /\ Of(Loaded, c) = Reference(p.type, id) /\ Of(Loaded, c) # NULL
  BY LoadedExtends, ElementFacts DEF Of
<1>2. Evaluation(Loaded, Of(Loaded, c), x, beyond) = ColumnValue[p.type][id][x]
  BY <1>1, EvaluationExact
<1>3. Truth[c.name][c.index] = ColumnValue[p.type][p.id + c.index]
  BY DEF Truth
<1> QED
  BY <1>1, <1>2, <1>3 DEF Promise!Cell

LEMMA HoldsExact ==
  ASSUME NEW conds, Good(conds), InRangeConds(conds), NEW x \in 0 .. N - 1, NEW beyond
  PROVE  Holds(Loaded, conds, x, beyond) <=> \A i \in DOMAIN conds : Promise!Meets(x, conds[i])
<1>1. ASSUME NEW i \in DOMAIN conds
      PROVE  Matches(Loaded, conds[i], x, beyond) <=> Promise!Meets(x, conds[i])
  <2>1. conds[i].name \in Known /\ conds[i].index \in 0 .. PilReferences[conds[i].name].len - 1
    BY DEF Good, Wrong, InRangeConds
  <2> QED
    BY <2>1, CellExact DEF Matches, Promise!Meets
<1> QED
  BY <1>1 DEF Holds

(***************************************************************************)
(* The trigger finds the row that is promised.                             *)
(***************************************************************************)
LEMMA TriggerStart ==
  ASSUME WorkersInv, NEW k \in Workers, SeekTrigger(k), values' = Loaded,
         Promise!InRange(request[k]), Promise!HasStart(request[k])
  PROVE  w'[k] = Promise!StartRow(request[k])
<1> DEFINE r == request[k]
           t == r.trigger
<1>1. r \in Requests[k] /\ w[k] = r.from /\ Good(Trigger(k)) /\ w = [j \in Workers |-> w[j]]
  BY DEF WorkersInv, WorkerInv, SeekTrigger, Resolvable
<1>2. r.from \in 0 .. Word - 1 /\ r.before \in Nat /\ N \in Nat \ {0} /\ N < Word /\ Word \in Nat
  BY <1>1, RequestFacts, NameFacts, QueryAssumption
<1>3. PICK beyond :
        w' = [w EXCEPT ![k] = IF Trigger(k) = <<>> THEN Seek(Loaded, Searched(k), r.from, beyond)
                              ELSE Minus(Seek(Loaded, Searched(k), r.from, beyond), r.before)]
  BY <1>1 DEF SeekTrigger
<1>4. CASE t = NULL
  <2>1. Trigger(k) = <<>> /\ Searched(k) = <<>>
    BY <1>4 DEF Trigger, Searched
  <2>2. Seek(Loaded, Searched(k), r.from, beyond) = r.from
    BY <2>1 DEF Seek
  <2> QED
    BY <1>1, <1>3, <1>4, <2>1, <2>2 DEF Promise!StartRow
<1>5. CASE t # NULL
  <2> DEFINE S == Promise!Triggered(r)
             m == Min(S)
             x == Seek(Loaded, <<t>>, r.from, beyond)
  <2>1. r.skip = 0 /\ S # {} /\ m >= r.before
    BY <1>5, SameOperators DEF Promise!HasStart
  <2>2. Trigger(k) = <<t>> /\ Searched(k) = <<t>> /\ <<t>> # <<>>
    BY <1>5, <2>1 DEF Trigger, Searched
  <2>3. S = { y \in r.from .. N - 1 : Promise!Meets(y, t) } /\ S \in SUBSET Nat
    BY <1>2 DEF Promise!Triggered
  <2>4. m \in S /\ \A y \in S : m <= y
    BY <2>1, <2>3, MinFacts
  <2>5. \A y \in 0 .. N - 1 : Holds(Loaded, <<t>>, y, beyond) <=> Promise!Meets(y, t)
    <3>1. InRangeConds(<<t>>) /\ Good(<<t>>)
      BY <1>1, <2>2, ConditionsInRange
    <3>2. DOMAIN <<t>> = {1} /\ <<t>>[1] = t
      OBVIOUS
    <3> QED
      BY <3>1, <3>2, HoldsExact
  <2> HIDE DEF m, S, x
  <2>6. /\ x \in r.from .. N /\ (x = N \/ Holds(Loaded, <<t>>, x, beyond))
        /\ \A y \in r.from .. x - 1 : ~Holds(Loaded, <<t>>, y, beyond)
    <3>1. r.from < N
      BY <1>2, <2>3, <2>4
    <3>2. r.from \in Nat /\ ~(<<t>> = <<>> \/ r.from >= N)
      BY <1>2, <2>2, <3>1
    <3> HIDE DEF r, t
    <3> QED
      BY <3>2, SeekFacts DEF x
  <2>7. m \in r.from .. N - 1 /\ m \in 0 .. N - 1 /\ Holds(Loaded, <<t>>, m, beyond)
    BY <1>2, <2>3, <2>4, <2>5
  <2>8. x <= m
    BY <1>2, <2>6, <2>7
  <2>9. x \in S
    BY <1>2, <2>3, <2>5, <2>6, <2>7, <2>8
  <2>10. x = m
    BY <1>2, <2>3, <2>4, <2>8, <2>9
  <2>11. Minus(x, r.before) = m - r.before
    <3>1. x \in 0 .. Word - 1 /\ r.before <= x
      BY <1>2, <2>1, <2>7, <2>10
    <3>2. Minus(x, r.before) = x - r.before
      BY <1>2, <3>1, MinusType
    <3> QED
      BY <2>10, <3>2
  <2>12. w'[k] = m - r.before
    BY <1>1, <1>3, <2>2, <2>11 DEF x
  <2>13. Promise!StartRow(r) = m - r.before
    BY <1>5, SameOperators DEF Promise!StartRow, m, S
  <2> QED
    BY <2>12, <2>13
<1> QED
  BY <1>4, <1>5

(***************************************************************************)
(* Without rows before a match, the next row that is shown is the next of  *)
(* the candidates, from where the worker is.                               *)
(***************************************************************************)
LEMMA NextCandidate ==
  ASSUME WorkersInv, NEW k \in Workers, Working(k), Good(request[k].filter),
         Promise!InRange(request[k]), InOrder(request[k]), NEW beyond
  PROVE  LET x == Filtered(k, Loaded, beyond)
         IN  /\ x \in Nat /\ x >= w[k]
             /\ \A y \in Candidates(request[k]) : y >= w[k] => y >= x
             /\ x < N => x \in Candidates(request[k])
<1> DEFINE r == request[k]
           x == Filtered(k, Loaded, beyond)
           found == Seek(Loaded, r.filter, w[k], beyond)
<1>1. r \in Requests[k] /\ w[k] \in 0 .. Word - 1 /\ N \in Nat /\ N < Word /\ Word \in Nat
  BY NameFacts, QueryAssumption DEF WorkersInv, WorkerInv, Working
<1>2. found \in 0 .. Word - 1 /\ found >= w[k]
  BY <1>1, SeekType
<1>3. CASE r.filter = <<>>
  <2>1. x = w[k]
    BY <1>3 DEF Filtered, Seek
  <2>2. Candidates(r) = 0 .. N - 1
    BY <1>3 DEF Candidates
  <2> HIDE DEF x
  <2> QED
    BY <1>1, <2>1, <2>2 DEF x
<1>4. CASE r.filter # <<>>
  <2>1. r.before = 0
    BY <1>4 DEF InOrder
  <2>2. x = found
    <3>1. x = Minus(found, 0)
      BY <1>4, <2>1 DEF Filtered
    <3> HIDE DEF found, x
    <3>2. Minus(found, 0) = found
      BY <1>2, MinusType
    <3> QED
      BY <3>1, <3>2
  <2>3. \A y \in 0 .. N - 1 :
          Holds(Loaded, r.filter, y, beyond) <=> \A i \in DOMAIN r.filter : Promise!Meets(y, r.filter[i])
    BY <1>1, ConditionsInRange, HoldsExact
  <2>4. Candidates(r) = { y \in 0 .. N - 1 : Holds(Loaded, r.filter, y, beyond) }
    <3>1. Candidates(r) = { y \in 0 .. N - 1 : \A c \in ToSet(r.filter) : Promise!Meets(y, c) }
      BY <1>4, SameOperators DEF Candidates, Promise!Matching
    <3> QED
      BY <2>3, <3>1 DEF ToSet
  <2>5. CASE w[k] >= N
    <3>1. found = w[k]
      BY <1>1, <2>5, SeekFacts
    <3> HIDE DEF x, found
    <3>2. \A y \in Candidates(r) : y \in 0 .. N - 1
      BY <2>4
    <3>3. x = w[k]
      BY <2>2, <3>1
    <3> QED
      BY <1>1, <2>5, <3>2, <3>3 DEF x
  <2>6. CASE ~(w[k] >= N)
    <3>1. /\ found \in w[k] .. N /\ (found = N \/ Holds(Loaded, r.filter, found, beyond))
          /\ \A y \in w[k] .. found - 1 : ~Holds(Loaded, r.filter, y, beyond)
      <4>1. w[k] \in Nat /\ ~(r.filter = <<>> \/ w[k] >= N)
        BY <1>1, <1>4, <2>6
      <4> QED
        BY <4>1, SeekFacts
    <3> HIDE DEF x, found
    <3>2. ASSUME NEW y \in Candidates(r), y >= w[k] PROVE y >= x
      BY <1>1, <2>2, <2>4, <3>1, <3>2
    <3>3. x < N => x \in Candidates(r)
      BY <1>1, <2>2, <2>4, <3>1
    <3> QED
      BY <1>1, <1>2, <2>2, <3>2, <3>3 DEF x
  <2> QED
    BY <2>5, <2>6
<1> QED
  BY <1>3, <1>4

(***************************************************************************)
(* What the filter sets up, before there are rows.                         *)
(***************************************************************************)
LEMMA SetupExact ==
  ASSUME WorkersInv, NEW k \in Workers, SetupFilter(k), Intact, Intact',
         Promise!InRange(request[k]), ExactInv(k)
  PROVE  RowsInv(k)'
<1> DEFINE r == request[k]
<1>1. /\ pc[k] = "filter" /\ Working(k) /\ request'[k] = r /\ rows'[k] = <<>> /\ pols'[k] = pols[k]
      /\ Good(r.filter) /\ values' = Loaded /\ w = [j \in Workers |-> w[j]]
  BY DEF SetupFilter, Continue, WorkersInv, WorkerInv, Working, Intact, Loaded, Reference
<1>2. PICK beyond : w'[k] = Filtered(k, Loaded, beyond)
  BY <1>1 DEF SetupFilter
<1>3. Promise!RowsTrue(r, Partial(k)')
  <2>1. Partial(k)'.rows = <<>> /\ DOMAIN <<>> = {}
    BY <1>1 DEF Partial
  <2> QED
    BY <2>1 DEF Promise!RowsTrue
<1>4. ASSUME InOrder(r), Promise!HasStart(r)
      PROVE  /\ Promise!StartRow(r) <= w'[k]
             /\ Passed(k)' = {}
  <2>1. w[k] = Promise!StartRow(r) /\ w[k] \in Nat
    BY <1>1, <1>4 DEF ExactInv, Promised, WorkersInv, WorkerInv
  <2>2. w'[k] \in Nat /\ w'[k] >= w[k] /\ \A y \in Candidates(r) : y >= w[k] => y >= w'[k]
    BY <1>1, <1>2, <1>4, NextCandidate
  <2>3. Candidates(r) \subseteq Nat
    BY DEF Candidates, Promise!Matching
  <2>4. Passed(k)' = { y \in Wanted(r) : y < w'[k] }
    BY <1>1 DEF Passed, Wanted, Candidates, Promise!Matching, Promise!StartRow, Promise!Meets, Promise!Cell, Promise!Triggered
  <2> QED
    BY <2>1, <2>2, <2>3, <2>4 DEF Wanted
<1>5. Len(<<>>) = 0 /\ DOMAIN <<>> = {} /\ Cardinality({}) = 0
  BY EmptySeq, FS_EmptySet
<1> QED
  BY <1>1, <1>3, <1>4, <1>5 DEF RowsInv

(***************************************************************************)
(* A row that is true is added to rows that are.                           *)
(***************************************************************************)
RowTrue(r, s, row) ==
  /\ row.w \in 0 .. N - 1
  /\ DOMAIN row.cells =
       { c \in Promise!Selected(r) :
           ~( /\ ~r.compact
              /\ \/ r.nozeros /\ Promise!Cell(c, row.w) = 0
                 \/ r.changes /\ s # <<>> /\ Promise!Cell(c, row.w) = Promise!Cell(c, s[Len(s)].w) ) }
  /\ \A c \in DOMAIN row.cells : row.cells[c] = Promise!Cell(c, row.w)

LEMMA AppendTrue ==
  ASSUME NEW r, NEW s \in Seq(Row), NEW a, a.rows = s, Promise!RowsTrue(r, a),
         NEW row \in Row, RowTrue(r, s, row), NEW b, b.rows = Append(s, row)
  PROVE  Promise!RowsTrue(r, b)
<1> DEFINE z == Append(s, row)
           n == Len(s)
<1>1. n \in Nat /\ DOMAIN s = 1 .. n /\ (s # <<>> <=> n # 0)
  BY LenProperties, EmptySeq
<1>2. z \in Seq(Row) /\ Len(z) = n + 1 /\ z[n + 1] = row /\ \A i \in 1 .. n : z[i] = s[i]
  BY AppendProperties
<1>3. DOMAIN z = 1 .. n + 1
  BY <1>2, LenProperties
<1> HIDE DEF z
<1> SUFFICES ASSUME NEW i \in 1 .. n + 1
             PROVE  /\ z[i].w \in 0 .. N - 1
                    /\ DOMAIN z[i].cells = { c \in Promise!Selected(r) : ~Promise!Hidden(r, b, i, c) }
                    /\ \A c \in DOMAIN z[i].cells : z[i].cells[c] = Promise!Cell(c, z[i].w)
  BY <1>3 DEF Promise!RowsTrue, z
<1>4. CASE i \in 1 .. n
  <2>1. z[i] = s[i] /\ (i > 1 => z[i - 1] = s[i - 1])
    BY <1>1, <1>2, <1>4
  <2>2. \A c : Promise!Hidden(r, b, i, c) <=> Promise!Hidden(r, a, i, c)
    BY <2>1 DEF Promise!Hidden, z
  <2>3. /\ s[i].w \in 0 .. N - 1
        /\ DOMAIN s[i].cells = { c \in Promise!Selected(r) : ~Promise!Hidden(r, a, i, c) }
        /\ \A c \in DOMAIN s[i].cells : s[i].cells[c] = Promise!Cell(c, s[i].w)
    BY <1>1, <1>4 DEF Promise!RowsTrue
  <2> QED
    BY <2>1, <2>2, <2>3
<1>5. CASE i = n + 1
  <2>1. z[i] = row /\ (i > 1 <=> s # <<>>) /\ (i > 1 => z[i - 1] = s[n])
    BY <1>1, <1>2, <1>5
  <2>2. \A c : Promise!Hidden(r, b, i, c) <=>
                 /\ ~r.compact
                 /\ \/ r.nozeros /\ Promise!Cell(c, row.w) = 0
                    \/ r.changes /\ s # <<>> /\ Promise!Cell(c, row.w) = Promise!Cell(c, s[n].w)
    BY <2>1 DEF Promise!Hidden, z
  <2> QED
    BY <2>1, <2>2 DEF RowTrue
<1> QED
  BY <1>1, <1>4, <1>5

(***************************************************************************)
(* The row that is added is true, and shows the cells that it should.      *)
(***************************************************************************)
LEMMA NewRowTrue ==
  ASSUME WorkersInv, Intact, NEW k \in Workers, pc[k] = "rows", RowsInv(k),
         NEW x \in 0 .. N - 1, NEW beyond \in Beyond(values), evaluations'[k] = Cells(k, values, x, beyond)
  PROVE  /\ RowTrue(request[k], rows[k], NewRow(k, x)) /\ NewRow(k, x) \in Row /\ NewRow(k, x).w = x
         /\ evaluations'[k] = [c \in ToSet(pols[k]) |-> Promise!Cell(c, x)]
<1> DEFINE r == request[k]
           cells == evaluations'[k]
           S == Shown(k, cells)
           s == rows[k]
           row == NewRow(k, x)
<1>1. /\ r \in Requests[k] /\ s \in Seq(Row) /\ pols[k] \in Seq(Elements) /\ pols[k] = filterPols(r.name)
  BY DEF WorkersInv, WorkerInv
<1>2. ToSet(pols[k]) = Promise!Selected(r) /\ ToSet(pols[k]) \subseteq Elements
  BY <1>1, RequestFacts, TitlesFacts, SeqOfSet
<1>3. cells = [c \in ToSet(pols[k]) |-> Promise!Cell(c, x)]
  <2>1. \A c \in ToSet(pols[k]) : Evaluation(Loaded, Of(Loaded, c), x, beyond) = Promise!Cell(c, x)
    BY <1>2, ElementsAre, CellExact
  <2> QED
    BY <2>1 DEF Cells, Intact
<1>4. row \in Row /\ row.w = x /\ row.cells = [c \in S |-> cells[c]]
  BY LoadedExtends, NewRowType DEF Intact
<1>5. options(k) = Options(r)
  BY DEF options
<1>6. s # <<>> => evaluations[k] = [c \in ToSet(pols[k]) |-> Promise!Cell(c, s[Len(s)].w)]
  BY DEF RowsInv
<1> HIDE DEF cells, row, r, s
<1>7. S = { c \in Promise!Selected(r) :
              ~( /\ ~r.compact
                 /\ \/ r.nozeros /\ Promise!Cell(c, x) = 0
                    \/ r.changes /\ s # <<>> /\ Promise!Cell(c, x) = Promise!Cell(c, s[Len(s)].w) ) }
  <2>1. S = { c \in DOMAIN cells :
                /\ cells[c] # 0 \/ ~Options(r).nozeros
                /\ s = <<>> \/ ~Options(r).changes \/ cells[c] # evaluations[k][c] }
    BY <1>5 DEF Shown, s
  <2>2. DOMAIN cells = Promise!Selected(r)
    BY <1>2, <1>3
  <2>3. ASSUME NEW c \in Promise!Selected(r)
        PROVE  ( /\ cells[c] # 0 \/ ~Options(r).nozeros
                 /\ s = <<>> \/ ~Options(r).changes \/ cells[c] # evaluations[k][c] )
               <=> ~( /\ ~r.compact
                      /\ \/ r.nozeros /\ Promise!Cell(c, x) = 0
                         \/ r.changes /\ s # <<>> /\ Promise!Cell(c, x) = Promise!Cell(c, s[Len(s)].w) )
    <3>1. cells[c] = Promise!Cell(c, x)
      BY <1>2, <1>3
    <3>2. s # <<>> => evaluations[k][c] = Promise!Cell(c, s[Len(s)].w)
      BY <1>2, <1>6
    <3>3. /\ Options(r).nozeros <=> r.nozeros /\ ~r.compact
          /\ Options(r).changes <=> r.changes /\ ~r.compact
      BY <1>1, OptionFacts
    <3> QED
      BY <3>1, <3>2, <3>3
  <2> QED
    BY <2>1, <2>2, <2>3
<1>8. S \subseteq ToSet(pols[k])
  BY <1>2, <1>7
<1> HIDE DEF S
<1>9. RowTrue(r, s, row)
  <2>1. DOMAIN row.cells = S /\ \A c \in S : row.cells[c] = Promise!Cell(c, x)
    BY <1>3, <1>4, <1>8
  <2> QED
    BY <1>4, <1>7, <2>1 DEF RowTrue
<1> QED
  BY <1>3, <1>4, <1>9 DEF cells, row, r, s

(***************************************************************************)
(* The set of the rows that are shown, and their order, when one is added. *)
(***************************************************************************)
LEMMA AppendRow ==
  ASSUME NEW s \in Seq(Row), NEW row \in Row
  PROVE  /\ Append(s, row) # <<>> /\ Append(s, row)[Len(Append(s, row))] = row
         /\ Len(Append(s, row)) = Len(s) + 1 /\ Len(s) \in Nat
         /\ DOMAIN s = 1 .. Len(s) /\ DOMAIN Append(s, row) = 1 .. Len(s) + 1
         /\ \A i \in 1 .. Len(s) : Append(s, row)[i] = s[i]
         /\ { Append(s, row)[i].w : i \in DOMAIN Append(s, row) } = { s[i].w : i \in DOMAIN s } \cup {row.w}
         /\ \A i \in DOMAIN s : s[i].w \in Nat
<1> DEFINE z == Append(s, row)
           n == Len(s)
<1>1. n \in Nat /\ DOMAIN s = 1 .. n
  BY LenProperties
<1>2. z \in Seq(Row) /\ Len(z) = n + 1 /\ z[n + 1] = row /\ z # <<>> /\ \A i \in 1 .. n : z[i] = s[i]
  BY AppendProperties
<1>3. DOMAIN z = 1 .. n + 1
  BY <1>2, LenProperties
<1>4. \A i \in DOMAIN s : s[i].w \in Nat
  <2>1. \A i \in 1 .. n : s[i] \in Row
    BY ElementOfSeq
  <2> QED
    BY <1>1, <2>1, NameFacts DEF Row
<1> HIDE DEF z
<1>5. 1 .. n + 1 = 1 .. n \cup {n + 1}
  BY <1>1
<1>6. { z[i].w : i \in 1 .. n + 1 } = { s[i].w : i \in 1 .. n } \cup {row.w}
  <2>1. { z[i].w : i \in 1 .. n + 1 } = { z[i].w : i \in 1 .. n } \cup {z[n + 1].w}
    BY <1>5
  <2>2. { z[i].w : i \in 1 .. n } = { s[i].w : i \in 1 .. n }
    BY <1>2
  <2> QED
    BY <1>2, <2>1, <2>2
<1> QED
  BY <1>1, <1>2, <1>3, <1>4, <1>6 DEF z

(***************************************************************************)
(* The promise speaks of the columns, which do not change: in the next     *)
(* state it says the same of the next values.                              *)
(***************************************************************************)
LEMMA PromiseNext ==
  ASSUME NEW k \in Workers
  PROVE  /\ Promise!InRange(request[k])' <=> Promise!InRange(request'[k])
         /\ Promise!HasStart(request[k])' <=> Promise!HasStart(request'[k])
         /\ Promise!StartRow(request[k])' = Promise!StartRow(request'[k])
         /\ InOrder(request[k])' <=> InOrder(request'[k])
         /\ Promise!RowsTrue(request[k], Partial(k))' <=> Promise!RowsTrue(request'[k], Partial(k)')
<1>1. Promise!InRange(request[k])' <=> Promise!InRange(request'[k])
  BY DEF Promise!InRange, Promise!Conditions, Promise!Exists, Length
<1>2. Promise!HasStart(request[k])' <=> Promise!HasStart(request'[k])
  BY DEF Promise!HasStart, Promise!Triggered, Promise!Meets, Promise!Cell
<1>3. Promise!StartRow(request[k])' = Promise!StartRow(request'[k])
  BY DEF Promise!StartRow, Promise!Triggered, Promise!Meets, Promise!Cell
<1>4. InOrder(request[k])' <=> InOrder(request'[k])
  BY DEF InOrder
<1>5. Promise!RowsTrue(request[k], Partial(k))' <=> Promise!RowsTrue(request'[k], Partial(k)')
  BY DEF Promise!RowsTrue, Promise!Hidden, Promise!Selected, Promise!Cell
<1> QED
  BY <1>1, <1>2, <1>3, <1>4, <1>5

LEMMA RowsInvNext ==
  ASSUME NEW k \in Workers
  PROVE  RowsInv(k)' <=>
           /\ Promise!RowsTrue(request'[k], Partial(k)')
           /\ rows'[k] # <<>> =>
                evaluations'[k] = [c \in ToSet(pols'[k]) |-> Promise!Cell(c, rows'[k][Len(rows'[k])].w)]
           /\ InOrder(request'[k]) =>
                /\ \A i, j \in DOMAIN rows'[k] : i < j => rows'[k][i].w < rows'[k][j].w
                /\ \A i \in DOMAIN rows'[k] : rows'[k][i].w < w'[k]
           /\ InOrder(request'[k]) /\ Promise!HasStart(request'[k]) =>
                /\ Promise!StartRow(request'[k]) <= w'[k]
                /\ { rows'[k][i].w : i \in DOMAIN rows'[k] } = Passed(k)'
                /\ Len(rows'[k]) = Cardinality(Passed(k)')
<1>1. [c \in ToSet(pols[k]) |-> Promise!Cell(c, rows[k][Len(rows[k])].w)]'
        = [c \in ToSet(pols'[k]) |-> Promise!Cell(c, rows'[k][Len(rows'[k])].w)]
  BY DEF Promise!Cell
<1> QED
  BY <1>1, PromiseNext DEF RowsInv

LEMMA EmitExact ==
  ASSUME WorkersInv, NEW k \in Workers, EmitRow(k), Intact, Promise!InRange(request[k]), RowsInv(k)
  PROVE  RowsInv(k)'
<1> DEFINE r == request[k]
           s == rows[k]
<1>1. /\ pc[k] = "rows" /\ Working(k) /\ request'[k] = r /\ pols'[k] = pols[k]
      /\ Good(r.filter) /\ values = Loaded /\ s \in Seq(Row) /\ w[k] \in 0 .. Word - 1
  BY DEF EmitRow, WorkersInv, WorkerInv, Working, Intact
<1>2. PICK beyond \in Beyond(values), x \in 0 .. N - 1 :
        /\ x = Filtered(k, values, beyond)
        /\ evaluations'[k] = Cells(k, values, x, beyond)
        /\ w'[k] = x + 1
        /\ rows'[k] = Append(s, NewRow(k, x))
  BY EmitRowIs
<1> DEFINE row == NewRow(k, x)
           z == Append(s, row)
<1>3. /\ RowTrue(r, s, row) /\ row \in Row /\ row.w = x
      /\ evaluations'[k] = [c \in ToSet(pols[k]) |-> Promise!Cell(c, x)]
  BY <1>1, <1>2, NewRowTrue
<1> HIDE DEF row
<1>4. /\ z # <<>> /\ z[Len(z)] = row
      /\ Len(z) = Len(s) + 1 /\ Len(s) \in Nat
      /\ DOMAIN s = 1 .. Len(s) /\ DOMAIN z = 1 .. Len(s) + 1
      /\ \A i \in 1 .. Len(s) : z[i] = s[i]
      /\ { z[i].w : i \in DOMAIN z } = { s[i].w : i \in DOMAIN s } \cup {x}
      /\ \A i \in DOMAIN s : s[i].w \in Nat
  BY <1>1, <1>3, AppendRow
<1>5. Promise!RowsTrue(r, Partial(k)')
  <2>1. Promise!RowsTrue(r, Partial(k)) /\ Partial(k).rows = s /\ Partial(k)'.rows = z
    BY <1>2 DEF RowsInv, Partial, row
  <2> HIDE DEF z
  <2> QED
    BY <1>1, <1>3, <2>1, AppendTrue DEF z
<1> HIDE DEF z
<1>6. rows'[k] = z /\ evaluations'[k] = [c \in ToSet(pols'[k]) |-> Promise!Cell(c, z[Len(z)].w)]
  BY <1>1, <1>2, <1>3, <1>4 DEF z, row
<1>7. ASSUME InOrder(r)
      PROVE  /\ x \in Nat /\ x >= w[k] /\ x \in Candidates(r)
             /\ \A y \in Candidates(r) : y >= w[k] => y >= x
  BY <1>1, <1>2, <1>7, NameFacts, NextCandidate
<1>8. ASSUME InOrder(r)
      PROVE  /\ \A i \in DOMAIN s : s[i].w < w[k] /\ s[i].w \in Nat
             /\ \A i, j \in DOMAIN z : i < j => z[i].w < z[j].w
             /\ \A i \in DOMAIN z : z[i].w < x + 1
  <2>1. /\ \A i \in DOMAIN s : s[i].w < w[k] /\ s[i].w \in Nat
        /\ \A i, j \in DOMAIN s : i < j => s[i].w < s[j].w
    BY <1>4, <1>8 DEF RowsInv
  <2>2. x \in Nat /\ x >= w[k] /\ w[k] \in Nat
    BY <1>1, <1>7, <1>8
  <2>3. \A i \in 1 .. Len(s) : z[i].w < x /\ z[i].w \in Nat
    BY <1>4, <2>1, <2>2
  <2>4. z[Len(s) + 1].w = x
    BY <1>3, <1>4
  <2>5. \A i \in DOMAIN z : z[i].w < x + 1
    BY <1>4, <2>2, <2>3, <2>4
  <2>6. ASSUME NEW i \in DOMAIN z, NEW j \in DOMAIN z, i < j PROVE z[i].w < z[j].w
    <3>1. i \in 1 .. Len(s)
      BY <1>4, <2>6
    <3>2. CASE j \in 1 .. Len(s)
      BY <1>4, <2>1, <2>6, <3>1, <3>2
    <3>3. CASE j = Len(s) + 1
      BY <2>3, <2>4, <3>1, <3>3
    <3> QED
      BY <1>4, <3>2, <3>3
  <2> QED
    BY <2>1, <2>5, <2>6
<1>9. ASSUME InOrder(r), Promise!HasStart(r)
      PROVE  /\ Promise!StartRow(r) <= x + 1
             /\ Passed(k)' = Passed(k) \cup {x}
             /\ { s[i].w : i \in DOMAIN s } = Passed(k)
             /\ Len(s) + 1 = Cardinality(Passed(k) \cup {x})
  <2> DEFINE b == Promise!StartRow(r)
  <2>1. b <= w[k] /\ { s[i].w : i \in DOMAIN s } = Passed(k) /\ Len(s) = Cardinality(Passed(k))
    BY <1>9 DEF RowsInv
  <2>2. b \in Int
    <3>1. r.from \in Int /\ r.before \in Int
      BY <1>1, RequestFacts DEF WorkersInv, WorkerInv
    <3>2. r.trigger # NULL => Min(Promise!Triggered(r)) \in Int
      <4>1. r.trigger # NULL => Promise!Triggered(r) \in SUBSET Nat /\ Promise!Triggered(r) # {}
        BY <1>1, <1>9, RequestFacts, NameFacts DEF Promise!HasStart, Promise!Triggered, WorkersInv, WorkerInv
      <4> QED
        BY <4>1, MinFacts
    <3> QED
      BY <3>1, <3>2, SameOperators DEF Promise!StartRow
  <2>3. /\ x \in Nat /\ x >= w[k] /\ w[k] \in Nat /\ x \in Candidates(r)
        /\ \A y \in Candidates(r) : y >= w[k] => y >= x
    BY <1>1, <1>7, <1>9
  <2>4. Candidates(r) \subseteq 0 .. N - 1
    BY DEF Candidates, Promise!Matching
  <2>5. Passed(k) = { y \in Candidates(r) : y >= b /\ y < w[k] }
    BY DEF Passed, Wanted
  <2>6. Passed(k)' = { y \in Candidates(r) : y >= b /\ y < x + 1 }
    BY <1>1, <1>2 DEF Passed, Wanted, Candidates, Promise!Matching, Promise!StartRow, Promise!Meets, Promise!Cell, Promise!Triggered
  <2> HIDE DEF b
  <2>7. Passed(k)' = Passed(k) \cup {x}
    <3>1. ASSUME NEW y \in Candidates(r)
          PROVE  y >= b /\ y < x + 1 <=> (y >= b /\ y < w[k]) \/ y = x
      BY <2>1, <2>2, <2>3, <2>4, <3>1, NameFacts
    <3> QED
      BY <2>3, <2>5, <2>6, <3>1
  <2>8. x \notin Passed(k)
    BY <2>3, <2>5
  <2>9. IsFiniteSet(Passed(k))
    <3>1. IsFiniteSet(0 .. N - 1)
      BY NameFacts, FS_Interval
    <3>2. Passed(k) \in SUBSET (0 .. N - 1)
      BY <2>4, <2>5
    <3> QED
      BY <3>1, <3>2, FS_Subset
  <2>10. Cardinality(Passed(k) \cup {x}) = Cardinality(Passed(k)) + 1
    BY <2>8, <2>9, FS_AddElement
  <2> QED
    BY <2>1, <2>2, <2>3, <2>7, <2>10 DEF b
<1>10. Promise!RowsTrue(request'[k], Partial(k)')
  BY <1>1, <1>5
<1>11. rows'[k] # <<>> =>
         evaluations'[k] = [c \in ToSet(pols'[k]) |-> Promise!Cell(c, rows'[k][Len(rows'[k])].w)]
  BY <1>6
<1>12. InOrder(request'[k]) =>
         /\ \A i, j \in DOMAIN rows'[k] : i < j => rows'[k][i].w < rows'[k][j].w
         /\ \A i \in DOMAIN rows'[k] : rows'[k][i].w < w'[k]
  <2> HIDE DEF z
  <2> QED
    BY <1>1, <1>2, <1>6, <1>8
<1>13. InOrder(request'[k]) /\ Promise!HasStart(request'[k]) =>
         /\ Promise!StartRow(request'[k]) <= w'[k]
         /\ { rows'[k][i].w : i \in DOMAIN rows'[k] } = Passed(k)'
         /\ Len(rows'[k]) = Cardinality(Passed(k)')
  <2>1. SUFFICES ASSUME InOrder(r), Promise!HasStart(r)
                 PROVE  /\ Promise!StartRow(r) <= w'[k]
                        /\ { z[i].w : i \in DOMAIN z } = Passed(k)'
                        /\ Len(z) = Cardinality(Passed(k)')
    BY <1>1, <1>6
  <2>2. Passed(k)' = Passed(k) \cup {x} /\ Promise!StartRow(r) <= x + 1
    BY <1>9, <2>1
  <2>3. { s[i].w : i \in DOMAIN s } = Passed(k) /\ Len(s) + 1 = Cardinality(Passed(k) \cup {x})
    BY <1>9, <2>1
  <2> QED
    BY <1>2, <1>4, <2>2, <2>3
<1> QED
  BY <1>10, <1>11, <1>12, <1>13, RowsInvNext

(***************************************************************************)
(* What is known of the rows is kept by every step.                        *)
(***************************************************************************)
LEMMA ExactFrame ==
  ASSUME NEW j \in Workers, ExactInv(j), UNCHANGED Mine(j), Intact' => Intact
  PROVE  ExactInv(j)'
<1>1. /\ pc'[j] = pc[j] /\ request'[j] = request[j] /\ pols'[j] = pols[j]
      /\ w'[j] = w[j] /\ rows'[j] = rows[j] /\ evaluations'[j] = evaluations[j]
  BY DEF Mine
<1>2. Promised(j)' => Promised(j)
  BY <1>1, PromiseNext DEF Promised
<1>3. Passed(j)' = Passed(j)
  <2>1. Passed(j)' = { x \in { x \in Candidates(request'[j]) : x >= Promise!StartRow(request'[j]) } : x < w'[j] }
    BY PromiseNext DEF Passed, Wanted, Candidates, Promise!Matching, Promise!Meets, Promise!Cell
  <2> QED
    BY <1>1, <2>1 DEF Passed, Wanted
<1>4. Partial(j)' = Partial(j)
  BY <1>1 DEF Partial
<1>5. RowsInv(j) => RowsInv(j)'
  BY <1>1, <1>3, <1>4, RowsInvNext DEF RowsInv
<1> QED
  BY <1>1, <1>2, <1>5, PromiseNext DEF ExactInv

LEMMA ExactStep ==
  ASSUME LoadInv, WorkersInv, NEW k \in Workers, Step(k), ExactInv(k)
  PROVE  ExactInv(k)'
<1>1. Intact' => Intact
  BY StepIntact
<1>2. Loaded' = Loaded
  BY DEF Loaded, Reference
<1>3. WorkersInv' /\ pc' = [j \in Workers |-> pc'[j]]
  BY StepIntact, WorkersInvStep DEF WorkersInv
<1>4. SUFFICES ASSUME Promised(k)'
               PROVE  /\ pc'[k] = "filter" /\ Promise!HasStart(request'[k]) => w'[k] = Promise!StartRow(request'[k])
                      /\ pc'[k] = "rows" => RowsInv(k)'
  BY PromiseNext DEF ExactInv
<1>5. pc'[k] \in {"filter", "rows"} /\ Intact /\ Intact' /\ Promise!InRange(request'[k])
  BY <1>1, <1>4, PromiseNext DEF Promised
<1>6. CASE SeekTrigger(k)
  <2>1. pc'[k] = "filter" /\ request' = request
    BY <1>6 DEF SeekTrigger, Continue, WorkersInv
  <2>2. values' = Loaded /\ Promise!InRange(request[k])
    BY <1>2, <1>5, <2>1 DEF Intact
  <2>3. ASSUME Promise!HasStart(request[k]) PROVE w'[k] = Promise!StartRow(request[k])
    BY <1>6, <2>2, <2>3, TriggerStart
  <2> QED
    BY <2>1, <2>3
<1>7. CASE SetupFilter(k)
  <2>1. pc[k] = "filter" /\ pc'[k] = "rows" /\ request' = request
    BY <1>7 DEF SetupFilter, Continue, WorkersInv
  <2> QED
    BY <1>5, <1>7, <2>1, SetupExact
<1>8. CASE EmitRow(k)
  <2>1. pc[k] = "rows" /\ pc'[k] = "rows" /\ request' = request
    BY <1>8 DEF EmitRow
  <2>2. RowsInv(k)
    BY <1>5, <2>1 DEF ExactInv, Promised
  <2> QED
    BY <1>5, <1>8, <2>1, <2>2, EmitExact
<1>9. CASE Fault(k)
  <2>1. UNCHANGED Mine(k)
    BY <1>9 DEF Fault, local, Mine
  <2> QED
    BY <1>1, <1>4, <2>1, ExactFrame, PromiseNext DEF ExactInv
<1>10. CASE RefuseTrigger(k) \/ RefuseFilter(k) \/ EndRows(k)
  <2>1. pc'[k] = "sent"
    BY <1>10 DEF RefuseTrigger, RefuseFilter, EndRows, Send, WorkersInv
  <2> QED
    BY <1>5, <2>1
<1>11. CASE Deliver(k)
  BY <1>5, <1>11 DEF Deliver, WorkersInv
<1>12. CASE \E r \in Requests[k] : Receive(k, r)
  BY <1>5, <1>12 DEF Receive, WorkersInv
<1> QED
  BY <1>6, <1>7, <1>8, <1>9, <1>10, <1>11, <1>12 DEF Step, Work

QueryInv == LoadInv /\ WorkersInv /\ \A k \in Workers : ExactInv(k)

LEMMA QueryInvInit == Init => QueryInv
<1>1. Init => \A k \in Workers : ExactInv(k)
  BY DEF Init, ExactInv, Promised
<1> QED
  BY <1>1, LoadInvInit, WorkersInvInit DEF QueryInv

LEMMA QueryInvStep == QueryInv /\ [Next]_vars => QueryInv'
<1> SUFFICES ASSUME QueryInv, [Next]_vars PROVE QueryInv'
  OBVIOUS
<1>1. LoadInv' /\ WorkersInv'
  BY LoadInvStep, WorkersInvNext DEF QueryInv
<1>2. CASE Loading
  <2>1. \A k \in Workers : pc'[k] = "idle"
    <3>1. stage # "serve" /\ pc' = pc
      BY <1>2 DEF Loading, Load, LoadReference, MapFiles, LoadPublic, PublicFault, StartServer, local
    <3> QED
      BY <3>1 DEF QueryInv, WorkersInv, WorkerInv
  <2> QED
    BY <1>1, <2>1 DEF QueryInv, ExactInv, Promised
<1>3. ASSUME NEW k \in Workers, Step(k) PROVE QueryInv'
  <2>1. Intact' => Intact
    BY <1>3, StepIntact DEF QueryInv
  <2>2. ASSUME NEW j \in Workers \ {k} PROVE ExactInv(j)'
    BY <1>3, <2>1, StepOthers, ExactFrame DEF QueryInv
  <2>3. ExactInv(k)'
    BY <1>3, ExactStep DEF QueryInv
  <2> QED
    BY <1>1, <2>2, <2>3 DEF QueryInv
<1>4. CASE UNCHANGED vars
  <2>1. \A k \in Workers : UNCHANGED Mine(k)
    BY <1>4 DEF vars, local, Mine
  <2>2. Intact' => Intact
    BY <1>4 DEF vars, loading, Intact, Loaded, Reference
  <2> QED
    BY <1>1, <2>1, <2>2, ExactFrame DEF QueryInv
<1> QED
  BY <1>2, <1>3, <1>4 DEF Next, Step
-----------------------------------------------------------------------------
(***************************************************************************)
(* What is promised of an answer is true of the rows when the loop ends.   *)
(***************************************************************************)
LEMMA Refused ==
  ASSUME WorkersInv, NEW k \in Workers, request[k] \in Requests[k],
         ~Resolvable(k) \/ ~Good(request[k].filter)
  PROVE  Promise!Impossible(request[k])
<1> DEFINE r == request[k]
<1>1. \A c : Wrong(c) <=> c.value = Malformed \/ ~Promise!Exists(c)
  BY DEF Wrong, Promise!Exists, Length
<1>2. CASE Malformed \in ToSet(r.name)
  BY <1>2, SameOperators DEF Promise!Impossible
<1>3. CASE ~Good(Trigger(k))
  <2>1. r.trigger # NULL /\ Wrong(r.trigger)
    BY <1>3 DEF Good, Trigger
  <2>2. r.trigger \in Promise!Conditions(r)
    BY <2>1 DEF Promise!Conditions
  <2> QED
    BY <1>1, <2>1, <2>2 DEF Promise!Impossible
<1>4. CASE ~Good(r.filter)
  <2>1. PICK i \in DOMAIN r.filter : Wrong(r.filter[i])
    BY <1>4 DEF Good
  <2>2. r.filter[i] \in Promise!Conditions(r)
    BY SameOperators DEF Promise!Conditions, ToSet
  <2> QED
    BY <1>1, <2>1, <2>2 DEF Promise!Impossible
<1> QED
  BY <1>2, <1>3, <1>4 DEF Resolvable

LEMMA NotRefused ==
  ASSUME NEW k \in Workers, Resolvable(k), Good(request[k].filter)
  PROVE  ~Promise!Impossible(request[k])
<1> DEFINE r == request[k]
<1>1. \A c : Wrong(c) <=> c.value = Malformed \/ ~Promise!Exists(c)
  BY DEF Wrong, Promise!Exists, Length
<1>2. Malformed \notin Promise!ToSet(r.name)
  BY SameOperators DEF Resolvable
<1>3. ASSUME NEW c \in Promise!Conditions(r) PROVE ~Wrong(c)
  <2>1. CASE c \in ToSet(r.filter)
    BY <2>1 DEF Good, ToSet
  <2>2. CASE r.trigger # NULL /\ c = r.trigger
    <3>1. Trigger(k) = <<c>> /\ DOMAIN <<c>> = {1} /\ <<c>>[1] = c
      BY <2>2 DEF Trigger
    <3> QED
      BY <3>1 DEF Resolvable, Good
  <2> QED
    BY <2>1, <2>2, SameOperators DEF Promise!Conditions
<1> QED
  BY <1>1, <1>2, <1>3 DEF Promise!Impossible

LEMMA MinOfTwo ==
  ASSUME NEW a \in Nat, NEW b \in Nat
  PROVE  /\ a <= b => Min({a, b}) = a
         /\ b <= a => Min({a, b}) = b
<1>1. {a, b} \in SUBSET Int /\ a \in {a, b} /\ b \in {a, b}
  OBVIOUS
<1>2. ASSUME a <= b PROVE \A x \in {a, b} : a <= x
  BY <1>2
<1>3. ASSUME b <= a PROVE \A x \in {a, b} : b <= x
  BY <1>3
<1> QED
  BY <1>1, <1>2, <1>3, MinIs

LEMMA CompleteIs ==
  ASSUME NEW r, NEW a
  PROVE  Promise!RowsComplete(r, a) <=>
           (Promise!HasStart(r) /\ InOrder(r) =>
              /\ Len(a.rows) = Min({Promise!Limit(r), Cardinality(Wanted(r))})
              /\ { a.rows[i].w : i \in DOMAIN a.rows } \subseteq Wanted(r)
              /\ \A x \in Wanted(r) :
                   (\E y \in { a.rows[i].w : i \in DOMAIN a.rows } : x < y) =>
                     x \in { a.rows[i].w : i \in DOMAIN a.rows })
<1> DEFINE wanted == { x \in (IF r.filter = <<>> THEN 0 .. N - 1 ELSE Promise!Matching(r)) : x >= Promise!StartRow(r) }
           shown == { a.rows[i].w : i \in DOMAIN a.rows }
<1>1. Wanted(r) = wanted
  BY DEF Wanted, Candidates
<1>2. Promise!RowsComplete(r, a) <=>
        (Promise!HasStart(r) /\ (r.filter = <<>> \/ r.before = 0) =>
           /\ Len(a.rows) = Promise!Min({Promise!Limit(r), Promise!Cardinality(wanted)})
           /\ shown \subseteq wanted
           /\ \A x \in wanted : (\E y \in shown : x < y) => x \in shown)
  BY DEF Promise!RowsComplete
<1>3. Promise!Cardinality(wanted) = Cardinality(wanted)
  BY DEF Cardinality, Promise!Cardinality, ExistsBijection, Promise!ExistsBijection, Bijection, Promise!Bijection
<1> HIDE DEF wanted, shown
<1> QED
  BY <1>1, <1>2, <1>3, SameOperators DEF InOrder, shown

LEMMA CompleteAtEnd ==
  ASSUME WorkersInv, NEW k \in Workers, EndRows(k), Intact, Promise!InRange(request[k]), RowsInv(k)
  PROVE  Promise!RowsComplete(request[k], Partial(k))
<1> DEFINE r == request[k]
           s == rows[k]
           limit == Promise!Limit(r)
<1>1. /\ pc[k] = "rows" /\ Working(k) /\ r \in Requests[k] /\ s \in Seq(Row)
      /\ Len(s) <= options(k).count /\ Good(r.filter) /\ w[k] \in 0 .. Word - 1
  BY DEF EndRows, WorkersInv, WorkerInv, Working
<1>2. limit \in Nat /\ options(k).count = limit /\ Len(s) \in Nat /\ (More(k) <=> Len(s) < limit)
  BY <1>1, OptionFacts, LenProperties DEF options, More
<1>3. SUFFICES ASSUME Promise!HasStart(r), InOrder(r)
               PROVE  /\ Len(s) = Min({limit, Cardinality(Wanted(r))})
                      /\ { s[i].w : i \in DOMAIN s } \subseteq Wanted(r)
                      /\ \A x \in Wanted(r) :
                           (\E y \in { s[i].w : i \in DOMAIN s } : x < y) => x \in { s[i].w : i \in DOMAIN s }
  <2>1. Partial(k).rows = s
    BY DEF Partial
  <2> HIDE DEF s
  <2> QED
    BY <2>1, CompleteIs
<1>4. { s[i].w : i \in DOMAIN s } = Passed(k) /\ Len(s) = Cardinality(Passed(k))
  BY <1>3 DEF RowsInv
<1>5. Passed(k) = { x \in Wanted(r) : x < w[k] }
  BY DEF Passed
<1>6. Wanted(r) \subseteq 0 .. N - 1 /\ N \in Nat
  BY NameFacts DEF Wanted, Candidates, Promise!Matching
<1>7. IsFiniteSet(Wanted(r)) /\ Cardinality(Wanted(r)) \in Nat
  <2>1. IsFiniteSet(0 .. N - 1) /\ Wanted(r) \in SUBSET (0 .. N - 1)
    BY <1>6, NameFacts, FS_Interval
  <2> QED
    BY <2>1, FS_Subset, FS_CardinalityType
<1>8. Cardinality(Passed(k)) <= Cardinality(Wanted(r))
  BY <1>5, <1>7, FS_Subset
<1>9. Len(s) = Min({limit, Cardinality(Wanted(r))})
  <2>1. CASE ~More(k)
    <3>1. Len(s) = limit /\ limit <= Cardinality(Wanted(r))
      BY <1>1, <1>2, <1>4, <1>8, <2>1
    <3> QED
      BY <1>2, <1>7, <3>1, MinOfTwo
  <2>2. CASE More(k)
    <3>1. PICK beyond : Filtered(k, Loaded, beyond) >= N
      BY <2>2 DEF EndRows, Intact
    <3> DEFINE x == Filtered(k, Loaded, beyond)
    <3>2. x \in Nat /\ x >= N /\ \A y \in Candidates(r) : y >= w[k] => y >= x
      BY <1>1, <1>3, <3>1, NextCandidate
    <3> HIDE DEF x
    <3>3. \A y \in Wanted(r) : y < w[k]
      <4> SUFFICES ASSUME NEW y \in Wanted(r), ~(y < w[k]) PROVE FALSE
        OBVIOUS
      <4>1. y \in 0 .. N - 1 /\ y \in Candidates(r) /\ w[k] \in Nat
        BY <1>1, <1>6 DEF Wanted
      <4> QED
        BY <1>6, <3>2, <4>1
    <3>4. Passed(k) = Wanted(r)
      BY <1>5, <3>3
    <3>5. Len(s) = Cardinality(Wanted(r)) /\ Len(s) < limit
      BY <1>2, <1>4, <2>2, <3>4
    <3> QED
      BY <1>2, <1>7, <3>5, MinOfTwo
  <2> QED
    BY <2>1, <2>2
<1>10. \A x \in Wanted(r) : (\E y \in Passed(k) : x < y) => x \in Passed(k)
  <2> SUFFICES ASSUME NEW x \in Wanted(r), NEW y \in Passed(k), x < y PROVE x \in Passed(k)
    OBVIOUS
  <2>1. x \in Nat /\ y \in Nat /\ w[k] \in Nat /\ y < w[k]
    BY <1>1, <1>5, <1>6
  <2> QED
    BY <1>5, <2>1
<1>11. Passed(k) \subseteq Wanted(r)
  BY <1>5
<1> HIDE DEF s, limit
<1> QED
  BY <1>4, <1>9, <1>10, <1>11

LEMMA EndRight ==
  ASSUME WorkersInv, NEW k \in Workers, EndRows(k), Intact, Promise!InRange(request[k]), RowsInv(k)
  PROVE  Promise!Right(request[k], Partial(k))
<1> DEFINE r == request[k]
<1>1. /\ pc[k] = "rows" /\ r \in Requests[k] /\ pols[k] = filterPols(r.name) /\ Resolvable(k) /\ Good(r.filter)
      /\ Len(rows[k]) <= options(k).count
  BY DEF EndRows, WorkersInv, WorkerInv, Working
<1>2. ~Promise!Impossible(r)
  BY <1>1, NotRefused
<1>3. Partial(k) # Failed
  BY AnswerFacts DEF Partial
<1>4. Partial(k).titles = pols[k] /\ Partial(k).rows = rows[k]
  BY DEF Partial
<1>5. Promise!TitlesRight(r, Partial(k))
  BY <1>1, <1>4, RequestFacts, TitlesFacts
<1>6. Promise!RowsTrue(r, Partial(k)) /\ Promise!Ascending(r, Partial(k))
  BY <1>4 DEF RowsInv, Promise!Ascending, InOrder
<1>7. Promise!RowsComplete(r, Partial(k))
  BY CompleteAtEnd
<1>8. Len(Partial(k).rows) <= Promise!Limit(r)
  BY <1>1, <1>4, OptionFacts DEF options
<1> QED
  BY <1>2, <1>3, <1>5, <1>6, <1>7, <1>8 DEF Promise!Right

-----------------------------------------------------------------------------
(***************************************************************************)
(* Every step of the workers is one that Browse allows, or changes nothing *)
(* that Browse speaks of.                                                  *)
(***************************************************************************)
Exact == stage = "serve" => Intact

LEMMA RefusalRight ==
  ASSUME WorkersInv, NEW k \in Workers, RefuseTrigger(k) \/ RefuseFilter(k)
  PROVE  Promise!Right(request[k], Failed)
<1>1. request[k] \in Requests[k] /\ (~Resolvable(k) \/ ~Good(request[k].filter))
  BY DEF RefuseTrigger, RefuseFilter, WorkersInv, WorkerInv
<1> QED
  BY <1>1, Refused DEF Promise!Right

LEMMA SendPromised ==
  ASSUME QueryInv, NEW k \in Workers, Step(k), Working(k), NEW a, Send(k, a), a # NULL,
         Intact /\ Promise!InRange(request[k]) => Promise!Right(request[k], a)
  PROVE  Promise!Reply(k)
<1>1. /\ stage = "serve" /\ stage' = "serve"
      /\ pc[k] # "idle" /\ Promise!InRange(request[k]) /\ Intact => Intact'
      /\ Intact' => Intact
  BY StepIntact DEF QueryInv
<1>2. request[k] \in Requests[k] /\ answer[k] = NULL /\ pc[k] # "idle"
  BY DEF QueryInv, WorkersInv, WorkerInv, Working
<1>3. request[k] # NULL
  BY <1>2, RequestFacts
<1>4. answer'[k] = a /\ request' = request
  BY DEF Send, QueryInv, WorkersInv
<1> QED
  BY <1>1, <1>2, <1>3, <1>4 DEF Promise!Reply

LEMMA SearchPromised ==
  ASSUME QueryInv, NEW k \in Workers, Step(k), Working(k), UNCHANGED <<request, answer>>
  PROVE  Promise!Spoil(k) \/ UNCHANGED <<request, answer, Exact>>
<1>1. /\ stage = "serve" /\ stage' = "serve"
      /\ pc[k] # "idle" /\ Promise!InRange(request[k]) /\ Intact => Intact'
      /\ Intact' => Intact
  BY StepIntact DEF QueryInv
<1>2. request[k] \in Requests[k] /\ answer[k] = NULL /\ pc[k] # "idle"
  BY DEF QueryInv, WorkersInv, WorkerInv, Working
<1>3. request[k] # NULL
  BY <1>2, RequestFacts
<1>4. CASE Promise!InRange(request[k])
  BY <1>1, <1>2, <1>4 DEF Exact
<1>5. CASE ~Promise!InRange(request[k])
  BY <1>2, <1>3, <1>5 DEF Promise!Spoil
<1> QED
  BY <1>4, <1>5

LEMMA WorkerPromised ==
  ASSUME QueryInv, NEW k \in Workers, Step(k)
  PROVE  \/ Promise!Ask(k) \/ Promise!Reply(k) \/ Promise!Spoil(k) \/ Promise!Take(k)
         \/ UNCHANGED <<request, answer, Exact>>
<1>1. stage = "serve" /\ stage' = "serve" /\ (values' = values => (Intact' <=> Intact))
  BY StepIntact DEF QueryInv
<1>2. WorkersInv /\ WorkerInv(k)
  BY DEF QueryInv, WorkersInv
<1>3. CASE \E r \in Requests[k] : Receive(k, r)
  <2>1. PICK r \in Requests[k] : Receive(k, r)
    BY <1>3
  <2>2. request[k] = NULL /\ request'[k] = r /\ answer' = answer /\ values' = values
    BY <1>2, <2>1 DEF Receive, loading, WorkersInv, WorkerInv
  <2>3. r # NULL
    BY RequestFacts
  <2> QED
    BY <1>1, <2>2, <2>3 DEF Promise!Ask
<1>4. CASE Deliver(k)
  <2>1. request'[k] = NULL /\ answer'[k] = NULL /\ answer[k] # NULL /\ values' = values
    BY <1>2, <1>4 DEF Deliver, loading, WorkersInv, WorkerInv
  <2> QED
    BY <1>1, <2>1 DEF Promise!Take
<1>5. CASE RefuseTrigger(k) \/ RefuseFilter(k)
  <2>1. Working(k) /\ Send(k, Failed)
    BY <1>5 DEF RefuseTrigger, RefuseFilter, Working
  <2>2. Promise!Right(request[k], Failed) /\ Failed # NULL
    BY <1>2, <1>5, RefusalRight, AnswerFacts
  <2> QED
    BY <2>1, <2>2, SendPromised
<1>6. CASE EndRows(k)
  <2>1. Working(k) /\ Send(k, Partial(k)) /\ pc[k] = "rows"
    BY <1>6 DEF EndRows, Working, Partial
  <2>2. Partial(k) # NULL
    BY <1>2, AnswerFacts DEF Partial
  <2>3. Intact /\ Promise!InRange(request[k]) => Promise!Right(request[k], Partial(k))
    <3> SUFFICES ASSUME Intact, Promise!InRange(request[k]) PROVE Promise!Right(request[k], Partial(k))
      OBVIOUS
    <3>1. RowsInv(k)
      BY <2>1 DEF QueryInv, ExactInv, Promised
    <3> QED
      BY <1>2, <1>6, <3>1, EndRight
  <2> QED
    BY <2>1, <2>2, <2>3, SendPromised
<1>7. CASE SeekTrigger(k) \/ SetupFilter(k) \/ EmitRow(k) \/ Fault(k)
  <2>1. Working(k) /\ UNCHANGED <<request, answer>>
    BY <1>7 DEF SeekTrigger, SetupFilter, EmitRow, Fault, Continue, Working
  <2> QED
    BY <2>1, SearchPromised
<1> QED
  BY <1>3, <1>4, <1>5, <1>6, <1>7 DEF Step, Work

LEMMA PromiseStep == QueryInv /\ [Next]_vars => [Promise!Next]_(Promise!vars)
<1> SUFFICES ASSUME QueryInv, [Next]_vars PROVE Promise!Next \/ UNCHANGED Promise!vars
  OBVIOUS
<1>1. CASE Loading
  <2>1. UNCHANGED <<request, answer>> /\ stage # "serve" /\ (stage' = "serve" => values' = values /\ stage = "publics")
    BY <1>1 DEF Loading, Load, LoadReference, MapFiles, LoadPublic, PublicFault, StartServer
  <2>2. stage' = "serve" => Intact'
    BY <2>1 DEF QueryInv, LoadInv, Intact, Loaded, Reference
  <2> QED
    BY <2>1, <2>2 DEF Promise!vars
<1>2. ASSUME NEW k \in Workers, Step(k) PROVE Promise!Next \/ UNCHANGED Promise!vars
  <2>1. \A j \in Workers \ {k} : request'[j] = request[j] /\ answer'[j] = answer[j]
    BY <1>2, StepOthers DEF QueryInv, Mine
  <2>2. (stage' = "serve" => Intact') => (stage = "serve" => Intact)
    BY <1>2, StepIntact DEF QueryInv
  <2> QED
    BY <1>2, <2>1, <2>2, WorkerPromised DEF Promise!Next, Promise!vars, Exact
<1>3. CASE UNCHANGED vars
  BY <1>3 DEF vars, loading, Intact, Loaded, Reference, Promise!vars
<1> QED
  BY <1>1, <1>2, <1>3 DEF Next, Step

(***************************************************************************)
(* Query implements Browse: for every set of columns, all requests and     *)
(* every number of worker threads, an answer has the columns that were     *)
(* asked for, each once and in their order, true cells, and the rows that  *)
(* were wanted from the start on with none left out, or is refused if and  *)
(* only if the query names what does not exist, as long as the maps that   *)
(* the threads share are as they were loaded; only a query of an element   *)
(* beyond the end of an array ends that (Service::query and what it calls).*)
(***************************************************************************)
THEOREM QueryImplementsBrowse == Spec => ImplementsBrowse
<1>1. Init => Promise!Init
  BY DEF Init, Start, Promise!Init
<1>2. QueryInv /\ [Next]_vars => [Promise!Next]_(Promise!vars)
  BY PromiseStep
<1> QED
  BY QueryInvInit, QueryInvStep, <1>1, <1>2, PTL DEF Spec, ImplementsBrowse, Promise!Spec
=============================================================================
