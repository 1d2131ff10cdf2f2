------------------------------- MODULE Query -------------------------------
(***************************************************************************)
(* pilserver: the threads of a worker process of the http server answer    *)
(* the queries of Service over the columns of References, whose maps they  *)
(* share without a lock.  (Other processes are forked with maps of their   *)
(* own, and share nothing with this one.)                                  *)
(***************************************************************************)
EXTENDS References, FiniteSetsExt, SequencesExt

CONSTANTS
  Workers,      \* the worker threads
  Requests,     \* Requests[k]: the queries that worker k may receive
  Field,        \* the field elements
  Malformed,    \* a value that is no number, a pattern that is no expression
  Failed,       \* an answer with status 500
  MaxCount,     \* the most rows of an answer to the viewer (200)
  Word          \* rows are counted modulo Word (2^64)

Elements == UNION { { [name |-> x, index |-> i] : i \in 0 .. PilReferences[x].len - 1 } : x \in Known }

\* A row of an answer, and the answers that are not Failed.
Row == [w : 0 .. N - 1, cells : UNION { [columns -> Field] : columns \in SUBSET Elements }]
Answers == [titles : Seq(Elements), rows : Seq(Row)]

IsCondition(c) == c.index \in Nat
IsRequest(r) ==
  /\ {r.from, r.count, r.before} \subseteq Nat /\ r.skip \in Int
  /\ {r.export, r.compact, r.nozeros, r.changes} \subseteq BOOLEAN
  /\ r.trigger # NULL => IsCondition(r.trigger)
  /\ r.filter \in Seq(ToSet(r.filter)) /\ \A i \in DOMAIN r.filter : IsCondition(r.filter[i])
  /\ r.name \in Seq(ToSet(r.name))
  /\ r = [from |-> r.from, count |-> r.count, before |-> r.before, skip |-> r.skip,
           trigger |-> r.trigger, filter |-> r.filter, name |-> r.name, compact |-> r.compact,
           nozeros |-> r.nozeros, changes |-> r.changes, export |-> r.export]

ASSUME QueryAssumption ==
  /\ MaxCount \in Nat /\ Word \in Nat /\ N + MaxCount < Word
  /\ \A k \in Workers : \A r \in Requests[k] :
       r # NULL /\ IsRequest(r) /\ r.from < Word /\ r.before + N < Word
  /\ 0 \in Field /\ \A type \in Types : \A id \in ColumnIds(type) : ColumnValue[type][id] \in [0 .. N - 1 -> Field]
  /\ Failed # NULL /\ {Failed, NULL} \cap Answers = {}

VARIABLES
  alive,        \* the process has not crashed
  pc,           \* where each worker is in Service::query
  request,      \* the query it serves, or has served last
  pols,         \* the columns it shows
  w,            \* the row it is at
  rows,         \* jValues
  evaluations,  \* the values of the row before
  answer        \* what it has sent: NULL, Failed, or titles and rows

local == <<pc, pols, w, rows, evaluations>>
vars == <<loading, alive, local, request, answer>>

Init ==
  /\ Start
  /\ alive = TRUE
  /\ pc = [k \in Workers |-> "idle"]
  /\ request = [k \in Workers |-> NULL]
  /\ pols = [k \in Workers |-> <<>>]
  /\ w = [k \in Workers |-> 0]
  /\ rows = [k \in Workers |-> <<>>]
  /\ evaluations = [k \in Workers |-> <<>>]
  /\ answer = [k \in Workers |-> NULL]

Loading == Load /\ UNCHANGED <<alive, local, request, answer>>
-----------------------------------------------------------------------------
(***************************************************************************)
(* parseOptions: the number of rows is bounded unless they are exported;   *)
(* the compact form shows every cell.                                      *)
(***************************************************************************)
Options(r) ==
  [r EXCEPT !.count = IF ~r.export /\ @ > MaxCount THEN MaxCount ELSE @,
            !.changes = @ /\ ~r.compact,
            !.nozeros = @ /\ ~r.compact]

options(k) == Options(request[k])

(***************************************************************************)
(* listReferences: the names in order, an array as its elements.           *)
(***************************************************************************)
Listed ==
  FlattenSeq([i \in DOMAIN Names |->
    [j \in 1 .. PilReferences[Names[i]].len |-> [name |-> Names[i], index |-> j - 1]]])

(***************************************************************************)
(* filterPols: for each pattern the columns, in their order, that match it *)
(* and are not included yet.  A pattern is the set of the columns that it  *)
(* matches; turn t of the two loops tests a column against a pattern.      *)
(***************************************************************************)
Tested(t) == Listed[((t - 1) % Len(Listed)) + 1]
Against(patterns, t) == patterns[((t - 1) \div Len(Listed)) + 1]
Turns(patterns) == Len(patterns) * Len(Listed)

Included(patterns) ==
  LET result[t \in 0 .. Turns(patterns)] ==
        IF t = 0 THEN <<>>
        ELSE IF Tested(t) \in Against(patterns, t) /\ Tested(t) \notin ToSet(result[t - 1])
             THEN Append(result[t - 1], Tested(t))
             ELSE result[t - 1]
  IN result

filterPols(patterns) ==
  IF patterns = <<>> THEN Listed ELSE Included(patterns)[Turns(patterns)]

(***************************************************************************)
(* A condition of the trigger or the filter.  Neither a value that is no   *)
(* number nor a name that does not exist gets as far as a reference.       *)
(***************************************************************************)
Wrong(c) == c.value = Malformed \/ c.name \notin Known
Good(conds) == \A i \in DOMAIN conds : ~Wrong(conds[i])
Resolved(conds) == { conds[i] : i \in { i \in DOMAIN conds : \A j \in 1 .. i : ~Wrong(conds[j]) } }

AfterAll(v, conds) ==
  AfterGet(v, [type \in Types |->
    { ElementId(c.name, c.index) :
        c \in { c \in Resolved(conds) : PilReferences[c.name].type = type } }])

Of(v, c) == Referenced(v, c.name, c.index)

Matches(v, c, x, beyond) == Of(v, c) # NULL /\ Evaluation(v, Of(v, c), x, beyond) = c.value
Holds(v, conds, x, beyond) == \A i \in DOMAIN conds : Matches(v, conds[i], x, beyond)

\* A seeded fault of Seek: the search starts at the row after.
SeekAfter(v, conds, from, beyond) ==
  IF conds = <<>> \/ from >= N THEN from
  ELSE CHOOSE x \in from + 1 .. N :
         /\ x = N \/ Holds(v, conds, x, beyond)
         /\ \A y \in from + 1 .. x - 1 : ~Holds(v, conds, y, beyond)

(***************************************************************************)
(* The loops of getTriggeredOmega, filterSetup and filterRows: the first   *)
(* row from here on where all the conditions hold.                         *)
(***************************************************************************)
Seek(v, conds, from, beyond) ==
  IF conds = <<>> \/ from >= N THEN from
  ELSE CHOOSE x \in from .. N :
         /\ x = N \/ Holds(v, conds, x, beyond)
         /\ \A y \in from .. x - 1 : ~Holds(v, conds, y, beyond)

(***************************************************************************)
(* The references that such a loop uses, each with its row: at a row the   *)
(* conditions are tested up to the first that does not hold.               *)
(***************************************************************************)
Used(v, conds, from, beyond) ==
  LET visited == { x \in from .. N - 1 : \A y \in from .. x - 1 : ~Holds(v, conds, y, beyond) }
      tested(x) == { i \in DOMAIN conds : \A j \in 1 .. i - 1 : Matches(v, conds[j], x, beyond) }
  IN UNION { { <<Of(v, conds[i]), x>> : i \in tested(x) } : x \in visited }

(***************************************************************************)
(* What a read past the end of a file may find; there is none as long as   *)
(* the maps are as they were loaded.                                       *)
(***************************************************************************)
Beyond(v) == IF v = Loaded THEN {0} ELSE Field

IsNull(used) == \E u \in used : u[1] = NULL
IsBeyond(v, used) == \E u \in used : u[1] # NULL /\ ~InFile(v, u[1], u[2])

\* A seeded fault of Minus: the subtraction does not wrap.
MinusSigned(a, b) == a - b

(***************************************************************************)
(* w -= options.before, of unsigned integers.                              *)
(***************************************************************************)
Minus(a, b) == (a - b) % Word
-----------------------------------------------------------------------------
Running == stage = "serve" /\ alive

(***************************************************************************)
(* Service::query gets a request that the server has given to worker k.    *)
(***************************************************************************)
Receive(k, r) ==
  /\ Running /\ pc[k] = "idle"
  /\ pc' = [pc EXCEPT ![k] = "trigger"]
  /\ request' = [request EXCEPT ![k] = r]
  /\ w' = [w EXCEPT ![k] = r.from]
  /\ UNCHANGED <<loading, alive, pols, rows, evaluations, answer>>

\* A seeded fault of Send: the exception is not caught.
SendNothing(k, a) ==
  /\ answer' = [answer EXCEPT ![k] = IF a = Failed THEN NULL ELSE a]
  /\ pc' = [pc EXCEPT ![k] = IF a = Failed THEN "failed" ELSE "sent"]
  /\ pols' = [pols EXCEPT ![k] = <<>>]
  /\ w' = [w EXCEPT ![k] = 0]
  /\ rows' = [rows EXCEPT ![k] = <<>>]
  /\ evaluations' = [evaluations EXCEPT ![k] = <<>>]
  /\ UNCHANGED <<stage, loaded, publics, alive, request>>

(***************************************************************************)
(* The answer is sent, by generateQueryOutput or with status 500 if there  *)
(* was an exception, and the locals of query are gone.                     *)
(***************************************************************************)
Send(k, a) ==
  /\ answer' = [answer EXCEPT ![k] = a]
  /\ pc' = [pc EXCEPT ![k] = "sent"]
  /\ pols' = [pols EXCEPT ![k] = <<>>]
  /\ w' = [w EXCEPT ![k] = 0]
  /\ rows' = [rows EXCEPT ![k] = <<>>]
  /\ evaluations' = [evaluations EXCEPT ![k] = <<>>]
  /\ UNCHANGED <<stage, loaded, publics, alive, request>>

(***************************************************************************)
(* The client has the answer, and the worker takes another request.        *)
(***************************************************************************)
Deliver(k) ==
  /\ Running /\ pc[k] = "sent"
  /\ pc' = [pc EXCEPT ![k] = "idle"]
  /\ request' = [request EXCEPT ![k] = NULL]
  /\ answer' = [answer EXCEPT ![k] = NULL]
  /\ UNCHANGED <<loading, alive, pols, w, rows, evaluations>>

Continue(k, to) ==
  /\ pc' = [pc EXCEPT ![k] = to]
  /\ UNCHANGED <<stage, loaded, publics, alive, rows, evaluations, request, answer>>

(***************************************************************************)
(* filterPols and getTriggeredOmega.  The loop over `skip` does not move   *)
(* past the row it has found, so every skip from 0 on stops at the first;  *)
(* a negative one does not search.                                         *)
(***************************************************************************)
Trigger(k) == IF request[k].trigger = NULL THEN <<>> ELSE <<request[k].trigger>>
Searched(k) == IF request[k].trigger # NULL /\ request[k].skip < 0 THEN <<>> ELSE Trigger(k)

Resolvable(k) == Malformed \notin ToSet(request[k].name) /\ Good(Trigger(k))

RefuseTrigger(k) ==
  /\ Running /\ pc[k] = "trigger" /\ ~Resolvable(k)
  /\ Send(k, Failed)
  /\ UNCHANGED values

SeekTrigger(k) ==
  /\ Running /\ pc[k] = "trigger" /\ Resolvable(k)
  /\ Continue(k, "filter")
  /\ pols' = [pols EXCEPT ![k] = filterPols(request[k].name)]
  /\ values' = AfterAll(values, Trigger(k))
  /\ \E beyond \in Beyond(values') :
       /\ ~IsNull(Used(values', Searched(k), w[k], beyond))
       /\ LET found == Seek(values', Searched(k), w[k], beyond)
          IN w' = [w EXCEPT ![k] =
                     IF Trigger(k) = <<>> THEN found ELSE Minus(found, request[k].before)]

(***************************************************************************)
(* filterSetup: the conditions are resolved one by one, up to one that     *)
(* throws; then the first row where they hold.                             *)
(***************************************************************************)
RefuseFilter(k) ==
  /\ Running /\ pc[k] = "filter" /\ ~Good(request[k].filter)
  /\ Send(k, Failed)
  /\ values' = AfterAll(values, request[k].filter)

\* filterRows, and the end of filterSetup.
Filtered(k, v, beyond) ==
  LET found == Seek(v, request[k].filter, w[k], beyond)
  IN IF request[k].filter = <<>> THEN found ELSE Minus(found, request[k].before)

SetupFilter(k) ==
  /\ Running /\ pc[k] = "filter" /\ Good(request[k].filter)
  /\ Continue(k, "rows")
  /\ UNCHANGED pols
  /\ values' = AfterAll(values, request[k].filter)
  /\ \E beyond \in Beyond(values') :
       /\ ~IsNull(Used(values', request[k].filter, w[k], beyond))
       /\ w' = [w EXCEPT ![k] = Filtered(k, values', beyond)]
-----------------------------------------------------------------------------
(***************************************************************************)
(* An iteration of the loop over the rows: the next row of the filter, and *)
(* its cells; a cell may be left out if it is zero, or as in the row that  *)
(* was shown before.                                                       *)
(***************************************************************************)
Cells(k, v, x, beyond) == [c \in ToSet(pols[k]) |-> Evaluation(v, Of(v, c), x, beyond)]

Shown(k, cells) ==
  { c \in DOMAIN cells :
      /\ cells[c] # 0 \/ ~options(k).nozeros
      /\ rows[k] = <<>> \/ ~options(k).changes \/ cells[c] # evaluations[k][c] }

More(k) == Len(rows[k]) < options(k).count

EmitRow(k) ==
  /\ Running /\ pc[k] = "rows" /\ More(k)
  /\ UNCHANGED <<loading, alive, pc, pols, request, answer>>
  /\ \E beyond \in Beyond(values), x \in 0 .. N - 1 :
       /\ x = Filtered(k, values, beyond)
       /\ ~IsNull(Used(values, request[k].filter, w[k], beyond))
       /\ evaluations' = [evaluations EXCEPT ![k] = Cells(k, values, x, beyond)]
       /\ w' = [w EXCEPT ![k] = x + 1]
  /\ LET cells == evaluations'[k]
     IN rows' = [rows EXCEPT ![k] =
                   Append(@, [w |-> w'[k] - 1, cells |-> Restrict(cells, Shown(k, cells))])]

EndRows(k) ==
  /\ Running /\ pc[k] = "rows"
  /\ Send(k, [titles |-> pols[k], rows |-> rows[k]])
  /\ UNCHANGED values
  /\ More(k) =>
       \E beyond \in Beyond(values) :
         /\ Filtered(k, values, beyond) >= N
         /\ ~IsNull(Used(values, request[k].filter, w[k], beyond))

(***************************************************************************)
(* A null reference that is evaluated ends the process with all its        *)
(* workers; a read past the end of a file may.                             *)
(***************************************************************************)
UsedNext(k, v, beyond) ==
  CASE pc[k] = "trigger" -> Used(v, Searched(k), w[k], beyond)
    [] pc[k] = "filter" -> Used(v, request[k].filter, w[k], beyond)
    [] pc[k] = "rows" ->
         Used(v, request[k].filter, w[k], beyond) \cup
         { <<Of(v, c), x>> : c \in ToSet(pols[k]), x \in {Filtered(k, v, beyond)} \cap 0 .. N - 1 }

Fault(k) ==
  /\ Running
  /\ alive' = FALSE
  /\ UNCHANGED <<stage, loaded, publics, local, request, answer>>
  /\ \/ pc[k] = "trigger" /\ Resolvable(k) /\ values' = AfterAll(values, Trigger(k))
     \/ pc[k] = "filter" /\ Good(request[k].filter) /\ values' = AfterAll(values, request[k].filter)
     \/ pc[k] = "rows" /\ More(k) /\ UNCHANGED values
  /\ \E beyond \in Beyond(values') :
       LET used == UsedNext(k, values', beyond) IN IsNull(used) \/ IsBeyond(values', used)

Work(k) ==
  \/ RefuseTrigger(k) \/ SeekTrigger(k)
  \/ RefuseFilter(k) \/ SetupFilter(k)
  \/ EmitRow(k) \/ EndRows(k)
  \/ Fault(k)

Next ==
  \/ Loading
  \/ \E k \in Workers : Work(k) \/ Deliver(k) \/ \E r \in Requests[k] : Receive(k, r)

Spec == Init /\ [][Next]_vars
FairSpec == Spec /\ \A k \in Workers : WF_vars(Work(k))
-----------------------------------------------------------------------------
TypeOK ==
  /\ stage \in {"references", "publics", "serve", "dead"}
  /\ \A type \in Types : \A id \in DOMAIN values[type] :
       values[type][id] \in {NULL, Reference(type, id)}
  /\ alive \in BOOLEAN
  /\ pc \in [Workers -> {"idle", "trigger", "filter", "rows", "sent"}]
  /\ pols \in [Workers -> Seq(Elements)]
  /\ w \in [Workers -> 0 .. Word - 1]
  /\ \A k \in Workers : pc[k] \in {"trigger", "filter", "rows"} => Len(rows[k]) <= options(k).count

\* The columns by name, for the promise.
Length == [x \in Known |-> PilReferences[x].len]
Truth ==
  [x \in Known |-> [i \in 0 .. PilReferences[x].len - 1 |->
     ColumnValue[PilReferences[x].type][PilReferences[x].id + i]]]

(***************************************************************************)
(* What module Browse promises of the answers is kept, as long as the maps *)
(* are as they were loaded.                                                *)
(***************************************************************************)
Promise == INSTANCE Browse WITH exact <- (stage = "serve" => Intact)

ImplementsBrowse == Promise!Spec

(***************************************************************************)
(* Every query is answered, with rows or an error, unless the process that *)
(* serves it has crashed: whatever the trigger, the filter and the rows    *)
(* before it, the loops end.                                               *)
(***************************************************************************)
Answered ==
  \A k \in Workers : pc[k] = "trigger" ~> pc[k] = "sent" \/ ~alive
=============================================================================
