----------------------------- MODULE References -----------------------------
(***************************************************************************)
(* The columns as they are found by name: the three `References` of the    *)
(* engine (constants, commitments, intermediate columns), the directory    *)
(* referencesByName, the public values, and the part of the constructor of *)
(* Engine that fills them.  The files are sequences of field elements, row *)
(* by row.                                                                 *)
(***************************************************************************)
EXTENDS Integers, Sequences, FiniteSets

CONSTANTS
  N,              \* Engine::n, the rows of every column
  Names,          \* the keys of pil["references"], in their order
  PilReferences,  \* PilReferences[name]: its type, first id and length
  ColumnValue,    \* ColumnValue[type][id][w]: what the column of that id holds
  PilPublics,     \* pil["publics"], a sequence
  PublicsFile,    \* the value of each public in the file of option -u, or NULL
  NULL            \* the null pointer, json null, an option that is not given

Types == {"constP", "cmP", "imP"}
Known == { Names[i] : i \in DOMAIN Names }

Span(name) == LET p == PilReferences[name] IN p.id .. p.id + p.len - 1
ColumnIds(type) == UNION { Span(name) : name \in { x \in Known : PilReferences[x].type = type } }

\* What the PIL compiler emits: no id twice, and nConstants and nCommitments
\* are the numbers of columns of their types, numbered from 0.
ASSUME ReferencesAssumption ==
  /\ N \in Nat \ {0}
  /\ Names \in Seq(Known) /\ Cardinality(Known) = Len(Names)
  /\ PilReferences \in [Known -> [type : Types, id : Nat, len : Nat \ {0}]]
  /\ \A x, y \in Known :
       x # y /\ PilReferences[x].type = PilReferences[y].type => Span(x) \cap Span(y) = {}
  /\ \A type \in {"constP", "cmP"} : ColumnIds(type) = 0 .. Cardinality(ColumnIds(type)) - 1
  /\ PilPublics \in Seq({ PilPublics[i] : i \in DOMAIN PilPublics })
  /\ \A i \in DOMAIN PilPublics :
       LET public == PilPublics[i]
       IN public.polType = "cmP" => public.polId \in ColumnIds("cmP") /\ public.idx \in 0 .. N - 1
  /\ PublicsFile # NULL => DOMAIN PublicsFile = DOMAIN PilPublics
  /\ NULL \notin [type : Types, id : Nat]

VARIABLES
  stage,    \* what the constructor is doing; "serve" when it is done, or "dead"
  loaded,   \* how many references, or publics, that stage has loaded
  values,   \* values[type]: References::values, a map from ids
  publics   \* Engine::publics

loading == <<stage, loaded, values, publics>>

NoReferences == [type \in Types |-> <<>>]

Start ==
  /\ stage = "references"
  /\ loaded = 0
  /\ values = NoReferences
  /\ publics = <<>>
-----------------------------------------------------------------------------
Reference(type, id) == [type |-> type, id |-> id]

(***************************************************************************)
(* References::add: one entry for each element of an array.                *)
(***************************************************************************)
Added(v, name) ==
  LET type == PilReferences[name].type
  IN [v EXCEPT ![type] = [id \in DOMAIN @ \cup Span(name) |->
        IF id \in Span(name) THEN Reference(type, id) ELSE @[id]]]

(***************************************************************************)
(* References::get: operator[] of the map inserts a null entry for an id   *)
(* that it does not have.                                                  *)
(***************************************************************************)
Get(v, type, id) == IF id \in DOMAIN v[type] THEN v[type][id] ELSE NULL
AfterGet(v, ids) == [type \in Types |-> [id \in DOMAIN v[type] \cup ids[type] |-> Get(v, type, id)]]

(***************************************************************************)
(* getDirectReference for name[index], or a name alone, index 0.  The      *)
(* index is not compared with the length: getReference is called without   *)
(* it, and getIndex goes on to the next ids.                               *)
(***************************************************************************)
ElementId(name, index) == PilReferences[name].id + index
Referenced(v, name, index) == Get(v, PilReferences[name].type, ElementId(name, index))

(***************************************************************************)
(* The files, which have N rows of as many elements as there are columns   *)
(* of their type.                                                          *)
(***************************************************************************)
Width == [type \in {"constP", "cmP"} |-> Cardinality(ColumnIds(type))]
File ==
  [type \in {"constP", "cmP"} |-> [offset \in 0 .. N * Width[type] - 1 |->
     ColumnValue[type][offset % Width[type]][offset \div Width[type]]]]

(***************************************************************************)
(* References::getEvaluation: the stride is the size of the map.  The      *)
(* intermediate columns have an evaluator, which finds them by their id.   *)
(* An offset past the end of the file gives whatever is there.             *)
(***************************************************************************)
Offset(v, ref, w) == w * Cardinality(DOMAIN v[ref.type]) + ref.id
InFile(v, ref, w) == ref.type = "imP" \/ Offset(v, ref, w) \in DOMAIN File[ref.type]
Evaluation(v, ref, w, beyond) ==
  IF ref.type = "imP" THEN ColumnValue["imP"][ref.id][w]
  ELSE IF InFile(v, ref, w) THEN File[ref.type][Offset(v, ref, w)]
  ELSE beyond
-----------------------------------------------------------------------------
\* A seeded fault of AllLoaded: the publics are read after the first name.
SomeLoaded == loaded > 0

AllLoaded == loaded = Len(Names)

(***************************************************************************)
(* loadReferences, a name.                                                 *)
(***************************************************************************)
LoadReference ==
  /\ stage = "references" /\ ~AllLoaded
  /\ loaded' = loaded + 1
  /\ values' = Added(values, Names[loaded + 1])
  /\ UNCHANGED <<stage, publics>>

MapFiles ==
  /\ stage = "references" /\ AllLoaded
  /\ stage' = "publics"
  /\ loaded' = 0
  /\ UNCHANGED <<values, publics>>

(***************************************************************************)
(* loadPublics, one public.  An intermediate column that the publics file  *)
(* does not give is read before there is an evaluator, from a pointer that *)
(* nothing has set: any value (NULL here), or the end of the process.      *)
(***************************************************************************)
Given(i) == PublicsFile # NULL /\ PublicsFile[i] # NULL

PublicValue(i) ==
  LET public == PilPublics[i]
  IN IF public.polType = "cmP"
     THEN Evaluation(values, Reference("cmP", public.polId), public.idx, NULL)
     ELSE IF Given(i) THEN PublicsFile[i] ELSE NULL

LoadPublic ==
  /\ stage = "publics" /\ loaded < Len(PilPublics)
  /\ loaded' = loaded + 1
  /\ publics' = Append(publics, PublicValue(loaded + 1))
  /\ UNCHANGED <<stage, values>>

PublicFault ==
  /\ stage = "publics" /\ loaded < Len(PilPublics)
  /\ PilPublics[loaded + 1].polType = "imP" /\ ~Given(loaded + 1)
  /\ stage' = "dead"
  /\ UNCHANGED <<loaded, values, publics>>

(***************************************************************************)
(* The rest of the constructor evaluates the expressions (Pipeline) and    *)
(* installs their evaluator; then the http server runs.                    *)
(***************************************************************************)
StartServer ==
  /\ stage = "publics" /\ loaded = Len(PilPublics)
  /\ stage' = "serve"
  /\ UNCHANGED <<loaded, values, publics>>

Load == LoadReference \/ MapFiles \/ LoadPublic \/ PublicFault \/ StartServer
-----------------------------------------------------------------------------
\* What the maps are as long as nobody has asked for an id that is not there.
Loaded == [type \in Types |-> [id \in ColumnIds(type) |-> Reference(type, id)]]
Intact == values = Loaded

(***************************************************************************)
(* Every public that is a commitment, or is given in the publics file, has *)
(* its value when the evaluation of the expressions starts to read it: the *)
(* commitments are read with the width that the file has.                  *)
(***************************************************************************)
PublicsExact ==
  \A i \in DOMAIN publics :
    LET public == PilPublics[i]
    IN /\ public.polType = "cmP" => publics[i] = ColumnValue["cmP"][public.polId][public.idx]
       /\ public.polType = "imP" /\ Given(i) => publics[i] = PublicsFile[i]
=============================================================================
