----------------------------- MODULE MCJobPlan -----------------------------
(* An instance of JobPlan for TLC: one job with any of some hundred graphs of five *)
(* operators, sound and unsound ones, one with a graph of two tasks; workers of    *)
(* unequal size. *)
EXTENDS JobPlan, TLC

CONSTANTS j1, j2

MCSlotsOf == (1 :> 1) @@ (2 :> 3) @@ (3 :> 6)

Op(id, type, parallelism) ==
  [id |-> id, type |-> type, parallelism |-> parallelism,
   udf |-> type \in {"map", "key_by", "reduce"},
   connector |-> CASE type = "source" -> "kafka" [] type = "sink" -> "file" [] OTHER -> "none",
   window |-> type = "reduce"]

Ops(types, sizes) == [i \in 1..Len(types) |-> Op(i, types[i], sizes[i])]

OneSource == <<"source", "key_by", "map", "reduce", "sink">>
TwoSources == <<"source", "key_by", "source", "reduce", "sink">>

OpLists ==
  {Ops(OneSource, <<1, 2, 1, 2, 1>>), Reverse(Ops(OneSource, <<1, 2, 1, 2, 1>>)),
   Ops(TwoSources, <<1, 2, 1, 2, 1>>), Ops(OneSource, <<1, 1, 1, 1, 2>>)}

Pairs == <<<<1, 2>>, <<4, 5>>, <<1, 3>>, <<2, 3>>, <<3, 2>>, <<2, 4>>, <<3, 4>>, <<3, 5>>>>

Graphs ==
  {[operators |-> ops, edges |-> SelectSeq(Pairs, LAMBDA e : e \in edges)] :
     ops \in OpLists, edges \in {E \in SUBSET Range(Pairs) : {<<1, 2>>, <<4, 5>>} \subseteq E}}

Line == <<<<1, 2>>, <<2, 3>>, <<3, 4>>>>
LineOps == Ops(<<"source", "key_by", "reduce", "sink">>, <<1, 1, 1, 1>>)

Broken ==
  {[operators |-> LineOps, edges |-> Line \o e] :
     e \in {<<<<1, 2>>>>, <<<<2, 2>>>>, <<<<2, 7>>>>}}
  \cup {[operators |-> [LineOps EXCEPT ![2] = o], edges |-> Line] :
     o \in {Op(1, "key_by", 1), [Op(2, "key_by", 1) EXCEPT !.udf = FALSE]}}

Small == [operators |-> <<Op(1, "source", 1), Op(2, "sink", 1)>>, edges |-> <<<<1, 2>>>>]

MCOffers == {(j1 :> d) @@ (j2 :> Small) : d \in Graphs \cup Broken}
=============================================================================
