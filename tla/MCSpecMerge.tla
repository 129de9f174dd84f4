---------------------------- MODULE MCSpecMerge ----------------------------
(* Outer and inner pipelines whose names are "a", "a-2", "a-3", "a-2-2" and so on: the      *)
(* sequence of the indices. A task carries the name of the component it runs.               *)
EXTENDS SpecMerge

WithIndex(n, i) == Append(n, i)
Known == {<<>>, <<2>>, <<3>>}
AllNames == Known \cup {Append(n, i) : n \in Known, i \in 2..6}
Ids == {"outer", "inner"} \X Known

None == <<0>>
Executors(who, ns) == [n \in ns |-> <<who, n>>]
Config(who, ns) == [n \in ns |-> {<<who, n>>}]

(* One component of the inner pipeline may itself be a dag that runs the others. *)
Outer(ns) ==
  [components |-> [n \in ns |-> [id |-> <<"outer", n>>, label |-> n, refs |-> <<>>]],
   root |-> <<>>, executors |-> Executors("outer", ns), config |-> Config("outer", ns)]
Inner(ns, dag) ==
  [components |-> [n \in ns |-> [id |-> <<"inner", n>>, label |-> IF n = dag THEN None ELSE n,
                                 refs |-> IF n = dag THEN [m \in ns \ {dag} |-> m] ELSE <<>>]],
   root |-> [n \in ns |-> n],
   executors |-> Executors("inner", ns \ {dag}), config |-> Config("inner", ns \ {dag})]

AllMains == {Outer(ns) : ns \in SUBSET Known}
AllSubs == UNION {{Inner(ns, dag) : dag \in ns \cup {None}} : ns \in (SUBSET Known) \ {{}}}
=============================================================================
