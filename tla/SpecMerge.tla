----------------------------- MODULE SpecMerge -----------------------------
(***************************************************************************)
(* A pipeline that is used as a component of another one: the compiler      *)
(* (merge_deployment_spec_and_component_spec) copies the components and the *)
(* executors of the inner specification into the outer one. Names that are  *)
(* taken get an index, and everything that refers to them is renamed. The   *)
(* maps are protobuf maps, whose order is not defined: each loop takes the  *)
(* next entry in any order.                                                 *)
(*                                                                         *)
(* A component is who it is (id), the executor it runs (label) or, when it  *)
(* is a dag, the components its tasks refer to (refs). An executor, and the *)
(* platform configuration of an executor, are who they were written for.    *)
(***************************************************************************)
EXTENDS Integers, Sequences

CONSTANTS
  Name,             \* names of components, and labels of executors
  Indexed(_, _),    \* Indexed(n, i): the name n with the index i
  NoLabel,          \* the label of a component that is a dag
  MaxIndex,         \* bound: the highest index make_name_unique_by_adding_index tries
  Id,               \* identities of components, executors and configurations
  Task,             \* names of tasks
  Mains, Subs       \* the outer and the inner specifications that are merged

ASSUME NamesAssumption == MaxIndex \in Nat /\ NoLabel \notin Name

(* Maps from some of D to R, and specifications: written so that they are never enumerated. *)
IsMap(f, D, R) == DOMAIN f \subseteq D /\ f \in [DOMAIN f -> R]
IsComponent(c) == c \in [id : Id, label : Name \cup {NoLabel}, refs : {c.refs}] /\ IsMap(c.refs, Task, Name)
IsSpec(s) ==
  /\ s \in [components : {s.components}, root : {s.root}, executors : {s.executors}, config : {s.config}]
  /\ s.components = [n \in DOMAIN s.components |-> s.components[n]]
  /\ DOMAIN s.components \subseteq Name
  /\ \A n \in DOMAIN s.components : IsComponent(s.components[n])
  /\ IsMap(s.root, Task, Name)
  /\ IsMap(s.executors, Name, Id) /\ IsMap(s.config, Name, SUBSET Id)

(* The compiler configures only executors it has just added, and every      *)
(* reference of an inner specification names one of its components.         *)
ASSUME SpecsAssumption ==
  /\ \A s \in Mains \cup Subs : IsSpec(s) /\ DOMAIN s.config \subseteq DOMAIN s.executors
  /\ \A s \in Subs :
       /\ \A t \in DOMAIN s.root : s.root[t] \in DOMAIN s.components
       /\ \A n \in DOMAIN s.components : \A t \in DOMAIN s.components[n].refs :
            s.components[n].refs[t] \in DOMAIN s.components

VARIABLES
  main, sub,    \* the outer specification, and the copy of the inner one
  outer, inner, \* history: both as they were
  pc,           \* which of the loops runs
  todo,         \* the entries the loop has not come to
  names,        \* old_name_to_new_name, in the order of its entries
  k             \* how many of the names are still to be renamed

vars == <<main, sub, outer, inner, pc, todo, names, k>>

Init ==
  /\ outer \in Mains /\ main = outer
  /\ inner \in Subs /\ sub = inner
  /\ pc = "executors" /\ todo = DOMAIN inner.executors
  /\ names = <<>> /\ k = 0

-----------------------------------------------------------------------------
(* Mutant of make_name_unique_by_adding_index: the name with the index is not looked up. *)
make_name_unique_by_adding_indexFirst(n, collection, new) ==
  IF n \notin collection THEN new = n ELSE new = Indexed(n, 2)

(* new is the name n, or n with the lowest index from 2 on that is not taken. *)
make_name_unique_by_adding_index(n, collection, new) ==
  IF n \notin collection THEN new = n
  ELSE \E i \in 2..MaxIndex :
         /\ new = Indexed(n, i) /\ new \notin collection
         /\ \A j \in 2..(i - 1) : Indexed(n, j) \in collection

(* The assignment f[x] = v of a map. *)
Put(f, x, v) == [y \in DOMAIN f \cup {x} |-> IF y = x THEN v ELSE f[y]]

Renamed(n, old, new) == IF n = old THEN new ELSE n

_rename_executor_labels(components, old, new) ==
  [n \in DOMAIN components |-> [components[n] EXCEPT !.label = Renamed(@, old, new)]]

(* The entry moves to the new label, over an entry that is there. *)
_rename_platform_config_executor_labels(config, old, new) ==
  IF old \notin DOMAIN config THEN config
  ELSE Put([l \in DOMAIN config \ {old} |-> config[l]], new, config[old])

(* Mutant of ExecutorRenamed: the platform configuration keeps the old label. *)
ExecutorRenamedOnly(spec, old, new) ==
  [spec EXCEPT !.components = _rename_executor_labels(@, old, new)]

ExecutorRenamed(spec, old, new) ==
  [spec EXCEPT !.components = _rename_executor_labels(@, old, new),
               !.config = _rename_platform_config_executor_labels(@, old, new)]

(* body.update: what is there, and what is added. *)
merge_platform_specs(config, added) ==
  [l \in DOMAIN config \cup DOMAIN added |->
     (IF l \in DOMAIN config THEN config[l] ELSE {}) \cup (IF l \in DOMAIN added THEN added[l] ELSE {})]

(* One round of the loop of _merge_deployment_spec; the platform configuration of the      *)
(* inner specification is merged in every round, as it is by then.                         *)
MergeExecutor(l) ==
  /\ pc = "executors" /\ l \in todo
  /\ \E new \in Name :
       /\ make_name_unique_by_adding_index(l, DOMAIN main.executors, new)
       /\ sub' = IF new = l THEN sub
                 ELSE ExecutorRenamed(sub, l, new)
       /\ main' = [main EXCEPT !.executors = Put(@, new, inner.executors[l]),
                               !.config = merge_platform_specs(@, sub'.config)]
  /\ todo' = todo \ {l}
  /\ UNCHANGED <<outer, inner, pc, names, k>>

ExecutorsMerged ==
  /\ pc = "executors" /\ todo = {}
  /\ pc' = "names" /\ todo' = DOMAIN sub.components
  /\ UNCHANGED <<main, sub, outer, inner, names, k>>

Entries == 1..Len(names)
Olds == {names[i].old : i \in Entries}
News == {names[i].new : i \in Entries}

(* The first pass of _merge_component_spec: a new name differs from the names of the outer *)
(* specification and from the old and new names of the entries before it.                  *)
NameComponent(n) ==
  /\ pc = "names" /\ n \in todo
  /\ \E new \in Name :
       /\ make_name_unique_by_adding_index(n, DOMAIN main.components \cup Olds \cup News, new)
       /\ names' = Append(names, [old |-> n, new |-> new])
  /\ todo' = todo \ {n}
  /\ UNCHANGED <<main, sub, outer, inner, pc, k>>

ComponentsNamed ==
  /\ pc = "names" /\ todo = {}
  /\ pc' = "rename" /\ k' = Len(names)
  /\ UNCHANGED <<main, sub, outer, inner, todo, names>>

RenamedRefs(refs, old, new) == [t \in DOMAIN refs |-> Renamed(refs[t], old, new)]

_rename_component_refs(spec, old, new) ==
  [spec EXCEPT
     !.components = [n \in DOMAIN spec.components |->
                       [spec.components[n] EXCEPT !.refs = RenamedRefs(@, old, new)]],
     !.root = RenamedRefs(@, old, new)]

(* Mutant of RenameRefs: the names are replaced in the order of the map. *)
RenameRefsFifo ==
  /\ pc = "rename" /\ k > 0
  /\ LET e == names[Len(names) + 1 - k] IN sub' = _rename_component_refs(sub, e.old, e.new)
  /\ k' = k - 1
  /\ UNCHANGED <<main, outer, inner, pc, todo, names>>

(* The references are renamed one name after the other, the last one first. *)
RenameRefs ==
  /\ pc = "rename" /\ k > 0
  /\ sub' = _rename_component_refs(sub, names[k].old, names[k].new)
  /\ k' = k - 1
  /\ UNCHANGED <<main, outer, inner, pc, todo, names>>

Copied ==
  [n \in DOMAIN main.components \cup News |->
     IF n \in News THEN sub.components[names[CHOOSE i \in Entries : names[i].new = n].old]
     ELSE main.components[n]]

CopyComponents ==
  /\ pc = "rename" /\ k = 0
  /\ main' = [main EXCEPT !.components = Copied]
  /\ pc' = "done"
  /\ UNCHANGED <<sub, outer, inner, todo, names, k>>

Next ==
  \/ \E n \in todo : MergeExecutor(n) \/ NameComponent(n)
  \/ ExecutorsMerged \/ ComponentsNamed \/ RenameRefs \/ CopyComponents

Spec == Init /\ [][Next]_vars

-----------------------------------------------------------------------------
(* Every variable keeps its type. *)
TypeOK ==
  /\ IsSpec(main) /\ IsSpec(sub) /\ outer \in Mains /\ inner \in Subs
  /\ pc \in {"executors", "names", "rename", "done"}
  /\ todo \subseteq Name
  /\ names \in Seq([old : Name, new : Name])
  /\ k \in 0..Len(names)

(* ref names, in the merged specification, the component that was names in the inner one.   *)
Kept(ref, was) ==
  ref \in DOMAIN main.components /\ main.components[ref].id = inner.components[was].id

(* A task of the inner pipeline, or of a dag within it, still runs its own component after  *)
(* any number of clashes of names: renaming one name after the other gives what renaming    *)
(* all of them at once would.                                                               *)
RefsAreKept ==
  pc = "done" =>
    /\ \A t \in DOMAIN inner.root : Kept(sub.root[t], inner.root[t])
    /\ \A i \in Entries :
         LET dag == main.components[names[i].new].refs
             was == inner.components[names[i].old].refs
         IN DOMAIN dag = DOMAIN was /\ \A t \in DOMAIN was : Kept(dag[t], was[t])

(* Merging a pipeline never replaces a component or an executor that the outer one has.     *)
OuterIsKept ==
  /\ \A n \in DOMAIN outer.components :
       n \in DOMAIN main.components /\ main.components[n] = outer.components[n]
  /\ \A l \in DOMAIN outer.executors :
       l \in DOMAIN main.executors /\ main.executors[l] = outer.executors[l]

(* No executor label of the inner pipeline is another one with an index: the labels are     *)
(* renamed in place, in any order, and a new one is not compared with those still to come.  *)
LabelsAreApart ==
  \A l, m \in DOMAIN inner.executors : \A i \in 2..MaxIndex : m # Indexed(l, i)

(* A component of the inner pipeline still runs its own executor, with its own platform     *)
(* configuration, whatever labels the outer pipeline has (_merge_deployment_spec).          *)
ExecutorsAreKept ==
  pc = "done" /\ LabelsAreApart =>
    \A i \in Entries :
      LET l == main.components[names[i].new].label
          was == inner.components[names[i].old].label
      IN was \in DOMAIN inner.executors =>
           /\ l \in DOMAIN main.executors /\ main.executors[l] = inner.executors[was]
           /\ was \in DOMAIN inner.config => l \in DOMAIN main.config /\ main.config[l] = inner.config[was]
=============================================================================
