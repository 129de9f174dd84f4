-------------------------- MODULE SpecMergeProofs --------------------------
(***************************************************************************)
(* That merging a pipeline into another one keeps what the tasks refer to   *)
(* and what the outer pipeline has, for every set of names, every way of    *)
(* adding an index to a name and all specifications.                        *)
(***************************************************************************)
EXTENDS SpecMerge, TLAPS

(* The names given so far: the old ones are different names of the inner specification,     *)
(* and a new one is neither a name of the outer specification nor an old or a new name of   *)
(* an entry before it. It may be the old name of a later entry.                             *)
Naming ==
  /\ pc = "executors" => names = <<>> /\ todo \subseteq DOMAIN inner.executors
  /\ pc = "names" => /\ todo \cap Olds = {} /\ todo \cup Olds = DOMAIN inner.components
  /\ pc \in {"rename", "done"} => Olds = DOMAIN inner.components
  /\ \A i \in Entries : names[i].new \notin DOMAIN outer.components
  /\ \A i, j \in Entries :
       j < i => names[i].old # names[j].old /\ names[i].new \notin {names[j].old, names[j].new}

(* now is what has become of the reference was when the entries above c have had their turn. *)
RefNow(now, was, c) ==
  \A j \in Entries : was = names[j].old => now = IF j > c THEN names[j].new ELSE was

RefsNow(now, was, c) ==
  DOMAIN now = DOMAIN was /\ \A t \in DOMAIN was : RefNow(now[t], was[t], c)

RefsSame(now, was) ==
  DOMAIN now = DOMAIN was /\ \A t \in DOMAIN was : now[t] = was[t]

Renaming ==
  /\ DOMAIN sub.components = DOMAIN inner.components
  /\ \A n \in DOMAIN inner.components : sub.components[n].id = inner.components[n].id
  /\ pc \in {"executors", "names"} =>
       /\ k = 0
       /\ RefsSame(sub.root, inner.root)
       /\ \A n \in DOMAIN inner.components : RefsSame(sub.components[n].refs, inner.components[n].refs)
  /\ pc \in {"rename", "done"} =>
       /\ RefsNow(sub.root, inner.root, k)
       /\ \A n \in DOMAIN inner.components : RefsNow(sub.components[n].refs, inner.components[n].refs, k)
  /\ pc = "done" => k = 0

Copying ==
  /\ pc # "done" => main.components = outer.components
  /\ pc = "done" => \A i \in Entries :
       /\ names[i].new \in DOMAIN main.components
       /\ main.components[names[i].new] = sub.components[names[i].old]

IInv == TypeOK /\ Naming /\ Renaming /\ Copying /\ OuterIsKept

-----------------------------------------------------------------------------
LEMMA ElementOfSeq == ASSUME NEW S, NEW s \in Seq(S), NEW i \in 1..Len(s) PROVE s[i] \in S
OBVIOUS

LEMMA EntryType == TypeOK => \A i \in Entries : names[i] \in [old : Name, new : Name]
BY ElementOfSeq DEF TypeOK, Entries

(* What renaming one component does to a specification. *)
LEMMA RenameComponent ==
  ASSUME NEW s, IsSpec(s), NEW old \in Name, NEW new \in Name
  PROVE  LET r == _rename_component_refs(s, old, new) IN
           /\ IsSpec(r)
           /\ r.root = RenamedRefs(s.root, old, new)
           /\ DOMAIN r.components = DOMAIN s.components
           /\ \A n \in DOMAIN s.components :
                /\ r.components[n].id = s.components[n].id
                /\ r.components[n].refs = RenamedRefs(s.components[n].refs, old, new)
                /\ r.components[n].label = s.components[n].label
<1> DEFINE r == _rename_component_refs(s, old, new)
<1>1. ASSUME NEW refs, IsMap(refs, Task, Name)
      PROVE  IsMap(RenamedRefs(refs, old, new), Task, Name)
  BY <1>1 DEF IsMap, RenamedRefs, Renamed
<1>2. /\ r.components = [n \in DOMAIN s.components |->
                           [s.components[n] EXCEPT !.refs = RenamedRefs(@, old, new)]]
      /\ r.root = RenamedRefs(s.root, old, new)
      /\ r.executors = s.executors /\ r.config = s.config
      /\ r \in [components : {r.components}, root : {r.root}, executors : {r.executors}, config : {r.config}]
  BY DEF IsSpec, _rename_component_refs
<1>3. ASSUME NEW n \in DOMAIN s.components
      PROVE  /\ IsComponent(r.components[n])
             /\ r.components[n].id = s.components[n].id
             /\ r.components[n].refs = RenamedRefs(s.components[n].refs, old, new)
             /\ r.components[n].label = s.components[n].label
  <2>1. IsComponent(s.components[n])
    BY DEF IsSpec
  <2>2. r.components[n] = [s.components[n] EXCEPT !.refs = RenamedRefs(@, old, new)]
    BY <1>2
  <2> QED
    BY <1>1, <2>1, <2>2 DEF IsComponent
<1>4. IsSpec(r)
  BY <1>1, <1>2, <1>3 DEF IsSpec
<1> QED
  BY <1>2, <1>3, <1>4

(* What renaming an executor does to a specification. *)
LEMMA RenameExecutor ==
  ASSUME NEW s, IsSpec(s), NEW old \in Name, NEW new \in Name
  PROVE  LET r == ExecutorRenamed(s, old, new) IN
           /\ IsSpec(r)
           /\ r.root = s.root
           /\ DOMAIN r.components = DOMAIN s.components
           /\ \A n \in DOMAIN s.components :
                /\ r.components[n].id = s.components[n].id
                /\ r.components[n].refs = s.components[n].refs
                /\ r.components[n].label = Renamed(s.components[n].label, old, new)
           /\ r.config = _rename_platform_config_executor_labels(s.config, old, new)
<1> DEFINE r == ExecutorRenamed(s, old, new)
<1>2. /\ r.components = _rename_executor_labels(s.components, old, new)
      /\ r.config = _rename_platform_config_executor_labels(s.config, old, new)
      /\ r.root = s.root /\ r.executors = s.executors
      /\ r \in [components : {r.components}, root : {r.root}, executors : {r.executors}, config : {r.config}]
  BY DEF IsSpec, ExecutorRenamed
<1>3. ASSUME NEW n \in DOMAIN s.components
      PROVE  /\ IsComponent(r.components[n])
             /\ r.components[n].id = s.components[n].id
             /\ r.components[n].refs = s.components[n].refs
             /\ r.components[n].label = Renamed(s.components[n].label, old, new)
  <2>1. IsComponent(s.components[n])
    BY DEF IsSpec
  <2>2. r.components[n] = [s.components[n] EXCEPT !.label = Renamed(@, old, new)]
    BY <1>2 DEF _rename_executor_labels
  <2> QED
    BY <2>1, <2>2 DEF IsComponent, Renamed
<1>4. /\ r.components = [n \in DOMAIN r.components |-> r.components[n]]
      /\ DOMAIN r.components = DOMAIN s.components
  BY <1>2 DEF _rename_executor_labels
<1>5. IsMap(r.config, Name, SUBSET Id)
  <2>1. IsMap(s.config, Name, SUBSET Id)
    BY DEF IsSpec
  <2> QED
    BY <1>2, <2>1 DEF IsMap, _rename_platform_config_executor_labels, Put
<1>6. IsSpec(r)
  BY <1>2, <1>3, <1>4, <1>5 DEF IsSpec
<1> QED
  BY <1>2, <1>3, <1>4, <1>6

-----------------------------------------------------------------------------
LEMMA InitIInv == Init => IInv
<1> SUFFICES ASSUME Init PROVE IInv
  OBVIOUS
<1>1. IsSpec(main) /\ IsSpec(sub)
  BY SpecsAssumption DEF Init
<1>2. TypeOK
  BY <1>1 DEF Init, TypeOK, IsSpec, IsMap
<1>3. Entries = {}
  BY DEF Init, Entries
<1>4. Naming /\ Renaming /\ Copying /\ OuterIsKept
  BY <1>1, <1>3 DEF Init, Naming, Renaming, RefsSame, Copying, OuterIsKept
<1> QED
  BY <1>2, <1>4 DEF IInv

LEMMA MergeExecutorIInv ==
  ASSUME IInv, NEW l \in todo, MergeExecutor(l)
  PROVE  IInv'
<1> USE DEF IInv
<1>1. PICK new \in Name :
        /\ make_name_unique_by_adding_index(l, DOMAIN main.executors, new)
        /\ sub' = IF new = l THEN sub
                  ELSE ExecutorRenamed(sub, l, new)
        /\ main' = [main EXCEPT !.executors = Put(@, new, inner.executors[l]),
                                !.config = merge_platform_specs(@, sub'.config)]
  BY DEF MergeExecutor
<1>2. new \notin DOMAIN main.executors
  BY <1>1 DEF make_name_unique_by_adding_index
<1>3. l \in Name /\ IsSpec(sub) /\ IsSpec(main) /\ inner.executors[l] \in Id
  <2>1. IsSpec(inner)
    BY SpecsAssumption DEF TypeOK
  <2>2. l \in DOMAIN inner.executors
    BY DEF Naming, MergeExecutor
  <2> QED
    BY <2>1, <2>2 DEF TypeOK, IsSpec, IsMap
<1>4. /\ IsSpec(sub') /\ sub'.root = sub.root
      /\ DOMAIN sub'.components = DOMAIN sub.components
      /\ \A n \in DOMAIN sub.components :
           /\ sub'.components[n].id = sub.components[n].id
           /\ sub'.components[n].refs = sub.components[n].refs
  <2>1. CASE new = l
    <3>1. sub' = sub
      BY <1>1, <2>1
    <3> QED
      BY <1>3, <3>1
  <2>2. CASE new # l
    <3>1. sub' = ExecutorRenamed(sub, l, new)
      BY <1>1, <2>2
    <3> QED
      BY <1>3, <3>1, RenameExecutor
  <2> QED
    BY <2>1, <2>2
<1>5. /\ main'.components = main.components /\ main'.root = main.root
      /\ main'.executors = Put(main.executors, new, inner.executors[l])
      /\ main'.config = merge_platform_specs(main.config, sub'.config)
      /\ main' \in [components : {main'.components}, root : {main'.root},
                    executors : {main'.executors}, config : {main'.config}]
  BY <1>1, <1>3 DEF IsSpec
<1>6. IsSpec(main')
  <2>1. IsMap(main'.executors, Name, Id)
    BY <1>3, <1>5 DEF IsSpec, IsMap, Put
  <2>2. IsMap(main'.config, Name, SUBSET Id)
    BY <1>3, <1>4, <1>5 DEF IsSpec, IsMap, merge_platform_specs
  <2> QED
    BY <1>3, <1>5, <2>1, <2>2 DEF IsSpec
<1>7. TypeOK'
  BY <1>4, <1>6 DEF TypeOK, MergeExecutor
<1>8. Naming'
  BY DEF Naming, MergeExecutor, Olds, Entries
<1>9. Renaming'
  BY <1>4 DEF Renaming, MergeExecutor, RefsSame
<1>10. Copying' /\ OuterIsKept'
  BY <1>2, <1>5 DEF Copying, OuterIsKept, MergeExecutor, Put
<1> QED
  BY <1>7, <1>8, <1>9, <1>10

LEMMA ExecutorsMergedIInv ==
  ASSUME IInv, ExecutorsMerged
  PROVE  IInv'
<1> USE DEF IInv
<1>1. TypeOK'
  BY DEF TypeOK, ExecutorsMerged, IsSpec, IsMap
<1>2. Naming'
  BY DEF Naming, Renaming, ExecutorsMerged, Olds, Entries
<1>3. Renaming'
  BY DEF Renaming, ExecutorsMerged, RefsSame
<1>4. Copying' /\ OuterIsKept'
  BY DEF Copying, OuterIsKept, ExecutorsMerged
<1> QED
  BY <1>1, <1>2, <1>3, <1>4

LEMMA NameComponentIInv ==
  ASSUME IInv, NEW n \in todo, NameComponent(n)
  PROVE  IInv'
<1> USE DEF IInv
<1>1. PICK new \in Name :
        /\ make_name_unique_by_adding_index(n, DOMAIN main.components \cup Olds \cup News, new)
        /\ names' = Append(names, [old |-> n, new |-> new])
  BY DEF NameComponent
<1>2. /\ new \notin DOMAIN main.components \cup Olds \cup News \/ (new = n /\ n \notin DOMAIN main.components \cup Olds \cup News)
      /\ n \in Name /\ n \notin Olds
  BY <1>1 DEF make_name_unique_by_adding_index, TypeOK, Naming, NameComponent
<1>3. /\ names' \in Seq([old : Name, new : Name])
      /\ Len(names') = Len(names) + 1 /\ Len(names) \in Nat
      /\ \A i \in 1..Len(names) : names'[i] = names[i]
      /\ names'[Len(names) + 1] = [old |-> n, new |-> new]
  BY <1>1, <1>2 DEF TypeOK
<1>4. /\ Entries' = Entries \cup {Len(names) + 1}
      /\ Olds' = Olds \cup {n}
  <2>1. Entries' = Entries \cup {Len(names) + 1}
    BY <1>3 DEF Entries
  <2> QED
    BY <1>3, <2>1 DEF Olds, Entries
<1>5. TypeOK'
  BY <1>3 DEF TypeOK, NameComponent
<1>6. Naming'
  <2>1. pc = "names" /\ pc' = "names" /\ todo' = todo \ {n} /\ UNCHANGED <<inner, outer, main>>
    BY DEF NameComponent
  <2>2. todo' \cap Olds' = {} /\ todo' \cup Olds' = DOMAIN inner'.components
    BY <1>2, <1>4, <2>1 DEF Naming
  <2>3. \A i \in Entries' : names'[i].new \notin DOMAIN outer'.components
    BY <1>2, <1>3, <1>4, <2>1 DEF Naming, Copying, Entries
  <2>4. ASSUME NEW i \in Entries', NEW j \in Entries', j < i
        PROVE  names'[i].old # names'[j].old /\ names'[i].new \notin {names'[j].old, names'[j].new}
    <3>1. j \in Entries /\ names'[j] = names[j]
      BY <1>3, <1>4, <2>4 DEF Entries
    <3>2. CASE i \in Entries
      BY <1>3, <2>4, <3>1, <3>2 DEF Naming, Entries
    <3>3. CASE i = Len(names) + 1
      BY <1>2, <1>3, <3>1, <3>3 DEF Olds, News
    <3> QED
      BY <1>4, <3>2, <3>3
  <2> QED
    BY <2>1, <2>2, <2>3, <2>4 DEF Naming
<1>7. Renaming'
  BY DEF Renaming, NameComponent, RefsSame
<1>8. Copying' /\ OuterIsKept'
  BY DEF Copying, OuterIsKept, NameComponent
<1> QED
  BY <1>5, <1>6, <1>7, <1>8

LEMMA ComponentsNamedIInv ==
  ASSUME IInv, ComponentsNamed
  PROVE  IInv'
<1> USE DEF IInv
<1>1. TypeOK'
  BY DEF TypeOK, ComponentsNamed
<1>2. Naming'
  BY DEF Naming, ComponentsNamed, Olds, Entries
<1>3. Renaming'
  <2>1. \A j \in Entries' : ~ (j > k')
    BY DEF Entries, ComponentsNamed, TypeOK
  <2> QED
    BY <2>1 DEF Renaming, ComponentsNamed, RefsSame, RefsNow, RefNow
<1>4. Copying' /\ OuterIsKept'
  BY DEF Copying, OuterIsKept, ComponentsNamed
<1> QED
  BY <1>1, <1>2, <1>3, <1>4

LEMMA RenameRefsIInv ==
  ASSUME IInv, RenameRefs
  PROVE  IInv'
<1> USE DEF IInv
<1>1. /\ k \in Entries /\ k \in Nat /\ k' = k - 1
      /\ names[k].old \in Name /\ names[k].new \in Name
  <2>1. names \in Seq([old : Name, new : Name]) /\ Len(names) \in Nat /\ k \in 1..Len(names)
    BY DEF TypeOK, RenameRefs
  <2>2. names[k] \in [old : Name, new : Name]
    BY <2>1, EntryType DEF Entries
  <2> QED
    BY <2>1, <2>2 DEF RenameRefs, Entries
<1>2. /\ IsSpec(sub')
      /\ sub'.root = RenamedRefs(sub.root, names[k].old, names[k].new)
      /\ DOMAIN sub'.components = DOMAIN sub.components
      /\ \A n \in DOMAIN sub.components :
           /\ sub'.components[n].id = sub.components[n].id
           /\ sub'.components[n].refs = RenamedRefs(sub.components[n].refs, names[k].old, names[k].new)
  BY <1>1, RenameComponent DEF RenameRefs, TypeOK
<1>3. TypeOK'
  BY <1>1, <1>2 DEF TypeOK, RenameRefs, Entries
<1>4. ASSUME NEW now, NEW was, RefNow(now, was, k)
      PROVE  RefNow(Renamed(now, names[k].old, names[k].new), was, k - 1)
  <2> SUFFICES ASSUME NEW j \in Entries, was = names[j].old
               PROVE  Renamed(now, names[k].old, names[k].new)
                        = IF j > k - 1 THEN names[j].new ELSE was
    BY DEF RefNow
  <2>1. j \in Int /\ k \in Int
    BY <1>1 DEF Entries
  <2>2. CASE j > k
    BY <1>1, <1>4, <2>1, <2>2 DEF RefNow, Renamed, Naming
  <2>3. CASE j = k
    BY <1>1, <1>4, <2>1, <2>3 DEF RefNow, Renamed
  <2>4. CASE j < k
    BY <1>1, <1>4, <2>1, <2>4 DEF RefNow, Renamed, Naming
  <2> QED
    BY <2>1, <2>2, <2>3, <2>4
<1>5. ASSUME NEW now, NEW was, RefsNow(now, was, k)
      PROVE  RefsNow(RenamedRefs(now, names[k].old, names[k].new), was, k - 1)
  BY <1>4, <1>5 DEF RefsNow, RenamedRefs
<1>6. Renaming'
  <2>1. /\ DOMAIN sub.components = DOMAIN inner.components
        /\ \A n \in DOMAIN inner.components : sub'.components[n].id = inner.components[n].id
        /\ pc = "rename" /\ UNCHANGED <<inner, names, pc>> /\ Entries' = Entries
    BY <1>2 DEF Renaming, RenameRefs, Entries
  <2>2. RefsNow(sub'.root, inner.root, k - 1)
    BY <1>2, <1>5, <2>1 DEF Renaming
  <2>3. ASSUME NEW n \in DOMAIN inner.components
        PROVE  RefsNow(sub'.components[n].refs, inner.components[n].refs, k - 1)
    BY <1>2, <1>5, <2>1 DEF Renaming
  <2> QED
    BY <1>1, <1>2, <2>1, <2>2, <2>3 DEF Renaming, RefsNow, RefNow
<1>7. Naming'
  BY DEF Naming, RenameRefs, Olds, Entries
<1>8. Copying' /\ OuterIsKept'
  BY DEF Copying, OuterIsKept, RenameRefs
<1> QED
  BY <1>3, <1>6, <1>7, <1>8

LEMMA CopyComponentsIInv ==
  ASSUME IInv, CopyComponents
  PROVE  IInv'
<1> USE DEF IInv
<1>1. /\ main.components = outer.components /\ IsSpec(main) /\ IsSpec(sub)
      /\ Olds = DOMAIN sub.components
      /\ main' = [main EXCEPT !.components = Copied]
  BY DEF CopyComponents, Copying, TypeOK, Naming, Renaming
<1>2. /\ main'.components = Copied /\ main'.root = main.root
      /\ main'.executors = main.executors /\ main'.config = main.config
      /\ main' \in [components : {main'.components}, root : {main'.root},
                    executors : {main'.executors}, config : {main'.config}]
  BY <1>1 DEF IsSpec
<1>3. DOMAIN Copied = DOMAIN main.components \cup News /\ Copied = [n \in DOMAIN Copied |-> Copied[n]]
  BY DEF Copied
<1>4. ASSUME NEW i \in Entries
      PROVE  Copied[names[i].new] = sub.components[names[i].old]
  <2> DEFINE c == CHOOSE j \in Entries : names[j].new = names[i].new
  <2>1. c \in Entries /\ names[c].new = names[i].new
    OBVIOUS
  <2>2. c = i
    BY <2>1 DEF Naming, Entries, TypeOK
  <2> QED
    BY <2>2 DEF Copied, News
<1>5. ASSUME NEW n \in DOMAIN outer.components
      PROVE  n \in DOMAIN Copied /\ Copied[n] = outer.components[n]
  BY <1>1 DEF Copied, News, Naming
<1>6. IsSpec(main')
  <2>1. DOMAIN Copied \subseteq Name
    <3>1. \A i \in Entries : names[i] \in [old : Name, new : Name]
      BY EntryType
    <3> QED
      BY <1>1, <1>3, <3>1 DEF IsSpec, News
  <2>2. ASSUME NEW n \in DOMAIN Copied PROVE IsComponent(Copied[n])
    <3>1. CASE n \in News
      <4>1. PICK i \in Entries : n = names[i].new
        BY <3>1 DEF News
      <4> QED
        BY <1>1, <1>4, <4>1 DEF IsSpec, Olds
    <3>2. CASE n \notin News
      BY <1>1, <1>3, <1>5, <3>2 DEF IsSpec
    <3> QED
      BY <3>1, <3>2
  <2> QED
    BY <1>1, <1>2, <1>3, <2>1, <2>2 DEF IsSpec
<1>7. TypeOK'
  BY <1>6 DEF TypeOK, CopyComponents
<1>8. Naming'
  BY DEF Naming, CopyComponents, Olds, Entries
<1>9. Renaming'
  BY DEF Renaming, CopyComponents, RefsNow, RefNow, Entries
<1>10. Copying'
  BY <1>2, <1>3, <1>4 DEF Copying, CopyComponents, Entries, News
<1>11. OuterIsKept'
  BY <1>2, <1>5 DEF OuterIsKept, CopyComponents
<1> QED
  BY <1>7, <1>8, <1>9, <1>10, <1>11

LEMMA StepIInv == IInv /\ [Next]_vars => IInv'
<1> SUFFICES ASSUME IInv, [Next]_vars PROVE IInv'
  OBVIOUS
<1>1. CASE UNCHANGED vars
  BY <1>1 DEF vars, IInv, TypeOK, Naming, Renaming, Copying, OuterIsKept, Olds, Entries, RefsNow,
              RefNow, RefsSame
<1>2. CASE Next
  BY <1>2, MergeExecutorIInv, ExecutorsMergedIInv, NameComponentIInv, ComponentsNamedIInv,
     RenameRefsIInv, CopyComponentsIInv DEF Next
<1> QED
  BY <1>1, <1>2

LEMMA Invariance == Spec => []IInv
BY InitIInv, StepIInv, PTL DEF Spec

(* Every variable keeps its type, for all specifications that are merged. *)
THEOREM TypeCorrect == Spec => []TypeOK
<1>1. IInv => TypeOK
  BY DEF IInv
<1> QED
  BY <1>1, Invariance, PTL

(* For all specifications: renaming the references of the inner pipeline one name after the *)
(* other, the last one first, leaves every task with the component it referred to.          *)
THEOREM EveryTaskKeepsItsComponent == Spec => []RefsAreKept
<1>1. IInv => RefsAreKept
  <2> SUFFICES ASSUME IInv, pc = "done" PROVE RefsAreKept
    BY DEF RefsAreKept
  <2> USE DEF IInv
  <2>1. k = 0 /\ Olds = DOMAIN inner.components /\ inner \in Subs
    BY DEF Renaming, Naming, TypeOK
  <2>2. ASSUME NEW now, NEW was \in DOMAIN inner.components, RefNow(now, was, 0)
        PROVE  Kept(now, was)
    <3>1. PICK j \in Entries : was = names[j].old
      BY <2>1 DEF Olds
    <3>2. now = names[j].new
      BY <2>1, <2>2, <3>1 DEF RefNow, Entries
    <3> QED
      BY <3>1, <3>2 DEF Kept, Copying, Renaming
  <2>3. \A t \in DOMAIN inner.root : Kept(sub.root[t], inner.root[t])
    BY <2>1, <2>2, SpecsAssumption DEF Renaming, RefsNow
  <2>4. ASSUME NEW i \in Entries
        PROVE  LET dag == main.components[names[i].new].refs
                   was == inner.components[names[i].old].refs
               IN DOMAIN dag = DOMAIN was /\ \A t \in DOMAIN was : Kept(dag[t], was[t])
    <3>1. names[i].old \in DOMAIN inner.components
      BY <2>1 DEF Olds
    <3>2. RefsNow(main.components[names[i].new].refs, inner.components[names[i].old].refs, 0)
      BY <2>1, <3>1 DEF Copying, Renaming
    <3> QED
      BY <2>1, <2>2, <3>1, <3>2, SpecsAssumption DEF RefsNow
  <2> QED
    BY <2>3, <2>4 DEF RefsAreKept
<1> QED
  BY <1>1, Invariance, PTL

(* For all specifications: merging never replaces a component or an executor of the outer   *)
(* pipeline.                                                                                *)
THEOREM NothingOuterIsReplaced == Spec => []OuterIsKept
<1>1. IInv => OuterIsKept
  BY DEF IInv
<1> QED
  BY <1>1, Invariance, PTL

-----------------------------------------------------------------------------
(* Executors *)

Left == IF pc = "executors" THEN todo ELSE {}

(* R says which label each executor of the inner specification has by now; one that has not *)
(* been merged has its own. The labels of the components and of both platform               *)
(* configurations follow R, as long as no label meets an executor of the outer one.         *)
Relabelled(R) ==
  /\ \A l \in Left : R[l] = l
  /\ \A l \in DOMAIN inner.executors : R[l] = l \/ \E i \in 2..MaxIndex : R[l] = Indexed(l, i)
  /\ \A l, m \in DOMAIN inner.executors : R[l] = R[m] => l = m

Merged(R) ==
  /\ \A l \in DOMAIN inner.executors \ Left :
       /\ R[l] \notin DOMAIN outer.executors
       /\ R[l] \in DOMAIN main.executors /\ main.executors[R[l]] = inner.executors[l]
       /\ l \in DOMAIN inner.config => R[l] \in DOMAIN main.config
  /\ \A x \in DOMAIN main.executors :
       x \in DOMAIN outer.executors \/ \E l \in DOMAIN inner.executors \ Left : x = R[l]

Configured(R) ==
  /\ \A x \in DOMAIN sub.config : \E l \in DOMAIN inner.config : x = R[l]
  /\ \A l \in DOMAIN inner.config : R[l] \in DOMAIN sub.config /\ sub.config[R[l]] = inner.config[l]
  /\ \A l \in DOMAIN inner.executors :
       R[l] \notin DOMAIN outer.executors /\ R[l] \in DOMAIN main.config =>
         l \in DOMAIN inner.config /\ main.config[R[l]] = inner.config[l]
  /\ DOMAIN main.config \subseteq DOMAIN main.executors \cup Left

Labelled(R) ==
  \A n \in DOMAIN inner.components :
    inner.components[n].label \in DOMAIN inner.executors => sub.components[n].label = R[inner.components[n].label]

Labels(R) == Relabelled(R) /\ Merged(R) /\ Configured(R) /\ Labelled(R)

Labelling == LabelsAreApart => \E R \in [DOMAIN inner.executors -> Name] : Labels(R)

LEMMA InnerFacts ==
  ASSUME IInv
  PROVE  /\ IsSpec(inner) /\ IsSpec(outer) /\ IsSpec(sub) /\ IsSpec(main)
         /\ DOMAIN inner.config \subseteq DOMAIN inner.executors /\ DOMAIN inner.executors \subseteq Name
         /\ Left \subseteq DOMAIN inner.executors
         /\ \A l \in DOMAIN outer.executors : l \in DOMAIN main.executors
         /\ DOMAIN sub.components = DOMAIN inner.components
<1>1. IsSpec(inner) /\ IsSpec(outer) /\ DOMAIN inner.config \subseteq DOMAIN inner.executors
  BY SpecsAssumption DEF IInv, TypeOK
<1> QED
  BY <1>1 DEF IInv, TypeOK, Naming, Left, OuterIsKept, Renaming, IsSpec, IsMap

LEMMA InitLabelling == Init => Labelling
<1> SUFFICES ASSUME Init PROVE \E R \in [DOMAIN inner.executors -> Name] : Labels(R)
  BY DEF Labelling
<1> DEFINE R == [l \in DOMAIN inner.executors |-> l]
<1>1. /\ inner \in Subs /\ outer \in Mains /\ main = outer /\ sub = inner /\ Left = DOMAIN inner.executors
  BY DEF Init, Left
<1>2. /\ DOMAIN inner.config \subseteq DOMAIN inner.executors /\ DOMAIN inner.executors \subseteq Name
      /\ DOMAIN outer.config \subseteq DOMAIN outer.executors
  BY <1>1, SpecsAssumption DEF IsSpec, IsMap
<1>3. R \in [DOMAIN inner.executors -> Name] /\ \A l \in DOMAIN inner.executors : R[l] = l
  BY <1>2
<1> HIDE DEF R
<1>4. Labels(R)
  BY <1>1, <1>2, <1>3 DEF Labels, Relabelled, Merged, Configured, Labelled
<1> QED
  BY <1>3, <1>4

LEMMA MergeExecutorLabelling ==
  ASSUME IInv, LabelsAreApart, NEW R \in [DOMAIN inner.executors -> Name], Labels(R), NEW l \in todo, MergeExecutor(l)
  PROVE  \E Q \in [DOMAIN inner.executors -> Name] : Labels(Q)'
<1> DEFINE E == DOMAIN inner.executors
<1>1. PICK new \in Name :
        /\ make_name_unique_by_adding_index(l, DOMAIN main.executors, new)
        /\ sub' = IF new = l THEN sub ELSE ExecutorRenamed(sub, l, new)
        /\ main' = [main EXCEPT !.executors = Put(@, new, inner.executors[l]),
                                !.config = merge_platform_specs(@, sub'.config)]
  BY DEF MergeExecutor
<1>2. /\ pc = "executors" /\ pc' = pc /\ todo' = todo \ {l} /\ UNCHANGED <<outer, inner>>
      /\ Left = todo /\ Left' = todo \ {l} /\ l \in E /\ l \in Name
  BY InnerFacts DEF MergeExecutor, Left
<1>3. /\ new \notin DOMAIN main.executors /\ new \notin DOMAIN outer.executors
      /\ new = l \/ \E i \in 2..MaxIndex : new = Indexed(l, i)
  BY <1>1, InnerFacts DEF make_name_unique_by_adding_index
<1>4. R[l] = l /\ \A m \in E \ todo : R[m] \in DOMAIN main.executors /\ R[m] # new
  BY <1>2, <1>3 DEF Labels, Relabelled, Merged
<1>5. \A m \in E : m # l => m # new
  BY <1>2, <1>3 DEF LabelsAreApart
<1>6. \A m \in E : m # l => R[m] # new /\ R[m] # l
  <2>1. ASSUME NEW m \in E, m # l PROVE R[m] # new
    BY <1>2, <1>4, <1>5, <2>1 DEF Labels, Relabelled
  <2> QED
    BY <1>2, <1>4, <2>1 DEF Labels, Relabelled
<1>7. new # l => new \notin DOMAIN sub.config /\ new \notin DOMAIN main.config
  <2>1. new # l => new \notin E
    BY <1>5
  <2>2. new \notin DOMAIN main.config \/ new = l
    BY <1>2, <1>3, <2>1, InnerFacts DEF Labels, Configured
  <2>3. new # l => \A m \in E : R[m] # new
    BY <1>4, <1>6
  <2> QED
    BY <2>2, <2>3, InnerFacts DEF Labels, Configured
<1> DEFINE Q == [R EXCEPT ![l] = new]
<1>8. Q \in [E -> Name] /\ Q[l] = new /\ \A m \in E : m # l => Q[m] = R[m]
  BY <1>2
<1> HIDE DEF Q
<1>9. /\ DOMAIN sub'.components = DOMAIN sub.components
      /\ \A n \in DOMAIN sub.components : sub'.components[n].label = Renamed(sub.components[n].label, l, new)
      /\ sub'.config = IF new = l THEN sub.config ELSE _rename_platform_config_executor_labels(sub.config, l, new)
  <2>1. CASE new = l
    <3>1. sub' = sub
      BY <1>1, <2>1
    <3> QED
      BY <2>1, <3>1 DEF Renamed
  <2>2. CASE new # l
    <3>1. sub' = ExecutorRenamed(sub, l, new)
      BY <1>1, <2>2
    <3> QED
      BY <1>2, <2>2, <3>1, InnerFacts, RenameExecutor
  <2> QED
    BY <2>1, <2>2
<1>10. /\ main'.executors = Put(main.executors, new, inner.executors[l])
       /\ main'.config = merge_platform_specs(main.config, sub'.config)
  BY <1>1, InnerFacts DEF IsSpec
<1>11. Relabelled(Q)'
  <2>1. \A m \in todo \ {l} : Q[m] = m
    BY <1>2, <1>8, InnerFacts DEF Labels, Relabelled
  <2>2. ASSUME NEW m \in E PROVE Q[m] = m \/ \E i \in 2..MaxIndex : Q[m] = Indexed(m, i)
    BY <1>3, <1>8 DEF Labels, Relabelled
  <2>3. ASSUME NEW m \in E, NEW n \in E, Q[m] = Q[n] PROVE m = n
    BY <1>6, <1>8, <2>3 DEF Labels, Relabelled
  <2> QED
    BY <1>2, <2>1, <2>2, <2>3 DEF Relabelled
<1>12. Labelled(Q)'
  BY <1>2, <1>4, <1>6, <1>8, <1>9, InnerFacts DEF Labels, Labelled, Renamed
<1>13. /\ \A x \in DOMAIN sub'.config : \E m \in DOMAIN inner.config : x = Q[m]
       /\ \A m \in DOMAIN inner.config : Q[m] \in DOMAIN sub'.config /\ sub'.config[Q[m]] = inner.config[m]
  <2>1. /\ \A x \in DOMAIN sub.config : \E m \in DOMAIN inner.config : x = R[m]
        /\ \A m \in DOMAIN inner.config : R[m] \in DOMAIN sub.config /\ sub.config[R[m]] = inner.config[m]
        /\ DOMAIN inner.config \subseteq E
    BY InnerFacts DEF Labels, Configured
  <2>2. CASE new = l
    BY <1>4, <1>8, <1>9, <2>1, <2>2
  <2>3. CASE new # l /\ l \notin DOMAIN sub.config
    <3>1. sub'.config = sub.config /\ l \notin DOMAIN inner.config
      BY <1>4, <1>9, <2>1, <2>3 DEF _rename_platform_config_executor_labels
    <3> QED
      BY <1>8, <2>1, <3>1
  <2>4. CASE new # l /\ l \in DOMAIN sub.config
    <3>1. /\ DOMAIN sub'.config = (DOMAIN sub.config \ {l}) \cup {new}
          /\ sub'.config[new] = sub.config[l]
          /\ \A x \in DOMAIN sub.config \ {l} : x # new => sub'.config[x] = sub.config[x]
      BY <1>9, <2>4 DEF _rename_platform_config_executor_labels, Put
    <3>2. l \in DOMAIN inner.config
      BY <1>2, <1>4, <1>6, <2>1, <2>4
    <3> QED
      BY <1>2, <1>4, <1>6, <1>8, <2>1, <3>1, <3>2
  <2> QED
    BY <2>2, <2>3, <2>4
<1>14. /\ DOMAIN main'.config = DOMAIN main.config \cup DOMAIN sub'.config
       /\ \A x \in DOMAIN main'.config :
            main'.config[x] = (IF x \in DOMAIN main.config THEN main.config[x] ELSE {})
                              \cup (IF x \in DOMAIN sub'.config THEN sub'.config[x] ELSE {})
       /\ DOMAIN main'.executors = DOMAIN main.executors \cup {new}
       /\ main'.executors[new] = inner.executors[l]
       /\ \A x \in DOMAIN main.executors : x # new => main'.executors[x] = main.executors[x]
  BY <1>10 DEF merge_platform_specs, Put
<1>15. Merged(Q)'
  <2>1. ASSUME NEW m \in E, m \notin todo \ {l}
        PROVE  /\ Q[m] \notin DOMAIN outer.executors
               /\ Q[m] \in DOMAIN main'.executors /\ main'.executors[Q[m]] = inner.executors[m]
               /\ m \in DOMAIN inner.config => Q[m] \in DOMAIN main'.config
    <3>1. CASE m = l
      BY <1>3, <1>8, <1>13, <1>14, <3>1
    <3>2. CASE m # l
      BY <1>2, <1>3, <1>4, <1>8, <1>14, <2>1, <3>2 DEF Labels, Merged
    <3> QED
      BY <3>1, <3>2
  <2>2. ASSUME NEW x \in DOMAIN main'.executors, x \notin DOMAIN outer.executors
        PROVE  \E m \in E \ (todo \ {l}) : x = Q[m]
    <3>1. CASE x = new
      BY <1>2, <1>8, <3>1
    <3>2. CASE x # new
      <4>1. PICK m \in E \ todo : x = R[m]
        BY <1>2, <1>14, <2>2, <3>2 DEF Labels, Merged
      <4> QED
        BY <1>2, <1>8, <4>1
    <3> QED
      BY <3>1, <3>2
  <2> QED
    BY <1>2, <2>1, <2>2 DEF Merged
<1>16. Configured(Q)'
  <2>1. ASSUME NEW m \in E, Q[m] \notin DOMAIN outer.executors, Q[m] \in DOMAIN main'.config
        PROVE  m \in DOMAIN inner.config /\ main'.config[Q[m]] = inner.config[m]
    <3>1. Q[m] \in DOMAIN sub'.config => m \in DOMAIN inner.config /\ sub'.config[Q[m]] = inner.config[m]
      <4>1. \A n \in DOMAIN inner.config : Q[m] = Q[n] => m = n
        BY <1>2, <1>11, InnerFacts DEF Relabelled
      <4> QED
        BY <1>13, <4>1
    <3>2. Q[m] \in DOMAIN main.config => m \in DOMAIN inner.config /\ main.config[Q[m]] = inner.config[m]
      <4>1. CASE Q[m] = R[m]
        BY <2>1, <4>1 DEF Labels, Configured
      <4>2. CASE Q[m] # R[m]
        BY <1>4, <1>7, <1>8, <4>2
      <4> QED
        BY <4>1, <4>2
    <3> QED
      BY <1>14, <2>1, <3>1, <3>2
  <2>2. ASSUME NEW x \in DOMAIN main'.config PROVE x \in DOMAIN main'.executors \cup (todo \ {l})
    <3>1. CASE x \in DOMAIN main.config /\ x # l
      BY <1>2, <1>14, <3>1 DEF Labels, Configured
    <3>2. CASE x \in DOMAIN sub'.config
      <4>1. PICK m \in DOMAIN inner.config : x = Q[m]
        BY <1>13, <3>2
      <4> QED
        BY <1>2, <1>4, <1>8, <1>14, <4>1, InnerFacts DEF Labels, Relabelled
    <3>3. CASE x = l /\ x \notin DOMAIN sub'.config
      <4>1. CASE new = l
        BY <1>14, <3>3, <4>1
      <4>2. CASE new # l
        <5>1. l \in DOMAIN main.executors
          BY <1>1, <4>2 DEF make_name_unique_by_adding_index
        <5> QED
          BY <1>14, <3>3, <5>1
      <4> QED
        BY <4>1, <4>2
    <3> QED
      BY <1>14, <2>2, <3>1, <3>2, <3>3
  <2> QED
    BY <1>2, <1>13, <2>1, <2>2 DEF Configured
<1> QED
  BY <1>8, <1>11, <1>12, <1>15, <1>16 DEF Labels

LEMMA StepLabelling == IInv /\ IInv' /\ Labelling /\ [Next]_vars => Labelling'
<1> SUFFICES ASSUME IInv, IInv', Labelling, [Next]_vars, LabelsAreApart'
             PROVE  \E R \in [DOMAIN inner'.executors -> Name] : Labels(R)'
  BY DEF Labelling
<1>1. UNCHANGED <<outer, inner>>
  BY DEF Next, vars, MergeExecutor, NameComponent, ExecutorsMerged, ComponentsNamed, RenameRefs, CopyComponents
<1>2. LabelsAreApart
  BY <1>1 DEF LabelsAreApart
<1>3. PICK R \in [DOMAIN inner.executors -> Name] : Labels(R)
  BY <1>2 DEF Labelling
<1>4. CASE \E l \in todo : MergeExecutor(l)
  BY <1>1, <1>2, <1>3, <1>4, MergeExecutorLabelling
<1>5. ASSUME main'.executors = main.executors, main'.config = main.config, sub'.config = sub.config, Left' = Left,
             \A n \in DOMAIN inner.components : sub'.components[n].label = sub.components[n].label
      PROVE  Labels(R)'
  BY <1>1, <1>3, <1>5 DEF Labels, Relabelled, Merged, Configured, Labelled
<1>6. CASE UNCHANGED <<main, sub>> /\ Left' = Left
  BY <1>1, <1>3, <1>5, <1>6
<1>7. CASE RenameRefs
  <2>1. names[k].old \in Name /\ names[k].new \in Name
    BY <1>7, EntryType DEF IInv, TypeOK, RenameRefs, Entries
  <2>2. \A n \in DOMAIN sub.components : sub'.components[n].label = sub.components[n].label
    BY <1>7, <2>1, InnerFacts, RenameComponent DEF RenameRefs
  <2>3. sub'.config = sub.config
    BY <1>7, InnerFacts DEF RenameRefs, _rename_component_refs, IsSpec
  <2> QED
    BY <1>1, <1>3, <1>5, <1>7, <2>2, <2>3, InnerFacts DEF RenameRefs, Left
<1>8. CASE CopyComponents
  <2>1. main'.executors = main.executors /\ main'.config = main.config
    BY <1>8, InnerFacts DEF CopyComponents, IsSpec
  <2> QED
    BY <1>1, <1>3, <1>5, <1>8, <2>1 DEF CopyComponents, Left
<1>9. CASE (\E n \in todo : NameComponent(n)) \/ ExecutorsMerged \/ ComponentsNamed \/ UNCHANGED vars
  <2>1. UNCHANGED <<main, sub>> /\ Left' = Left
    BY <1>9 DEF NameComponent, ExecutorsMerged, ComponentsNamed, vars, Left
  <2> QED
    BY <1>6, <2>1
<1> QED
  BY <1>4, <1>7, <1>8, <1>9 DEF Next

(* For all specifications in which no executor label is another one with an index: every    *)
(* component of the inner pipeline runs its own executor, with its own configuration.       *)
THEOREM EveryComponentKeepsItsExecutor == Spec => []ExecutorsAreKept
<1>1. IInv /\ Labelling => ExecutorsAreKept
  <2> SUFFICES ASSUME IInv, Labelling, pc = "done", LabelsAreApart, NEW i \in Entries,
                      inner.components[names[i].old].label \in DOMAIN inner.executors
               PROVE  LET l == main.components[names[i].new].label
                          was == inner.components[names[i].old].label
                      IN /\ l \in DOMAIN main.executors /\ main.executors[l] = inner.executors[was]
                         /\ was \in DOMAIN inner.config =>
                              l \in DOMAIN main.config /\ main.config[l] = inner.config[was]
    BY DEF ExecutorsAreKept
  <2>1. PICK R \in [DOMAIN inner.executors -> Name] : Labels(R)
    BY DEF Labelling
  <2>2. names[i].old \in DOMAIN inner.components
    BY DEF IInv, Naming, Olds
  <2>3. main.components[names[i].new].label = R[inner.components[names[i].old].label]
    BY <2>1, <2>2 DEF Labels, Labelled, IInv, Copying
  <2>4. Left = {}
    BY DEF Left
  <2> QED
    BY <2>1, <2>3, <2>4 DEF Labels, Merged, Configured
<1> QED
  BY <1>1, Invariance, InitLabelling, StepLabelling, PTL DEF Spec
=============================================================================
