-------------------------- MODULE PipelineCompiler --------------------------
(***************************************************************************)
(* The SDK's compiler: what a pipeline function writes down (tasks inside   *)
(* dsl.ParallelFor, If, Elif, Else and ExitHandler blocks, reading each     *)
(* other's outputs) and the specification that create_pipeline_spec makes   *)
(* of it. Every block becomes a dag of its own, which sees only its own     *)
(* inputs: the compiler "punches a hole" through the blocks for each value  *)
(* that is read from outside. Values are found again by their name, and the *)
(* name of a loop's item is the name of the list with "-loop-item".         *)
(*                                                                         *)
(* The author's steps are the actions; compiling is a function of what was  *)
(* written. A channel is where it comes from (src: a parameter, a task's    *)
(* output, or the constant list of a loop), which one (of), and how many    *)
(* "-loop-item" its name ends with (depth). Types, keys of items (item.a)   *)
(* and dsl.OneOf are left out.                                              *)
(***************************************************************************)
EXTENDS Integers, Sequences, FiniteSets

CONSTANTS
  Param,        \* the parameters of the pipeline
  MaxTasks,     \* bound: how many tasks are written
  MaxParts      \* bound: how many blocks are written and calls of after() made

ASSUME BoundAssumption == MaxTasks \in Nat /\ MaxParts \in Nat

VARIABLES
  nodes,    \* the tasks and groups, in the order of their creation; 1 is the pipeline itself
  groups,   \* Pipeline.groups: the stack of open groups
  open,     \* history: the blocks the author is in, innermost last
  phase     \* "writing", "compiled" or "rejected"

vars == <<nodes, groups, open, phase>>

Node == DOMAIN nodes
Kind(n) == nodes[n].kind
Condition == {"if", "elif", "else"}
Block == Condition \cup {"loop", "exit"}
Top == groups[Len(groups)]

(* A task's parent is the group it is in; the exit task of a handler is in none. *)
None == 0
New(kind, parent, reads, after) ==
  [kind |-> kind, parent |-> parent, reads |-> reads, after |-> after,
   within |-> {open[i] : i \in 2..Len(open)}]

Init ==
  /\ nodes = <<[kind |-> "pipeline", parent |-> None, reads |-> {}, after |-> {}, within |-> {}]>>
  /\ groups = <<1>> /\ open = <<1>> /\ phase = "writing"

-----------------------------------------------------------------------------
(* Channels, and how they are read: as they are, inside a text, or collected from a loop.  *)

Channel(src, of) == [src |-> src, of |-> of, depth |-> 0, fan |-> None]

(* loop_argument: the item of a loop over a constant list, or over a channel. *)
Item(n) ==
  IF nodes[n].reads = {} THEN Channel("raw", n)
  ELSE LET items == CHOOSE r \in nodes[n].reads : TRUE IN [items.ch EXCEPT !.depth = @ + 1]

(* c.full_name in d.full_name. The names of two parameters, outputs or constant lists do   *)
(* not contain each other here (loop-item-param-1 is in loop-item-param-10); where they do,  *)
(* the effect is that of one list read twice.                                              *)
Within(c, d) == c.src = d.src /\ c.of = d.of /\ c.depth <= d.depth

Read(ch, how, loop) == [ch |-> ch, how |-> how, loop |-> loop]

(* What the author can name: the parameters, the outputs of the tasks so far, the items    *)
(* of the loops around. Only an item is read differently inside a text.                    *)
Written == {n \in Node : Kind(n) = "task"}
LoopsOpen == {n \in {open[i] : i \in DOMAIN open} : Kind(n) = "loop"}
Values ==
  {Read(Channel("param", p), "value", None) : p \in Param}
    \cup {Read(Channel("task", t), "value", None) : t \in Written}
    \cup {Read(Item(n), "value", n) : n \in LoopsOpen}
Texts == {Read(Item(n), "text", n) : n \in LoopsOpen}
Collected == {Read(Channel("task", t), "collected", None) : t \in Written}

AfterTargets == {n \in Node : Kind(n) \in {"task", "exit"}}
Afters == {d \in Written \X AfterTargets : d[2] \in nodes[d[1]].after}

-----------------------------------------------------------------------------
(* The author's steps. *)

CanAddTask == phase = "writing" /\ Cardinality(Written) < MaxTasks
CanAddPart ==
  phase = "writing" /\ Cardinality({n \in Node : Kind(n) \in Block}) + Cardinality(Afters) < MaxParts

(* A component is called. *)
add_task ==
  /\ CanAddTask
  /\ \/ nodes' = Append(nodes, New("task", Top, {}, {}))
     \/ \E r \in Values \cup Texts \cup Collected :
          nodes' = Append(nodes, New("task", Top, {r}, {}))
  /\ UNCHANGED <<groups, open, phase>>

(* PipelineTask.after, of any task and at any time, with any task or exit handler that     *)
(* exists by then: one that was written later, too, or the task itself.                    *)
after ==
  /\ CanAddPart
  /\ \E t \in Written, u \in AfterTargets :
       nodes' = [nodes EXCEPT ![t].after = @ \cup {u}]
  /\ UNCHANGED <<groups, open, phase>>

Entered(n) == groups' = Append(groups, n) /\ open' = Append(open, n)

ParallelFor ==
  /\ CanAddPart
  /\ \E rs \in {{}} \cup {{r} : r \in Values} : nodes' = Append(nodes, New("loop", Top, rs, {}))
  /\ Entered(Len(nodes) + 1)
  /\ UNCHANGED phase

If ==
  /\ CanAddPart
  /\ \E r \in Values : nodes' = Append(nodes, New("if", Top, {r}, {}))
  /\ Entered(Len(nodes) + 1)
  /\ UNCHANGED phase

(* get_last_tasks_group: the last group in the innermost open one. *)
GroupsIn(g) == {n \in Node : nodes[n].parent = g /\ Kind(n) # "task"}
LastGroup == IF GroupsIn(Top) = {} THEN None
             ELSE CHOOSE n \in GroupsIn(Top) : \A m \in GroupsIn(Top) : m <= n

(* maybe_make_and_insert_conditional_branches_group: the If moves into a group of its own, *)
(* which stays on the stack for the branches to come. A branch reads what the branches     *)
(* before it read.                                                                         *)
Branch(kind, rs) ==
  /\ CanAddPart
  /\ LastGroup # None /\ Kind(LastGroup) \in {"if", "elif"}
  /\ LET reads == nodes[LastGroup].reads \cup rs
         wrapper == Len(nodes) + 1
     IN IF Kind(LastGroup) = "elif"
        THEN /\ nodes' = Append(nodes, New(kind, Top, reads, {}))
             /\ groups' = Append(groups, wrapper)
             /\ open' = Append(open, wrapper)
        ELSE /\ nodes' = [nodes EXCEPT ![LastGroup].parent = wrapper]
                           \o <<New("branches", Top, {}, {}), New(kind, wrapper, reads, {})>>
             /\ groups' = groups \o <<wrapper, wrapper + 1>>
             /\ open' = Append(open, wrapper + 1)
  /\ UNCHANGED phase

Elif == \E r \in Values : Branch("elif", {r})
Else == Branch("else", {})

(* The exit task (of one handler only, here) leaves the groups. It may not depend on a     *)
(* task by after or by an input that is an output; an output inside a text, or collected,  *)
(* is only found by the compiler.                                                          *)
ExitHandler ==
  /\ CanAddPart
  /\ \E t \in Node :
       /\ Kind(t) = "task" /\ nodes[t].parent # None
       /\ nodes[t].after = {} /\ \A r \in nodes[t].reads : r.how = "value" => r.ch.src # "task"
       /\ nodes' = Append([nodes EXCEPT ![t].parent = None], New("exit", Top, {}, {t}))
  /\ Entered(Len(nodes) + 1)
  /\ UNCHANGED phase

(* Mutant of Exit: Else leaves the group of the branches open. *)
ExitPopsOnce ==
  /\ phase = "writing" /\ Len(open) > 1
  /\ groups' = SubSeq(groups, 1, Len(groups) - 1)
  /\ open' = SubSeq(open, 1, Len(open) - 1)
  /\ UNCHANGED <<nodes, phase>>

(* The end of a with block; Else also closes the group of the branches. *)
Exit ==
  /\ phase = "writing" /\ Len(open) > 1
  /\ groups' = SubSeq(groups, 1, Len(groups) - IF Kind(open[Len(open)]) = "else" THEN 2 ELSE 1)
  /\ open' = SubSeq(open, 1, Len(open) - 1)
  /\ UNCHANGED <<nodes, phase>>

-----------------------------------------------------------------------------
(* Where a node is: get_parent_groups, _get_uncommon_ancestors. *)

Path[n \in Node] == IF nodes[n].parent = None THEN <<n>> ELSE Append(Path[nodes[n].parent], n)

(* The tasks and groups that are still in the pipeline's tree. *)
InTree == {n \in Node : n = 1 \/ nodes[n].parent # None}
Tasks == {n \in InTree : Kind(n) = "task"}
Groups == InTree \ Tasks
Children(g) == {n \in InTree : nodes[n].parent = g}

(* n's ancestors, and n, that are not ancestors of m, or m; the outermost first. *)
Uncommon(n, m) ==
  LET p == Path[n]
      q == Path[m]
      k == Cardinality({i \in DOMAIN p : i \in DOMAIN q /\ p[i] = q[i]})
  IN SubSeq(p, k + 1, Len(p))

(* The node whose output the channel is: a task, or the loop that collects it. *)
Producer(c) == IF c.src # "task" THEN None ELSE IF c.fan # None THEN c.fan ELSE c.of

(* Mutant of ConditionReads: the outer conditions are forgotten. *)
ConditionReadsInnermost(t) ==
  IF Kind(nodes[t].parent) \in Condition THEN nodes[nodes[t].parent].reads ELSE {}

(* get_condition_channels_for_tasks: what the conditions around a task read. *)
ConditionReads(t) ==
  LET p == Path[t] IN UNION {nodes[p[i]].reads : i \in {j \in DOMAIN p : Kind(p[j]) \in Condition}}

(* The read of a collected output, once get_outputs_for_all_groups has made it the output  *)
(* of the outermost loop between the two tasks.                                            *)
Surfaced(t, r) ==
  IF r.how # "collected" THEN r ELSE [r EXCEPT !.ch.fan = Uncommon(r.ch.of, t)[1]]
Reads(t) == {Surfaced(t, r) : r \in nodes[t].reads}

-----------------------------------------------------------------------------
(* get_inputs_for_all_groups: the inputs each group needs for the tasks below it.          *)

(* A read that is a loop argument object; inside a text it is an ordinary channel.         *)
IsLoopArgument(r) == r.how = "value" /\ (r.ch.depth > 0 \/ r.ch.src = "raw")
IsRaw(r) == IsLoopArgument(r) /\ r.ch.src = "raw" /\ r.ch.depth = 0

(* channels_to_add: the channel, what it is an item of, and so on.                         *)
Chain(r) ==
  IF ~IsLoopArgument(r) THEN <<r>>
  ELSE [i \in 1..(r.ch.depth + 1) |-> [r EXCEPT !.ch.depth = @ + 1 - i]]

(* How much of the chain is left when the walk from the outermost of names comes to the    *)
(* i-th: the last one is dropped by the loop whose item it is, or is part of.              *)
Left(names, chain) ==
  LET left[i \in DOMAIN names] ==
        IF i = 1 THEN Len(chain)
        ELSE LET l == left[i - 1]
             IN IF l > 0 /\ Kind(names[i - 1]) = "loop" /\ Within(chain[l].ch, Item(names[i - 1]))
                THEN l - 1 ELSE l
  IN left

TopDown(names, chain) ==
  LET left == Left(names, chain)
  IN {<<names[i], chain[left[i]]>> : i \in {j \in DOMAIN names : left[j] > 0}}

(* The item of a constant list is needed by the groups up to its loop.                     *)
BottomUp(names, r) ==
  {<<names[i], r>> : i \in {j \in DOMAIN names :
     \A k \in DOMAIN names : k > j => ~(Kind(names[k]) = "loop" /\ Within(r.ch, Item(names[k])))}}

Needs(t, r) ==
  IF Producer(r.ch) # None THEN TopDown(Uncommon(t, Producer(r.ch)), Chain(r))
  ELSE IF IsRaw(r) THEN BottomUp(Path[t], r)
  ELSE TopDown(Path[t], Chain(r))

Inputs(g) ==
  LET needs == UNION {UNION {Needs(t, r) : r \in Reads(t) \cup ConditionReads(t)} : t \in Tasks}
  IN {need[2] : need \in {x \in needs : x[1] = g}}

-----------------------------------------------------------------------------
(* build_spec_by_group: the inputs a group's component has, and where they come from.      *)

(* A loop does not pass on the item of a constant list from a loop further in.             *)
FromOutside(g, r) ==
  IsRaw(r) => \E i \in DOMAIN Path[g] : Kind(Path[g][i]) = "loop" /\ Within(r.ch, Item(Path[g][i]))

Passed(g) ==
  {r.ch : r \in {x \in Inputs(g) : Kind(g) = "loop" => FromOutside(g, x)} \cup nodes[g].reads}
    \cup (IF Kind(g) = "loop" THEN {Item(g)} ELSE {})

Nothing == <<"nothing", None>>
OutputOf(c) ==
  IF c.depth > 0 THEN Nothing ELSE <<IF c.fan # None THEN "collected" ELSE "output", c.of>>
ParameterOf(c) == IF c.src = "param" /\ c.depth = 0 THEN <<"parameter", c.of>> ELSE Nothing

(* build_task_spec_for_group, _update_task_spec_for_loop_group: the input c of group g is  *)
(* the loop's item, the output of a sibling, or the input of that name of the group        *)
(* around it. Where the way up ends:                                                       *)
EndsAt(g, c) ==
  \/ Kind(g) = "loop" /\ c = Item(g)
  \/ Producer(c) \in Children(nodes[g].parent)
  \/ nodes[g].parent = 1
  \/ c \notin Passed(nodes[g].parent)

(* Mutant of InputOf: the loop's item is wired like any other input. *)
InputOfNoItem(g, c) ==
  LET ends == {i \in 2..Len(Path[g]) : EndsAt(Path[g][i], c)}
      at == Path[g][CHOOSE i \in ends : \A j \in ends : j <= i]
  IN IF Producer(c) \in Children(nodes[at].parent) THEN OutputOf(c)
     ELSE IF nodes[at].parent = 1 THEN ParameterOf(c)
     ELSE Nothing

InputOf(g, c) ==
  LET ends == {i \in 2..Len(Path[g]) : EndsAt(Path[g][i], c)}
      at == Path[g][CHOOSE i \in ends : \A j \in ends : j <= i]
  IN IF Kind(at) = "loop" /\ c = Item(at) THEN <<"item", at>>
     ELSE IF Producer(c) \in Children(nodes[at].parent) THEN OutputOf(c)
     ELSE IF nodes[at].parent = 1 THEN ParameterOf(c)
     ELSE Nothing

(* build_task_spec_for_task *)
Sibling(p, r) == ~IsLoopArgument(r) /\ Producer(r.ch) \in Children(p)
Missing(p, r) == p = 1 \/ r.ch \notin Passed(p)

ReadIn(p, r) ==
  IF Sibling(p, r) THEN OutputOf(r.ch)
  ELSE IF p = 1 THEN ParameterOf(r.ch)
  ELSE IF r.ch \in Passed(p) THEN InputOf(p, r.ch)
  ELSE Nothing

AssertionFails(p, r) ==
  /\ IsLoopArgument(r) \/ (Producer(r.ch) # None /\ ~Sibling(p, r))
  /\ Missing(p, r)

-----------------------------------------------------------------------------
(* get_dependencies, and the Argo compiler's addImplicitDependencies. *)

Arguments(n) == IF Kind(n) = "task" THEN {r.ch : r \in Reads(n)} ELSE Passed(n)

(* Mutant of Upstream: after is forgotten. *)
UpstreamByInput(t) == {Producer(r.ch) : r \in Reads(t) \cup ConditionReads(t)} \ {None}

Upstream(t) ==
  ({Producer(r.ch) : r \in Reads(t) \cup ConditionReads(t)} \ {None}) \cup nodes[t].after

DependencyIllegal(t, u) ==
  LET up == Uncommon(u, t) IN
  \/ up = <<>>
  \/ /\ Len(up) > 1
     /\ \/ Kind(up[1]) \in Condition \cup {"exit"}
        \/ Kind(up[1]) = "loop" /\ \E r \in Reads(t) : Producer(r.ch) = u

(* Mutant of dependencies: the wrong one of the two waits. *)
dependenciesBackwards ==
  {<<Uncommon(d[2], d[1])[1], Uncommon(d[1], d[2])[1]>> : d \in UNION {{t} \X Upstream(t) : t \in Tasks}}

dependencies ==
  {<<Uncommon(d[1], d[2])[1], Uncommon(d[2], d[1])[1]>> : d \in UNION {{t} \X Upstream(t) : t \in Tasks}}

addImplicitDependencies ==
  UNION {{n} \X (Children(nodes[n].parent) \cap {Producer(c) : c \in Arguments(n)}) : n \in InTree \ {1}}

(* Pairs of siblings: the first starts when the second has ended.                          *)
WaitsFor == dependencies \cup addImplicitDependencies

(* validate_parallel_for_fan_in_consumption_legal; and a group of branches surfaces        *)
(* nothing but a dsl.OneOf.                                                                *)
CollectedIllegal(t, r) ==
  LET up == Uncommon(r.ch.of, t) IN
  r.how = "collected" /\ (Len(up) < 2 \/ Kind(up[1]) # "loop" \/ \E i \in DOMAIN up : Kind(up[i]) = "branches")

ExitTasks == UNION {nodes[g].after : g \in {n \in InTree : Kind(n) = "exit"}}

Known(t) ==
  /\ \A r \in nodes[t].reads \cup ConditionReads(t) : r.ch.src = "task" => r.ch.of \in InTree
  /\ nodes[t].after \subseteq InTree

Rejected ==
  \/ Written = {}
  \/ \E t \in Tasks :
       \/ ~Known(t)
       \/ \E r \in nodes[t].reads : CollectedIllegal(t, r)
       \/ \E u \in Upstream(t) : DependencyIllegal(t, u)
       \/ \E r \in Reads(t) : AssertionFails(nodes[t].parent, r)
  \/ \E g \in Groups : Kind(g) = "exit" /\ nodes[g].parent # 1
  \/ \E t \in ExitTasks :
       \/ nodes[t].after # {}
       \/ \E r \in nodes[t].reads : r.ch.src = "task" \/ AssertionFails(1, r)

create_pipeline_spec ==
  /\ phase = "writing" /\ Len(open) = 1
  /\ phase' = IF Rejected THEN "rejected" ELSE "compiled"
  /\ UNCHANGED <<nodes, groups, open>>

Next ==
  add_task \/ after \/ ParallelFor \/ If \/ Elif \/ Else \/ ExitHandler \/ Exit \/ create_pipeline_spec

Spec == Init /\ [][Next]_vars

-----------------------------------------------------------------------------

Compiled == phase = "compiled"
Above(n) == LET p == Path[n] IN {p[i] : i \in 1..(Len(p) - 1)}
Blocks(n) == {g \in Above(n) : Kind(g) \in Block}
Loops(n) == {g \in Above(n) : Kind(g) = "loop"}

(* Every chain of branches has an Else: without one its group stays open (Elif has no      *)
(* __exit__ of its own), and the loop around it is left in its place.                      *)
Ended == \A w \in Groups : Kind(w) = "branches" => \E n \in Children(w) : Kind(n) = "else"

(* Where the value comes into being: directly in the loop, beside the task, or in the      *)
(* pipeline itself.                                                                        *)
Home(r) == IF r.loop # None THEN r.loop
           ELSE IF Producer(r.ch) # None THEN nodes[Producer(r.ch)].parent
           ELSE 1
AtHome(n, r) == nodes[n].parent = Home(r)

(* n reads the output of a task in a group that n is not in, uncollected.                  *)
Apart(n, r) ==
  r.loop = None /\ r.ch.src = "task" /\ r.how # "collected" /\ Len(Uncommon(r.ch.of, n)) > 1

(* The blocks around n pass the value on. No loop but the one whose item it is has an item *)
(* whose name contains its name, unless n is directly in that loop, and the loop where the *)
(* value is at home; and of the loops that lead to the item no two have the same one. An   *)
(* item inside a text, and one that two loops take out of a constant list, are not passed  *)
(* on.                                                                                     *)
Clear(n, r) ==
  \/ AtHome(n, r)
  \/ /\ r.how # "text" /\ (r.ch.src = "raw" => r.ch.depth = 0)
     /\ \A l \in Loops(n) \ {r.loop} :
          Within(r.ch, Item(l)) => l = nodes[n].parent /\ r.ch # Item(l) /\ AtHome(l, r)
     /\ \A l, m \in Loops(n) : Item(l) = Item(m) /\ Within(Item(l), r.ch) => l = m

(* A task in block g needs what g reads: any task of a condition, and one that reads the   *)
(* item of a loop.                                                                         *)
Needed(g) ==
  \E t \in Tasks :
    /\ g \in Above(t)
    /\ Kind(g) = "loop" => \E r \in Reads(t) : r.loop = g /\ r.how = "value"

(* What a task of the compiled pipeline is given is what the author passed to it: the item *)
(* of that loop, that parameter, the output of that task, or the list of its outputs,      *)
(* through all the dags in between (get_inputs_for_all_groups, build_spec_by_group).       *)
Meant(r) ==
  IF r.loop # None THEN <<"item", r.loop>>
  ELSE IF r.ch.src = "param" THEN <<"parameter", r.ch.of>>
  ELSE <<IF r.how = "collected" THEN "collected" ELSE "output", r.ch.of>>
TasksReadWhatWasWritten ==
  Compiled =>
    \A t \in Tasks : \A r \in Reads(t) :
      Clear(t, r) /\ ~Apart(t, r) => ReadIn(nodes[t].parent, r) = Meant(r)

(* The condition of a branch and the list of a loop come from what the author named. In a  *)
(* block further in, only if a task of the block needs it; and not the item of a constant  *)
(* list if a loop goes over it, here or in the block (get_inputs_for_all_groups,           *)
(* build_task_spec_for_group).                                                             *)
BlocksReadWhatWasWritten ==
  Compiled =>
    \A g \in Groups : \A r \in nodes[g].reads :
      /\ Clear(g, r) /\ ~Apart(g, r)
      /\ \/ AtHome(g, r)
         \/ r.ch.src # "raw" /\ Needed(g)
         \/ Kind(g) # "loop" /\ \E t \in Tasks : g \in Above(t) /\ Clear(t, r)
      => InputOf(g, r.ch) = Meant(r)

(* A task or block is in the dags of exactly those blocks the author wrote it in, when     *)
(* every chain of branches ends in an Else (push_tasks_group, pop_tasks_group,             *)
(* maybe_make_and_insert_conditional_branches_group).                                      *)
TasksRunWhereWritten ==
  Compiled /\ Ended =>
    \A n \in InTree : Kind(n) # "branches" => Blocks(n) = nodes[n].within

(* A task that reads an output, or was written after a task, starts when that task has     *)
(* ended, and so does a block whose condition or list is an output: one of the groups      *)
(* around it waits for one around the producer (get_dependencies, addImplicitDependencies).*)
StartsAfter(n, u, waits) ==
  LET p == Path[n]  q == Path[u] IN \E i \in DOMAIN p, j \in DOMAIN q : <<p[i], q[j]>> \in waits
ReadersWait ==
  Compiled =>
    LET waits == WaitsFor IN
    \A n \in InTree :
      /\ \A r \in nodes[n].reads :
           /\ r.ch.src = "task"
           /\ \/ Kind(n) = "task" \/ Needed(n)
              \/ nodes[n].parent = nodes[r.ch.of].parent
           => StartsAfter(n, r.ch.of, waits)
      /\ Kind(n) = "task" => \A u \in nodes[n].after : StartsAfter(n, u, waits)

(* No after() names a task or handler that was written later.                              *)
AftersGoBack == \A t \in Tasks : \A u \in nodes[t].after : u < t

(* The tasks of a dag never wait for each other in a circle as long as every after() goes  *)
(* back and no task waits for one inside a branch of an If with Elif or Else. The compiler *)
(* looks for no circle: where one of the two is not so it accepts it (get_dependencies).   *)
NoneWaitsForABranch ==
  \A t \in Tasks : \A u \in Upstream(t) :
    \A i \in DOMAIN Uncommon(u, t) : Kind(Uncommon(u, t)[i]) # "branches"
DagsAreAcyclic ==
  Compiled /\ AftersGoBack /\ NoneWaitsForABranch =>
    LET waits == WaitsFor IN
    \A S \in (SUBSET {d[1] : d \in waits}) \ {{}} : \E n \in S : \A m \in S : <<n, m>> \notin waits
=============================================================================
