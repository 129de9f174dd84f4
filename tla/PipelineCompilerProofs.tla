----------------------- MODULE PipelineCompilerProofs -----------------------
(***************************************************************************)
(* Where the compiler puts what the author writes and what it makes wait,   *)
(* for any number of tasks and blocks, however deep they are nested.        *)
(*                                                                         *)
(* The invariant relates the compiler's stack of groups to the blocks the   *)
(* author is in. A group of branches that left the stack without an Else    *)
(* spoils the stack for good (Doomed); until then the stack is the author's *)
(* blocks with groups of branches in between (SameBlocks), and what a node  *)
(* is within follows from its parent (Local).                               *)
(*                                                                         *)
(* What waits for what follows from the order of writing (Earlier): nodes   *)
(* read from earlier ones, so no reader is around what it reads, and their   *)
(* paths part at or above the reader. What is in one block is older than    *)
(* what is in a later sibling (Nested), so nobody waits in a circle.        *)
(*                                                                         *)
(* What is read follows from the loops around the reader: a channel is      *)
(* passed on from its home by every group on the way, unless a loop there   *)
(* takes it out of the chain of items (Clear).                              *)
(***************************************************************************)
EXTENDS PipelineCompiler, FiniteSetTheorems, WellFoundedInduction, TLAPS

Kinds == {"pipeline", "task", "branches"} \cup Block
ChannelType == [src : {"param", "task", "raw"}, of : Param \cup Nat, depth : Nat, fan : Nat]
ReadType == [ch : ChannelType, how : {"value", "text", "collected"}, loop : Nat]
NodeType == [kind : Kinds, parent : Nat, reads : SUBSET ReadType, after : SUBSET Nat, within : SUBSET Nat]

(* The blocks on the author's stack os.                                     *)
Opened(os) == {os[i] : i \in 2..Len(os)}

IsElseOf(ns, c, v) == c \in DOMAIN ns /\ ns[c].kind = "else" /\ ns[c].parent = v
IsOn(stack, n) == \E i \in DOMAIN stack : stack[i] = n

(* The tree of tasks and groups: branches are in groups of branches, and    *)
(* the Else is the last of them.                                            *)
Tree(ns) ==
  /\ ns \in Seq(NodeType) /\ 1 \in DOMAIN ns
  /\ ns[1].kind = "pipeline" /\ ns[1].parent = None /\ ns[1].within = {}
  /\ \A n \in DOMAIN ns :
       /\ ns[n].parent \in {None} \cup DOMAIN ns
       /\ n # 1 => ns[n].kind # "pipeline" /\ (ns[n].kind # "task" => ns[n].parent # None)
       /\ ns[n].parent # None => ns[ns[n].parent].kind # "task"
       /\ ns[n].kind \in {"elif", "else"} => ns[ns[n].parent].kind = "branches"
  /\ \A c, n \in DOMAIN ns :
       ns[c].kind = "else" /\ ns[n].kind \in {"elif", "else"} /\ ns[n].parent = ns[c].parent => n <= c

(* Parents come before their children in some order, although a group of    *)
(* branches is made after its first branch.                                 *)
Ranks(ns, b, rank) ==
  rank \in [DOMAIN ns -> 0..b] /\ \A n \in DOMAIN ns : ns[n].parent # None => rank[ns[n].parent] < rank[n]
Ranked(ns) == \E b \in Nat : \E rank : Ranks(ns, b, rank)

Stacks(ns, gs, os) ==
  /\ gs \in Seq(DOMAIN ns) /\ os \in Seq(DOMAIN ns)
  /\ Len(os) >= 1 /\ os[1] = 1
  /\ \A i \in DOMAIN os : i # 1 => ns[os[i]].kind \in Block
  /\ \A i \in DOMAIN gs : ns[gs[i]].kind # "task"
  /\ \A i, j \in DOMAIN os : os[i] = os[j] => i = j
  /\ \A i, j \in DOMAIN gs : gs[i] = gs[j] => i = j

(* The compiler's stack does not run empty: it is as long as the author's   *)
(* and the groups of branches together whose Else has not been left.        *)
Unended(ns, os) ==
  {v \in DOMAIN ns : ns[v].kind = "branches" /\ \A c \in DOMAIN ns : IsElseOf(ns, c, v) => IsOn(os, c)}
Deep(ns, gs, os) == Len(gs) >= Len(os) + Cardinality(Unended(ns, os))

Doomed(ns, gs) ==
  \E v \in DOMAIN ns : ns[v].kind = "branches" /\ ~IsOn(gs, v) /\ \A c \in DOMAIN ns : ~IsElseOf(ns, c, v)

Inside(ns, n) == ns[n].within \cup (IF ns[n].kind \in Block THEN {n} ELSE {})
Local(ns) == \A n \in DOMAIN ns : ns[n].parent # None => ns[n].within = Inside(ns, ns[n].parent)

(* The compiler's stack is a path in the tree.                              *)
Climbs(ns, gs) ==
  /\ Len(gs) >= 1 /\ gs[1] = 1
  /\ \A i \in DOMAIN gs : i # 1 => ns[gs[i]].parent = gs[i - 1]
  /\ \A i \in DOMAIN gs : Inside(ns, gs[i]) = {gs[j] : j \in {k \in 1..i : ns[gs[k]].kind \in Block}}

(* An Else is on it directly above its group of branches.                   *)
ElseOnTop(ns, gs) ==
  /\ \A i \in DOMAIN gs : ns[gs[i]].kind = "else" => i # 1 /\ ns[gs[i - 1]].kind = "branches"
  /\ \A i \in DOMAIN gs : \A c \in DOMAIN ns : IsElseOf(ns, c, gs[i]) =>
       i < Len(gs) /\ ns[gs[i + 1]].kind = "else"

(* Apart from groups of branches the stacks are the same.                   *)
SameBlocks(ns, gs, os) ==
  /\ \A n \in DOMAIN ns : IsOn(os, n) <=> IsOn(gs, n) /\ ns[n].kind # "branches"
  /\ \A i, j \in DOMAIN os : \A k, l \in DOMAIN gs :
       i < j /\ gs[k] = os[i] /\ gs[l] = os[j] => k < l

Faithful(ns, gs, os) == Local(ns) /\ Climbs(ns, gs) /\ ElseOnTop(ns, gs) /\ SameBlocks(ns, gs, os)

Sound(ns, gs, os) ==
  /\ Tree(ns) /\ Ranked(ns) /\ Stacks(ns, gs, os) /\ Deep(ns, gs, os)
  /\ Doomed(ns, gs) \/ Faithful(ns, gs, os)

IInv == Sound(nodes, groups, open)
-----------------------------------------------------------------------------
(* What the author's steps do to the nodes.                                 *)

(* A node of kind k in the group top; an exit task may leave the tree.      *)
Adds(ns, ms, top, os, k) ==
  /\ ms \in Seq(NodeType) /\ DOMAIN ms = 1..Len(ns) + 1
  /\ \A n \in DOMAIN ns :
       /\ ms[n].kind = ns[n].kind /\ ms[n].within = ns[n].within
       /\ ms[n].parent = ns[n].parent \/ (ns[n].kind = "task" /\ ms[n].parent = None)
  /\ ms[Len(ns) + 1].kind = k /\ ms[Len(ns) + 1].parent = top /\ ms[Len(ns) + 1].within = Opened(os)

(* A group of branches around the If at l, and a branch of kind k in it.    *)
Wraps(ns, ms, top, os, l, k) ==
  /\ ms \in Seq(NodeType) /\ DOMAIN ms = 1..Len(ns) + 2
  /\ l \in DOMAIN ns /\ ns[l].kind = "if" /\ ns[l].parent = top
  /\ \A n \in DOMAIN ns : /\ ms[n].kind = ns[n].kind /\ ms[n].within = ns[n].within
                          /\ ms[n].parent = IF n = l THEN Len(ns) + 1 ELSE ns[n].parent
  /\ ms[Len(ns) + 1].kind = "branches" /\ ms[Len(ns) + 1].parent = top /\ ms[Len(ns) + 1].within = Opened(os)
  /\ ms[Len(ns) + 2].kind = k /\ ms[Len(ns) + 2].parent = Len(ns) + 1 /\ ms[Len(ns) + 2].within = Opened(os)

(* top may be given the branch k: it is a group of branches without Else.   *)
MayBranch(ns, top, k) ==
  k \in {"elif", "else"} =>
    ns[top].kind = "branches" /\ \A c \in DOMAIN ns : ~IsElseOf(ns, c, top)

-----------------------------------------------------------------------------
(* Typing: what the author can read. *)

LEMMA ItemType ==
  ASSUME nodes \in Seq(NodeType), NEW n \in Node
  PROVE  Item(n) \in ChannelType
<1>1. nodes[n] \in NodeType /\ n \in Nat
  BY DEF Node
<1>2. CASE nodes[n].reads = {}
  BY <1>1, <1>2 DEF Item, Channel, ChannelType, None
<1>3. CASE nodes[n].reads # {}
  <2> DEFINE items == CHOOSE r \in nodes[n].reads : TRUE
  <2>1. items \in nodes[n].reads
    BY <1>3
  <2>2. items.ch \in ChannelType
    BY <1>1, <2>1 DEF NodeType, ReadType
  <2>3. Item(n) = [items.ch EXCEPT !.depth = @ + 1]
    BY <1>3 DEF Item
  <2> HIDE DEF items
  <2> QED BY <2>2, <2>3 DEF ChannelType
<1> QED BY <1>2, <1>3

LEMMA ReadTypes ==
  ASSUME nodes \in Seq(NodeType), open \in Seq(Node)
  PROVE  Values \cup Texts \cup Collected \subseteq ReadType
<1>1. ASSUME NEW t \in Node PROVE Channel("task", t) \in ChannelType
  BY DEF Channel, ChannelType, None, Node
<1>2. ASSUME NEW p \in Param PROVE Channel("param", p) \in ChannelType
  BY DEF Channel, ChannelType, None
<1>3. ASSUME NEW c \in ChannelType, NEW h \in {"value", "text", "collected"}, NEW l \in Nat
      PROVE  Read(c, h, l) \in ReadType
  BY DEF Read, ReadType
<1>4. Written \subseteq Node /\ LoopsOpen \subseteq Node /\ Node \subseteq Nat /\ None \in Nat
  BY DEF Written, LoopsOpen, Node, None
<1> QED BY <1>1, <1>2, <1>3, <1>4, ItemType DEF Values, Texts, Collected

LEMMA Reparented ==
  ASSUME NEW x \in NodeType, NEW p \in Nat
  PROVE  /\ [x EXCEPT !.parent = p] \in NodeType /\ [x EXCEPT !.parent = p].parent = p
         /\ [x EXCEPT !.parent = p].kind = x.kind /\ [x EXCEPT !.parent = p].within = x.within
BY DEF NodeType

LEMMA NewType ==
  ASSUME open \in Seq(Node), nodes \in Seq(NodeType),
         NEW k \in Kinds, NEW p \in Nat, NEW rs \in SUBSET ReadType, NEW af \in SUBSET Nat
  PROVE  /\ New(k, p, rs, af) \in NodeType
         /\ New(k, p, rs, af).kind = k /\ New(k, p, rs, af).parent = p
         /\ New(k, p, rs, af).within = Opened(open)
<1>1. Opened(open) \subseteq Nat
  BY DEF Opened, Node
<1>2. New(k, p, rs, af) = [kind |-> k, parent |-> p, reads |-> rs, after |-> af, within |-> Opened(open)]
  BY DEF New, Opened
<1> QED BY <1>1, <1>2 DEF NodeType

(* The order of the natural numbers, as a relation, and the first of a set. *)
Below == {p \in Nat \X Nat : p[1] < p[2]}

LEMMA LeastOf ==
  ASSUME NEW T, T \subseteq Nat, T # {}
  PROVE  \E x \in T : \A y \in T : x <= y
<1>1. OpToRel(<, Nat) = Below
  BY DEF OpToRel, Below
<1>2. IsWellFoundedOn(Below, Nat)
  BY <1>1, NatLessThanWellFounded
<1>3. PICK x \in T : \A y \in T : ~(<<y, x>> \in Below)
  BY <1>2, WFMin
<1>4. ASSUME NEW y \in T PROVE x <= y
  <2>1. x \in Nat /\ y \in Nat /\ <<y, x>> \in Nat \X Nat
    OBVIOUS
  <2>2. ~(<<y, x>>[1] < <<y, x>>[2])
    BY <1>3, <2>1 DEF Below
  <2> QED BY <2>1, <2>2
<1> QED BY <1>4

LEMMA LargestOf ==
  ASSUME NEW b \in Nat, NEW T, T \subseteq 1..b, T # {}
  PROVE  \E x \in T : \A y \in T : y <= x
<1> DEFINE D == {b - x : x \in T}
<1>1. D \subseteq Nat /\ D # {}
  OBVIOUS
<1>2. PICK d \in D : \A e \in D : d <= e
  BY <1>1, LeastOf
<1>3. PICK x \in T : d = b - x
  OBVIOUS
<1>4. ASSUME NEW y \in T PROVE y <= x
  <2>1. x \in Nat /\ y \in Nat
    OBVIOUS
  <2>2. b - y \in D
    OBVIOUS
  <2>3. b - x <= b - y
    BY <1>2, <1>3, <2>2
  <2> QED BY <2>1, <2>3
<1> QED BY <1>4

-----------------------------------------------------------------------------
(* The steps. *)

LEMMA LastGroupIsLast ==
  ASSUME nodes \in Seq(NodeType), LastGroup # None
  PROVE  LastGroup \in GroupsIn(Top) /\ \A m \in GroupsIn(Top) : m <= LastGroup
<1>1. GroupsIn(Top) # {}
  BY DEF LastGroup
<1>2. GroupsIn(Top) \subseteq 1..Len(nodes) /\ Len(nodes) \in Nat
  BY DEF GroupsIn, Node
<1>3. \E x \in GroupsIn(Top) : \A y \in GroupsIn(Top) : y <= x
  BY <1>1, <1>2, LargestOf
<1>4. LastGroup = CHOOSE n \in GroupsIn(Top) : \A m \in GroupsIn(Top) : m <= n
  BY <1>1 DEF LastGroup
<1> QED BY <1>3, <1>4

LEMMA Appended ==
  ASSUME Tree(nodes), open \in Seq(Node), Top \in Node,
         NEW k \in Kinds, NEW rs \in SUBSET ReadType, NEW af \in SUBSET Nat,
         nodes' = Append(nodes, New(k, Top, rs, af))
  PROVE  Adds(nodes, nodes', Top, open, k)
<1>1. nodes \in Seq(NodeType) /\ Top \in Nat
  BY DEF Tree, Node
<1>2. PICK x \in NodeType : /\ x = New(k, Top, rs, af)
                            /\ x.kind = k /\ x.parent = Top /\ x.within = Opened(open)
  BY <1>1, NewType
<1>3. nodes' = Append(nodes, x)
  BY <1>2
<1>4. /\ nodes' \in Seq(NodeType) /\ DOMAIN nodes' = 1..Len(nodes) + 1
      /\ \A n \in DOMAIN nodes : nodes'[n] = nodes[n]
      /\ nodes'[Len(nodes) + 1] = x
  BY <1>1, <1>3
<1> QED BY <1>2, <1>4 DEF Adds

LEMMA TaskStep ==
  ASSUME Tree(nodes), open \in Seq(Node), Top \in Node, add_task
  PROVE  Adds(nodes, nodes', Top, open, "task") /\ groups' = groups /\ open' = open
<1>1. nodes \in Seq(NodeType)
  BY DEF Tree
<1>2. Values \cup Texts \cup Collected \subseteq ReadType
  BY <1>1, ReadTypes
<1>3. \E rs \in SUBSET ReadType : nodes' = Append(nodes, New("task", Top, rs, {}))
  <2>1. CASE nodes' = Append(nodes, New("task", Top, {}, {}))
    BY <2>1
  <2>2. CASE \E r \in Values \cup Texts \cup Collected : nodes' = Append(nodes, New("task", Top, {r}, {}))
    <3>1. PICK r \in Values \cup Texts \cup Collected : nodes' = Append(nodes, New("task", Top, {r}, {}))
      BY <2>2
    <3>2. {r} \in SUBSET ReadType
      BY <1>2
    <3> QED BY <3>1, <3>2
  <2> QED BY <2>1, <2>2 DEF add_task
<1>4. "task" \in Kinds
  BY DEF Kinds
<1> QED BY <1>3, <1>4, Appended DEF add_task

(* The author enters a block, which becomes a group in the group on top.    *)
Enters(k) ==
  /\ Adds(nodes, nodes', Top, open, k) /\ MayBranch(nodes, Top, k) /\ k \in Block
  /\ groups' = Append(groups, Len(nodes) + 1) /\ open' = Append(open, Len(nodes) + 1)

LEMMA BlockStep ==
  ASSUME Tree(nodes), open \in Seq(Node), Top \in Node, ParallelFor \/ If \/ ExitHandler
  PROVE  \E k \in Block : Enters(k)
<1>1. nodes \in Seq(NodeType)
  BY DEF Tree
<1>2. Values \subseteq ReadType
  BY <1>1, ReadTypes
<1>3. "loop" \in Block /\ "if" \in Block /\ "exit" \in Block /\ Block \subseteq Kinds
  BY DEF Block, Condition, Kinds
<1>4. CASE ParallelFor
  <2>1. PICK rs \in SUBSET ReadType : nodes' = Append(nodes, New("loop", Top, rs, {}))
    BY <1>2, <1>4 DEF ParallelFor
  <2>2. Adds(nodes, nodes', Top, open, "loop")
    BY <1>3, <2>1, Appended
  <2> QED BY <1>3, <1>4, <2>2 DEF ParallelFor, Entered, Enters, MayBranch
<1>5. CASE If
  <2>1. PICK rs \in SUBSET ReadType : nodes' = Append(nodes, New("if", Top, rs, {}))
    BY <1>2, <1>5 DEF If
  <2>2. Adds(nodes, nodes', Top, open, "if")
    BY <1>3, <2>1, Appended
  <2> QED BY <1>3, <1>5, <2>2 DEF If, Entered, Enters, MayBranch
<1>6. CASE ExitHandler
  <2>1. PICK t \in Node :
          /\ Kind(t) = "task"
          /\ nodes' = Append([nodes EXCEPT ![t].parent = None], New("exit", Top, {}, {t}))
    BY <1>6 DEF ExitHandler
  <2>2. Top \in Nat /\ {t} \in SUBSET Nat
    BY <1>1 DEF Node
  <2>3. PICK x \in NodeType : /\ x = New("exit", Top, {}, {t})
                              /\ x.kind = "exit" /\ x.parent = Top /\ x.within = Opened(open)
    BY <1>1, <1>3, <2>2, NewType
  <2> DEFINE ms == [nodes EXCEPT ![t].parent = None]
  <2>4. /\ ms \in Seq(NodeType) /\ Len(ms) = Len(nodes) /\ DOMAIN ms = DOMAIN nodes
        /\ \A n \in DOMAIN nodes : ms[n] = IF n = t THEN [nodes[t] EXCEPT !.parent = None] ELSE nodes[n]
    <3>1. nodes[t] \in NodeType /\ [nodes[t] EXCEPT !.parent = None] \in NodeType
      <4>1. nodes[t] \in NodeType /\ None \in Nat
        BY <1>1 DEF Node, None
      <4> QED BY <4>1, Reparented
    <3> QED BY <1>1, <3>1 DEF Node
  <2>5. nodes' = Append(ms, x)
    BY <2>1, <2>3
  <2> HIDE DEF ms
  <2>6. /\ nodes' \in Seq(NodeType) /\ DOMAIN nodes' = 1..Len(nodes) + 1
        /\ \A n \in DOMAIN nodes : nodes'[n] = ms[n]
        /\ nodes'[Len(nodes) + 1] = x
    BY <1>1, <2>4, <2>5
  <2>7. ASSUME NEW n \in DOMAIN nodes
        PROVE  /\ ms[n].kind = nodes[n].kind /\ ms[n].within = nodes[n].within
               /\ ms[n].parent = nodes[n].parent \/ (nodes[n].kind = "task" /\ ms[n].parent = None)
    <3>1. nodes[n] \in NodeType
      BY <1>1
    <3>2. None \in Nat
      BY DEF None
    <3>3. CASE n = t
      <4>1. ms[n] = [nodes[n] EXCEPT !.parent = None]
        BY <2>4, <3>3
      <4>2. ms[n].kind = nodes[n].kind /\ ms[n].within = nodes[n].within /\ ms[n].parent = None
        BY <3>1, <3>2, <4>1, Reparented
      <4> QED BY <2>1, <3>3, <4>2 DEF Kind
    <3>4. CASE n # t
      BY <2>4, <3>4
    <3> QED BY <3>3, <3>4
  <2>8. Adds(nodes, nodes', Top, open, "exit")
    BY <2>3, <2>6, <2>7 DEF Adds
  <2> QED BY <1>3, <1>6, <2>8 DEF ExitHandler, Entered, Enters, MayBranch
<1> QED BY <1>4, <1>5, <1>6

(* An Elif or Else after an If: the two share a new group of branches.      *)
WrapsIf(l, k) ==
  /\ Wraps(nodes, nodes', Top, open, l, k) /\ k \in {"elif", "else"}
  /\ groups' = groups \o <<Len(nodes) + 1, Len(nodes) + 2>> /\ open' = Append(open, Len(nodes) + 2)

LEMMA BranchStep ==
  ASSUME Tree(nodes), open \in Seq(Node), Top \in Node, NEW k \in {"elif", "else"},
         NEW rs \in SUBSET ReadType, Branch(k, rs)
  PROVE  Enters(k) \/ WrapsIf(LastGroup, k)
<1> DEFINE l == LastGroup
           reads == nodes[l].reads \cup rs
<1>1. nodes \in Seq(NodeType) /\ k \in Kinds /\ k \in Block
  BY DEF Tree, Kinds, Block, Condition
<1>2. l \in GroupsIn(Top) /\ (\A m \in GroupsIn(Top) : m <= l) /\ Kind(l) \in {"if", "elif"}
  BY <1>1, LastGroupIsLast DEF Branch
<1>3. l \in Node /\ nodes[l].parent = Top /\ nodes[l] \in NodeType /\ l \in Nat
  BY <1>1, <1>2 DEF GroupsIn, Node
<1>4. reads \in SUBSET ReadType
  BY <1>3 DEF NodeType
<1>r. {} \in SUBSET Nat
  OBVIOUS
<1>b. Branch(k, rs) /\ l = LastGroup /\ reads = nodes[LastGroup].reads \cup rs
  OBVIOUS
<1> HIDE DEF l, reads
<1>5. CASE Kind(l) = "elif"
  <2>1. /\ nodes' = Append(nodes, New(k, Top, reads, {}))
        /\ groups' = Append(groups, Len(nodes) + 1) /\ open' = Append(open, Len(nodes) + 1)
    BY <1>b, <1>5 DEF Branch
  <2>2. Adds(nodes, nodes', Top, open, k)
    BY <1>1, <1>4, <1>r, <2>1, Appended
  <2>3. MayBranch(nodes, Top, k)
    <3>1. nodes[Top].kind = "branches"
      BY <1>3, <1>5 DEF Tree, Kind, Node
    <3>2. ASSUME NEW c \in DOMAIN nodes, IsElseOf(nodes, c, Top) PROVE FALSE
      <4>1. nodes[c].kind = "else" /\ nodes[c].parent = Top /\ c \in Nat
        BY <1>1, <3>2 DEF IsElseOf
      <4>2. c \in GroupsIn(Top)
        BY <4>1 DEF GroupsIn, Kind, Node
      <4>3. l <= c
        BY <1>3, <1>5, <4>1 DEF Tree, Kind, Node
      <4> QED BY <1>2, <1>3, <1>5, <4>1, <4>2, <4>3 DEF Kind
    <3> QED BY <3>1, <3>2 DEF MayBranch
  <2> QED BY <1>1, <2>1, <2>2, <2>3 DEF Enters
<1>6. CASE Kind(l) = "if"
  <2> DEFINE N == Len(nodes)
             ms == [nodes EXCEPT ![l].parent = N + 1]
  <2>1. /\ nodes' = ms \o <<New("branches", Top, {}, {}), New(k, N + 1, reads, {})>>
        /\ groups' = groups \o <<N + 1, N + 2>> /\ open' = Append(open, N + 2)
    <3>1. N \in Nat /\ N + 1 + 1 = N + 2
      BY <1>1
    <3> QED BY <1>b, <1>6, <3>1 DEF Branch
  <2>t. N \in Nat /\ Top \in Nat
    BY <1>1 DEF Node
  <2>2. PICK x \in NodeType : /\ x = New("branches", Top, {}, {})
                              /\ x.kind = "branches" /\ x.parent = Top /\ x.within = Opened(open)
    <3>1. "branches" \in Kinds
      BY DEF Kinds
    <3> QED BY <1>1, <2>t, <3>1, NewType
  <2>3. PICK y \in NodeType : /\ y = New(k, N + 1, reads, {})
                              /\ y.kind = k /\ y.parent = N + 1 /\ y.within = Opened(open)
    <3>1. N + 1 \in Nat
      BY <2>t
    <3> QED BY <1>1, <1>4, <3>1, NewType
  <2>4. /\ ms \in Seq(NodeType) /\ Len(ms) = N /\ DOMAIN ms = DOMAIN nodes
        /\ \A n \in DOMAIN nodes : ms[n] = IF n = l THEN [nodes[l] EXCEPT !.parent = N + 1] ELSE nodes[n]
    <3>1. [nodes[l] EXCEPT !.parent = N + 1] \in NodeType
      <4>1. N + 1 \in Nat
        BY <2>t
      <4> QED BY <1>3, <4>1, Reparented
    <3> QED BY <1>1, <1>3, <3>1 DEF Node
  <2>5. nodes' = ms \o <<x, y>>
    BY <2>1, <2>2, <2>3
  <2> HIDE DEF ms
  <2>6. /\ nodes' \in Seq(NodeType) /\ DOMAIN nodes' = 1..N + 2
        /\ \A n \in DOMAIN nodes : nodes'[n] = ms[n]
        /\ nodes'[N + 1] = x /\ nodes'[N + 2] = y
    <3>1. <<x, y>> \in Seq(NodeType) /\ Len(<<x, y>>) = 2 /\ <<x, y>>[1] = x /\ <<x, y>>[2] = y
      OBVIOUS
    <3>2. nodes' \in Seq(NodeType) /\ Len(nodes') = N + 2
      BY <2>t, <2>4, <2>5, <3>1
    <3>3. \A n \in 1..N + 2 : nodes'[n] = IF n <= N THEN ms[n] ELSE <<x, y>>[n - N]
      BY <2>t, <2>4, <2>5, <3>1
    <3>4. nodes'[N + 1] = <<x, y>>[1] /\ nodes'[N + 2] = <<x, y>>[2]
      BY <2>t, <3>3
    <3>5. ASSUME NEW n \in DOMAIN nodes PROVE nodes'[n] = ms[n]
      BY <1>1, <2>t, <3>3
    <3> QED BY <3>1, <3>2, <3>4, <3>5
  <2>7. ASSUME NEW n \in DOMAIN nodes
        PROVE  /\ ms[n].kind = nodes[n].kind /\ ms[n].within = nodes[n].within
               /\ ms[n].parent = IF n = l THEN N + 1 ELSE nodes[n].parent
    <3>1. nodes[n] \in NodeType
      BY <1>1
    <3>2. N + 1 \in Nat
      BY <2>t
    <3>3. CASE n = l
      <4>1. ms[n] = [nodes[n] EXCEPT !.parent = N + 1]
        BY <2>4, <3>3
      <4>2. ms[n].kind = nodes[n].kind /\ ms[n].within = nodes[n].within /\ ms[n].parent = N + 1
        BY <3>1, <3>2, <4>1, Reparented
      <4> QED BY <3>3, <4>2
    <3>4. CASE n # l
      BY <2>4, <3>4
    <3> QED BY <3>3, <3>4
  <2>8. Wraps(nodes, nodes', Top, open, l, k)
    BY <1>3, <1>6, <2>2, <2>3, <2>6, <2>7 DEF Wraps, Kind, Node
  <2> QED BY <1>b, <2>1, <2>8 DEF WrapsIf
<1> QED BY <1>2, <1>5, <1>6

-----------------------------------------------------------------------------
(* The tree. *)

LEMMA TreeAdds ==
  ASSUME NEW ns, NEW ms, NEW top \in DOMAIN ns, NEW os, NEW k \in {"task"} \cup Block,
         Tree(ns), ns[top].kind # "task", Adds(ns, ms, top, os, k), MayBranch(ns, top, k)
  PROVE  Tree(ms)
<1> DEFINE N == Len(ns) + 1
<1>1. /\ ns \in Seq(NodeType) /\ DOMAIN ns = 1..Len(ns) /\ Len(ns) \in Nat /\ N \in Nat /\ 1 \in DOMAIN ns
      /\ ms \in Seq(NodeType) /\ DOMAIN ms = 1..N /\ N \notin DOMAIN ns /\ top # None /\ N # 1
      /\ \A n \in DOMAIN ms : n = N \/ n \in DOMAIN ns
      /\ DOMAIN ns \subseteq DOMAIN ms
  BY DEF Tree, Adds, None
<1>2. /\ \A n \in DOMAIN ns :
           /\ ms[n].kind = ns[n].kind /\ ms[n].within = ns[n].within
           /\ ms[n].parent = ns[n].parent \/ (ns[n].kind = "task" /\ ms[n].parent = None)
      /\ ms[N].kind = k /\ ms[N].parent = top
  BY DEF Adds
<1> HIDE DEF N
<1>3. k \notin {"pipeline", "branches"} /\ {"pipeline"} \cap Block = {}
  BY DEF Block, Condition
<1>4. ms[1].kind = "pipeline" /\ ms[1].parent = None /\ ms[1].within = {}
  BY <1>1, <1>2 DEF Tree
<1>5. ASSUME NEW n \in DOMAIN ms
      PROVE  /\ ms[n].parent \in {None} \cup DOMAIN ms
             /\ n # 1 => ms[n].kind # "pipeline" /\ (ms[n].kind # "task" => ms[n].parent # None)
             /\ ms[n].parent # None => ms[ms[n].parent].kind # "task"
             /\ ms[n].kind \in {"elif", "else"} => ms[ms[n].parent].kind = "branches"
  <2>1. CASE n = N
    BY <1>1, <1>2, <1>3, <2>1 DEF MayBranch
  <2>2. CASE n \in DOMAIN ns
    <3>1. /\ ns[n].parent \in {None} \cup DOMAIN ns
          /\ n # 1 => ns[n].kind # "pipeline" /\ (ns[n].kind # "task" => ns[n].parent # None)
          /\ ns[n].parent # None => ns[ns[n].parent].kind # "task"
          /\ ns[n].kind \in {"elif", "else"} => ns[ns[n].parent].kind = "branches"
      BY <2>2 DEF Tree
    <3>2. ns[n].kind \in {"elif", "else"} => n # 1
      BY DEF Tree
    <3> QED BY <1>1, <1>2, <2>2, <3>1, <3>2
  <2> QED BY <1>1, <2>1, <2>2
<1>6. ASSUME NEW c \in DOMAIN ms, NEW n \in DOMAIN ms,
             ms[c].kind = "else", ms[n].kind \in {"elif", "else"}, ms[n].parent = ms[c].parent
      PROVE  n <= c
  <2>1. CASE c = N
    BY <1>1, <2>1
  <2>2. CASE c \in DOMAIN ns /\ n \in DOMAIN ns
    <3>1. ns[c].kind = "else" /\ ns[n].kind \in {"elif", "else"} /\ ns[n].parent = ns[c].parent
      BY <1>2, <1>6, <2>2
    <3> QED BY <2>2, <3>1 DEF Tree
  <2>3. CASE c \in DOMAIN ns /\ n = N
    <3>1. ns[c].kind = "else" /\ ns[c].parent = top /\ k \in {"elif", "else"}
      BY <1>2, <1>6, <2>3
    <3> QED BY <2>3, <3>1 DEF MayBranch, IsElseOf
  <2> QED BY <1>1, <2>1, <2>2, <2>3
<1> QED BY <1>1, <1>4, <1>5, <1>6 DEF Tree

LEMMA TreeWraps ==
  ASSUME NEW ns, NEW ms, NEW top \in DOMAIN ns, NEW os, NEW l, NEW k \in {"elif", "else"},
         Tree(ns), ns[top].kind # "task", Wraps(ns, ms, top, os, l, k)
  PROVE  Tree(ms)
<1> DEFINE N == Len(ns) + 1
           M == Len(ns) + 2
<1>1. /\ ns \in Seq(NodeType) /\ DOMAIN ns = 1..Len(ns) /\ Len(ns) \in Nat
      /\ N \in Nat /\ M \in Nat /\ 1 \in DOMAIN ns /\ N < M
      /\ ms \in Seq(NodeType) /\ DOMAIN ms = 1..M /\ N \notin DOMAIN ns /\ M \notin DOMAIN ns
      /\ top # None /\ N # 1 /\ M # 1 /\ N # None /\ N \in DOMAIN ms /\ M \in DOMAIN ms
      /\ \A n \in DOMAIN ms : n = N \/ n = M \/ n \in DOMAIN ns
      /\ DOMAIN ns \subseteq DOMAIN ms
  BY DEF Tree, Wraps, None
<1>2. /\ l \in DOMAIN ns /\ ns[l].kind = "if" /\ ns[l].parent = top
      /\ \A n \in DOMAIN ns :
           /\ ms[n].kind = ns[n].kind /\ ms[n].within = ns[n].within
           /\ ms[n].parent = IF n = l THEN N ELSE ns[n].parent
      /\ ms[N].kind = "branches" /\ ms[N].parent = top
      /\ ms[M].kind = k /\ ms[M].parent = N
  BY DEF Wraps
<1> HIDE DEF N, M
<1>4. ms[1].kind = "pipeline" /\ ms[1].parent = None /\ ms[1].within = {}
  BY <1>1, <1>2 DEF Tree
<1>5. ASSUME NEW n \in DOMAIN ms
      PROVE  /\ ms[n].parent \in {None} \cup DOMAIN ms
             /\ n # 1 => ms[n].kind # "pipeline" /\ (ms[n].kind # "task" => ms[n].parent # None)
             /\ ms[n].parent # None => ms[ms[n].parent].kind # "task"
             /\ ms[n].kind \in {"elif", "else"} => ms[ms[n].parent].kind = "branches"
  <2>1. CASE n = N \/ n = M
    BY <1>1, <1>2, <2>1
  <2>2. CASE n \in DOMAIN ns
    <3>1. /\ ns[n].parent \in {None} \cup DOMAIN ns
          /\ n # 1 => ns[n].kind # "pipeline" /\ (ns[n].kind # "task" => ns[n].parent # None)
          /\ ns[n].parent # None => ns[ns[n].parent].kind # "task"
          /\ ns[n].kind \in {"elif", "else"} => ns[ns[n].parent].kind = "branches"
      BY <2>2 DEF Tree
    <3>2. ns[n].kind \in {"elif", "else"} => n # 1
      BY DEF Tree
    <3>3. CASE n = l
      BY <1>1, <1>2, <3>1, <3>3
    <3>4. CASE n # l
      BY <1>1, <1>2, <2>2, <3>1, <3>2, <3>4
    <3> QED BY <3>3, <3>4
  <2> QED BY <1>1, <2>1, <2>2
<1>6. ASSUME NEW c \in DOMAIN ms, NEW n \in DOMAIN ms,
             ms[c].kind = "else", ms[n].kind \in {"elif", "else"}, ms[n].parent = ms[c].parent
      PROVE  n <= c
  <2>1. CASE c = M
    BY <1>1, <2>1
  <2>2. CASE c \in DOMAIN ns /\ n \in DOMAIN ns
    <3>1. ns[c].kind = "else" /\ ns[n].kind \in {"elif", "else"} /\ ns[n].parent = ns[c].parent
      BY <1>2, <1>6, <2>2
    <3> QED BY <2>2, <3>1 DEF Tree
  <2>3. CASE c \in DOMAIN ns /\ n = M
    <3>1. c # l /\ ms[c].parent = ns[c].parent /\ ns[c].parent \in {None} \cup DOMAIN ns
      BY <1>2, <1>6, <2>3 DEF Tree
    <3> QED BY <1>1, <1>2, <1>6, <2>3, <3>1
  <2>4. c # N /\ n # N
    BY <1>2, <1>6
  <2> QED BY <1>1, <2>1, <2>2, <2>3, <2>4
<1> QED BY <1>1, <1>4, <1>5, <1>6 DEF Tree

LEMMA RankedAdds ==
  ASSUME NEW ns, NEW ms, NEW top \in DOMAIN ns, NEW os, NEW k, Tree(ns), Ranked(ns), Adds(ns, ms, top, os, k)
  PROVE  Ranked(ms)
<1> DEFINE N == Len(ns) + 1
<1>1. /\ DOMAIN ns = 1..Len(ns) /\ Len(ns) \in Nat /\ N \in Nat
      /\ DOMAIN ms = 1..N /\ N \notin DOMAIN ns /\ N \in DOMAIN ms /\ ms[N].parent = top
      /\ \A n \in DOMAIN ms : n = N \/ n \in DOMAIN ns
      /\ \A n \in DOMAIN ns : ns[n].parent \in {None} \cup DOMAIN ns
      /\ \A n \in DOMAIN ns : ms[n].parent = ns[n].parent \/ ms[n].parent = None
  BY DEF Tree, Adds, None
<1>2. PICK b \in Nat : \E rank : Ranks(ns, b, rank)
  BY DEF Ranked
<1>3. PICK rank : Ranks(ns, b, rank)
  BY <1>2
<1> DEFINE new == [n \in DOMAIN ms |-> IF n = N THEN b + 1 ELSE rank[n]]
<1>4. rank \in [DOMAIN ns -> 0..b] /\ \A n \in DOMAIN ns : ns[n].parent # None => rank[ns[n].parent] < rank[n]
  BY <1>3 DEF Ranks
<1>5. new \in [DOMAIN ms -> 0..(b + 1)]
  <2>1. \A n \in DOMAIN ns : rank[n] \in 0..(b + 1)
    BY <1>2, <1>4
  <2> QED BY <1>1, <1>2, <2>1
<1>6. ASSUME NEW n \in DOMAIN ms, ms[n].parent # None PROVE new[ms[n].parent] < new[n]
  <2>1. CASE n = N
    BY <1>1, <1>2, <1>4, <2>1
  <2>2. CASE n \in DOMAIN ns
    <3>1. ms[n].parent = ns[n].parent /\ ns[n].parent \in DOMAIN ns /\ rank[ns[n].parent] < rank[n]
      BY <1>1, <1>4, <1>6, <2>2
    <3> QED BY <1>1, <2>2, <3>1
  <2> QED BY <1>1, <2>1, <2>2
<1>7. Ranks(ms, b + 1, new) /\ b + 1 \in Nat
  BY <1>5, <1>6 DEF Ranks
<1> QED BY <1>7 DEF Ranked

LEMMA RankedWraps ==
  ASSUME NEW ns, NEW ms, NEW top \in DOMAIN ns, NEW os, NEW l, NEW k,
         Tree(ns), Ranked(ns), Wraps(ns, ms, top, os, l, k)
  PROVE  Ranked(ms)
<1> DEFINE N == Len(ns) + 1
           M == Len(ns) + 2
<1>1. /\ DOMAIN ns = 1..Len(ns) /\ Len(ns) \in Nat /\ N \in Nat /\ M \in Nat /\ N # M
      /\ DOMAIN ms = 1..M /\ N \notin DOMAIN ns /\ M \notin DOMAIN ns /\ N \in DOMAIN ms /\ M \in DOMAIN ms
      /\ ms[N].parent = top /\ ms[M].parent = N /\ l \in DOMAIN ns /\ ns[l].parent = top /\ top # None
      /\ \A n \in DOMAIN ms : n = N \/ n = M \/ n \in DOMAIN ns
      /\ DOMAIN ns \subseteq DOMAIN ms
      /\ \A n \in DOMAIN ns : ns[n].parent \in {None} \cup DOMAIN ns
      /\ \A n \in DOMAIN ns : ms[n].parent = IF n = l THEN N ELSE ns[n].parent
  BY DEF Tree, Wraps, None
<1>2. PICK b \in Nat : \E rank : Ranks(ns, b, rank)
  BY DEF Ranked
<1>3. PICK rank : Ranks(ns, b, rank)
  BY <1>2
<1> DEFINE new == [n \in DOMAIN ms |-> IF n = N THEN 2 * rank[l] ELSE IF n = M THEN 2 * rank[l] + 1
                                       ELSE 2 * rank[n] + 1]
<1> HIDE DEF N, M
<1>4. rank \in [DOMAIN ns -> 0..b] /\ \A n \in DOMAIN ns : ns[n].parent # None => rank[ns[n].parent] < rank[n]
  BY <1>3 DEF Ranks
<1>5. new \in [DOMAIN ms -> 0..(2 * b + 1)]
  <2>1. \A n \in DOMAIN ns : 2 * rank[n] \in 0..(2 * b + 1) /\ 2 * rank[n] + 1 \in 0..(2 * b + 1)
    BY <1>2, <1>4
  <2> QED BY <1>1, <1>2, <2>1
<1>6. ASSUME NEW n \in DOMAIN ms, ms[n].parent # None PROVE new[ms[n].parent] < new[n]
  <2>1. rank[l] \in Nat /\ rank[top] \in Nat /\ rank[top] < rank[l]
    BY <1>1, <1>2, <1>4
  <2>2. CASE n = N
    BY <1>1, <2>1, <2>2
  <2>3. CASE n = M \/ n = l
    BY <1>1, <2>1, <2>3
  <2>4. CASE n \in DOMAIN ns /\ n # l
    <3>1. ms[n].parent = ns[n].parent /\ ns[n].parent \in DOMAIN ns /\ rank[ns[n].parent] < rank[n]
      BY <1>1, <1>4, <1>6, <2>4
    <3>2. rank[n] \in Nat /\ rank[ns[n].parent] \in Nat
      BY <1>2, <1>4, <2>4, <3>1
    <3> QED BY <1>1, <2>4, <3>1, <3>2
  <2> QED BY <1>1, <2>2, <2>3, <2>4
<1>7. Ranks(ms, 2 * b + 1, new) /\ 2 * b + 1 \in Nat
  BY <1>5, <1>6 DEF Ranks
<1> QED BY <1>7 DEF Ranked

-----------------------------------------------------------------------------
(* The stacks. *)

Distinct(s) == \A i, j \in DOMAIN s : s[i] = s[j] => i = j

LEMMA Ends ==
  ASSUME NEW D, NEW s \in Seq(D), NEW x \in D
  PROVE  \A n : IsOn(Append(s, x), n) <=> IsOn(s, n) \/ n = x
<1>1. PICK t : t = Append(s, x)
  OBVIOUS
<1>2. /\ Len(t) = Len(s) + 1 /\ t[Len(s) + 1] = x /\ \A i \in 1..Len(s) : t[i] = s[i]
      /\ DOMAIN t = 1..(Len(s) + 1) /\ DOMAIN s = 1..Len(s) /\ Len(s) \in Nat
  BY <1>1
<1> QED BY <1>1, <1>2 DEF IsOn

LEMMA Pushed ==
  ASSUME NEW D, NEW s \in Seq(D), NEW x \in D, ~IsOn(s, x)
  PROVE  /\ Append(s, x) \in Seq(D) /\ Len(Append(s, x)) = Len(s) + 1
         /\ Append(s, x)[Len(s) + 1] = x /\ \A i \in 1..Len(s) : Append(s, x)[i] = s[i]
         /\ \A n : IsOn(Append(s, x), n) <=> IsOn(s, n) \/ n = x
         /\ Distinct(s) => Distinct(Append(s, x))
<1>1. PICK t : t = Append(s, x)
  OBVIOUS
<1>2. /\ t \in Seq(D) /\ Len(t) = Len(s) + 1 /\ t[Len(s) + 1] = x /\ \A i \in 1..Len(s) : t[i] = s[i]
      /\ DOMAIN t = 1..(Len(s) + 1) /\ DOMAIN s = 1..Len(s) /\ Len(s) \in Nat
  BY <1>1
<1>3. \A n : IsOn(t, n) <=> IsOn(s, n) \/ n = x
  BY <1>1, Ends
<1>4. Distinct(s) => Distinct(t)
  BY <1>2 DEF Distinct, IsOn
<1> QED BY <1>1, <1>2, <1>3, <1>4

LEMMA Popped ==
  ASSUME NEW D, NEW s \in Seq(D), NEW m \in 0..Len(s)
  PROVE  /\ SubSeq(s, 1, m) \in Seq(D) /\ Len(SubSeq(s, 1, m)) = m
         /\ \A i \in 1..m : SubSeq(s, 1, m)[i] = s[i]
         /\ \A n : IsOn(SubSeq(s, 1, m), n) => IsOn(s, n)
         /\ Distinct(s) => Distinct(SubSeq(s, 1, m))
<1>1. PICK t : t = SubSeq(s, 1, m)
  OBVIOUS
<1>2. /\ t \in Seq(D) /\ Len(t) = m /\ \A i \in 1..m : t[i] = s[i]
      /\ DOMAIN t = 1..m /\ DOMAIN s = 1..Len(s) /\ Len(s) \in Nat
  BY <1>1
<1>3. \A n : IsOn(t, n) => IsOn(s, n)
  BY <1>2 DEF IsOn
<1>4. Distinct(s) => Distinct(t)
  BY <1>2 DEF Distinct
<1> QED BY <1>1, <1>2, <1>3, <1>4

(* What every step keeps of the nodes.                                      *)
Grows(ns, ms) ==
  /\ DOMAIN ns \subseteq DOMAIN ms
  /\ \A n \in DOMAIN ns :
       /\ ms[n].kind = ns[n].kind /\ ms[n].within = ns[n].within
       /\ ns[n].kind \notin {"task", "if"} => ms[n].parent = ns[n].parent

LEMMA AddsGrows ==
  ASSUME NEW ns, NEW ms, NEW top, NEW os, NEW k, Tree(ns), Adds(ns, ms, top, os, k)
  PROVE  /\ Grows(ns, ms) /\ Len(ns) \in Nat /\ Len(ns) + 1 \in DOMAIN ms /\ Len(ns) + 1 \notin DOMAIN ns
         /\ DOMAIN ms = DOMAIN ns \cup {Len(ns) + 1}
<1>1. DOMAIN ns = 1..Len(ns) /\ Len(ns) \in Nat /\ DOMAIN ms = 1..Len(ns) + 1
  BY DEF Tree, Adds
<1>2. \A n \in DOMAIN ns : ms[n].kind = ns[n].kind /\ ms[n].within = ns[n].within
                           /\ (ns[n].kind \notin {"task", "if"} => ms[n].parent = ns[n].parent)
  BY DEF Adds
<1>3. DOMAIN ns \subseteq DOMAIN ms
  BY <1>1
<1> QED BY <1>1, <1>2, <1>3 DEF Grows

LEMMA WrapsGrows ==
  ASSUME NEW ns, NEW ms, NEW top, NEW os, NEW l, NEW k, Tree(ns), Wraps(ns, ms, top, os, l, k)
  PROVE  /\ Grows(ns, ms) /\ Len(ns) \in Nat
         /\ Len(ns) + 1 \notin DOMAIN ns /\ Len(ns) + 2 \notin DOMAIN ns \cup {Len(ns) + 1}
         /\ DOMAIN ms = DOMAIN ns \cup {Len(ns) + 1, Len(ns) + 2}
<1>1. DOMAIN ns = 1..Len(ns) /\ Len(ns) \in Nat /\ DOMAIN ms = 1..Len(ns) + 2
  BY DEF Tree, Wraps
<1>2. \A n \in DOMAIN ns : ms[n].kind = ns[n].kind /\ ms[n].within = ns[n].within
                           /\ (ns[n].kind \notin {"task", "if"} => ms[n].parent = ns[n].parent)
  BY DEF Wraps
<1>3. DOMAIN ns \subseteq DOMAIN ms
  BY <1>1
<1> QED BY <1>1, <1>2, <1>3 DEF Grows

LEMMA StacksGrow ==
  ASSUME NEW ns, NEW ms, NEW gs, NEW os, Stacks(ns, gs, os), Grows(ns, ms)
  PROVE  Stacks(ms, gs, os)
<1>1. gs \in Seq(DOMAIN ms) /\ os \in Seq(DOMAIN ms)
  BY DEF Stacks, Grows
<1>2. \A i \in DOMAIN os : os[i] \in DOMAIN ns
  BY DEF Stacks
<1>3. \A i \in DOMAIN gs : gs[i] \in DOMAIN ns
  BY DEF Stacks
<1> QED BY <1>1, <1>2, <1>3 DEF Stacks, Grows

LEMMA GroupPush ==
  ASSUME NEW ns, NEW gs, NEW os, Stacks(ns, gs, os), NEW x \in DOMAIN ns, ~IsOn(gs, x), ns[x].kind # "task"
  PROVE  Stacks(ns, Append(gs, x), os)
<1>1. PICK hs : hs = Append(gs, x)
  OBVIOUS
<1>2. /\ gs \in Seq(DOMAIN ns) /\ Distinct(gs) /\ Len(gs) \in Nat /\ DOMAIN gs = 1..Len(gs)
  BY DEF Stacks, Distinct
<1>3. /\ hs \in Seq(DOMAIN ns) /\ Len(hs) = Len(gs) + 1 /\ Distinct(hs)
      /\ hs[Len(gs) + 1] = x /\ \A i \in 1..Len(gs) : hs[i] = gs[i]
  BY <1>1, <1>2, Pushed
<1>4. \A i \in DOMAIN hs : ns[hs[i]].kind # "task"
  BY <1>2, <1>3 DEF Stacks
<1> QED BY <1>1, <1>3, <1>4 DEF Stacks, Distinct

LEMMA BlockPush ==
  ASSUME NEW ns, NEW gs, NEW os, Stacks(ns, gs, os), NEW x \in DOMAIN ns, ~IsOn(os, x), ns[x].kind \in Block
  PROVE  Stacks(ns, gs, Append(os, x))
<1>2. PICK ps : ps = Append(os, x)
  OBVIOUS
<1>3. /\ os \in Seq(DOMAIN ns) /\ Distinct(os) /\ Len(os) \in Nat /\ Len(os) >= 1 /\ DOMAIN os = 1..Len(os)
  BY DEF Stacks, Distinct
<1>6. /\ ps \in Seq(DOMAIN ns) /\ Len(ps) = Len(os) + 1 /\ Distinct(ps)
      /\ ps[Len(os) + 1] = x /\ \A i \in 1..Len(os) : ps[i] = os[i]
  BY <1>2, <1>3, Pushed
<1>7. Len(ps) >= 1 /\ ps[1] = 1 /\ \A i \in DOMAIN ps : i # 1 => ns[ps[i]].kind \in Block
  BY <1>3, <1>6 DEF Stacks
<1> QED BY <1>2, <1>6, <1>7 DEF Stacks, Distinct

LEMMA StacksPop ==
  ASSUME NEW ns, NEW gs, NEW os, Stacks(ns, gs, os), Len(os) > 1, NEW m \in 0..Len(gs)
  PROVE  Stacks(ns, SubSeq(gs, 1, m), SubSeq(os, 1, Len(os) - 1))
<1>1. PICK hs : hs = SubSeq(gs, 1, m)
  OBVIOUS
<1>2. PICK ps : ps = SubSeq(os, 1, Len(os) - 1)
  OBVIOUS
<1>3. /\ gs \in Seq(DOMAIN ns) /\ os \in Seq(DOMAIN ns) /\ Distinct(gs) /\ Distinct(os)
      /\ Len(gs) \in Nat /\ Len(os) \in Nat /\ Len(os) - 1 \in 0..Len(os)
      /\ DOMAIN gs = 1..Len(gs) /\ DOMAIN os = 1..Len(os)
  BY DEF Stacks, Distinct
<1>5. /\ hs \in Seq(DOMAIN ns) /\ Len(hs) = m /\ Distinct(hs) /\ \A i \in 1..m : hs[i] = gs[i]
  BY <1>1, <1>3, Popped
<1>6. /\ ps \in Seq(DOMAIN ns) /\ Len(ps) = Len(os) - 1 /\ Distinct(ps) /\ \A i \in 1..(Len(os) - 1) : ps[i] = os[i]
  BY <1>2, <1>3, Popped
<1>7. Len(ps) >= 1 /\ ps[1] = 1 /\ \A i \in DOMAIN ps : i # 1 => ns[ps[i]].kind \in Block
  <2>1. os[1] = 1 /\ \A i \in 1..Len(os) : i # 1 => ns[os[i]].kind \in Block
    BY <1>3 DEF Stacks
  <2>2. Len(os) - 1 >= 1 /\ 1 \in 1..(Len(os) - 1) /\ \A i \in 1..(Len(os) - 1) : i \in 1..Len(os)
    BY <1>3
  <2>3. DOMAIN ps = 1..(Len(os) - 1)
    BY <1>6
  <2> QED BY <1>6, <2>1, <2>2, <2>3
<1>8. \A i \in DOMAIN hs : ns[hs[i]].kind # "task"
  BY <1>3, <1>5 DEF Stacks
<1> QED BY <1>1, <1>2, <1>5, <1>6, <1>7, <1>8 DEF Stacks, Distinct

LEMMA UnendedIsFinite ==
  ASSUME NEW ns, NEW os, Tree(ns)
  PROVE  IsFiniteSet(Unended(ns, os)) /\ Cardinality(Unended(ns, os)) \in Nat
<1>1. DOMAIN ns = 1..Len(ns) /\ Len(ns) \in Nat
  BY DEF Tree
<1>2. IsFiniteSet(DOMAIN ns)
  BY <1>1, FS_Interval
<1>3. Unended(ns, os) \subseteq DOMAIN ns
  BY DEF Unended
<1> QED BY <1>2, <1>3, FS_Subset, FS_CardinalityType

(* A new group of branches is the only one that can be unended and was not. *)
LEMMA UnendedGrows ==
  ASSUME NEW ns, NEW ms, NEW os, NEW ps, Grows(ns, ms),
         \A c \in DOMAIN ns : IsOn(ps, c) => IsOn(os, c),
         NEW v \in Unended(ms, ps)
  PROVE  v \in Unended(ns, os) \/ (v \notin DOMAIN ns /\ ms[v].kind = "branches")
<1>1. v \in DOMAIN ms /\ ms[v].kind = "branches" /\ \A c \in DOMAIN ms : IsElseOf(ms, c, v) => IsOn(ps, c)
  BY DEF Unended
<1>2. SUFFICES ASSUME v \in DOMAIN ns PROVE v \in Unended(ns, os)
  BY <1>1
<1>3. ASSUME NEW c \in DOMAIN ns, IsElseOf(ns, c, v) PROVE IsOn(os, c)
  <2>1. IsElseOf(ms, c, v)
    BY <1>3 DEF IsElseOf, Grows
  <2> QED BY <1>1, <2>1 DEF IsElseOf
<1>4. ns[v].kind = "branches"
  BY <1>1, <1>2 DEF Grows
<1> QED BY <1>2, <1>3, <1>4 DEF Unended

LEMMA DeepGrows ==
  ASSUME NEW ns, NEW ms, NEW os, NEW ps, Tree(ns), Tree(ms), Grows(ns, ms),
         \A c \in DOMAIN ns : IsOn(ps, c) => IsOn(os, c),
         NEW W, W \in SUBSET DOMAIN ms, IsFiniteSet(W),
         \A v \in DOMAIN ms : v \notin DOMAIN ns /\ ms[v].kind = "branches" => v \in W
  PROVE  Cardinality(Unended(ms, ps)) <= Cardinality(Unended(ns, os)) + Cardinality(W)
<1>1. Unended(ms, ps) \subseteq Unended(ns, os) \cup W
  BY UnendedGrows DEF Unended
<1>2. IsFiniteSet(Unended(ns, os)) /\ Cardinality(Unended(ns, os)) \in Nat
  BY UnendedIsFinite
<1>3. IsFiniteSet(Unended(ns, os) \cup W) /\ Cardinality(W) \in Nat
  BY <1>2, FS_Union, FS_CardinalityType
<1>4. Cardinality(Unended(ns, os) \cup W) <= Cardinality(Unended(ns, os)) + Cardinality(W)
  <2>1. /\ Cardinality(Unended(ns, os) \cup W)
           = Cardinality(Unended(ns, os)) + Cardinality(W) - Cardinality(Unended(ns, os) \cap W)
    BY <1>2, FS_Union
  <2>2. Cardinality(Unended(ns, os) \cap W) \in Nat
    <3>1. IsFiniteSet(Unended(ns, os) \cap W)
      BY <1>2, FS_Intersection
    <3> QED BY <3>1, FS_CardinalityType
  <2> QED BY <1>2, <1>3, <2>1, <2>2
<1>5. /\ Cardinality(Unended(ms, ps)) <= Cardinality(Unended(ns, os) \cup W)
      /\ Cardinality(Unended(ms, ps)) \in Nat /\ Cardinality(Unended(ns, os) \cup W) \in Nat
  BY <1>1, <1>3, FS_Subset, FS_CardinalityType
<1> QED BY <1>2, <1>3, <1>4, <1>5

(* Leaving an Else ends its group of branches.                              *)
LEMMA LeavingElse ==
  ASSUME NEW ns, NEW gs, NEW os, Tree(ns), Stacks(ns, gs, os), Len(os) > 1, ns[os[Len(os)]].kind = "else"
  PROVE  Cardinality(Unended(ns, SubSeq(os, 1, Len(os) - 1))) + 1 <= Cardinality(Unended(ns, os))
<1> DEFINE e == os[Len(os)]
           v == ns[e].parent
           ps == SubSeq(os, 1, Len(os) - 1)
<1>1. /\ os \in Seq(DOMAIN ns) /\ Distinct(os) /\ Len(os) \in Nat /\ Len(os) - 1 \in 0..Len(os)
      /\ DOMAIN os = 1..Len(os) /\ Len(os) \in DOMAIN os /\ e \in DOMAIN ns
  BY DEF Stacks, Distinct
<1>2. e # 1 /\ v \in DOMAIN ns /\ ns[v].kind = "branches"
  BY <1>1 DEF Tree
<1>3. /\ ps \in Seq(DOMAIN ns) /\ Len(ps) = Len(os) - 1 /\ \A i \in 1..(Len(os) - 1) : ps[i] = os[i]
      /\ \A n : IsOn(ps, n) => IsOn(os, n)
  BY <1>1, Popped
<1>4. IsElseOf(ns, e, v) /\ IsOn(os, e)
  BY <1>1 DEF IsElseOf, IsOn
<1>5. ~IsOn(ps, e)
  BY <1>1, <1>3 DEF IsOn, Distinct
<1>6. \A c \in DOMAIN ns : IsElseOf(ns, c, v) => c = e
  <2>1. ASSUME NEW c \in DOMAIN ns, IsElseOf(ns, c, v) PROVE c = e
    <3>1. c <= e /\ e <= c /\ c \in Nat /\ e \in Nat
      BY <1>1, <1>4, <2>1 DEF Tree, IsElseOf
    <3> QED BY <3>1
  <2> QED BY <2>1
<1> HIDE DEF e, v, ps
<1>7. v \in Unended(ns, os) /\ v \notin Unended(ns, ps)
  BY <1>1, <1>2, <1>4, <1>5, <1>6 DEF Unended
<1>8. Unended(ns, ps) \subseteq Unended(ns, os) \ {v}
  BY <1>3, <1>7 DEF Unended
<1>9. IsFiniteSet(Unended(ns, os)) /\ Cardinality(Unended(ns, os)) \in Nat
  BY UnendedIsFinite
<1>10. IsFiniteSet(Unended(ns, os) \ {v}) /\ Cardinality(Unended(ns, os) \ {v}) = Cardinality(Unended(ns, os)) - 1
  BY <1>7, <1>9, FS_RemoveElement
<1>11. /\ Cardinality(Unended(ns, ps)) <= Cardinality(Unended(ns, os) \ {v})
       /\ Cardinality(Unended(ns, ps)) \in Nat /\ Cardinality(Unended(ns, os) \ {v}) \in Nat
  BY <1>8, <1>10, FS_Subset, FS_CardinalityType
<1>12. Cardinality(Unended(ns, ps)) + 1 <= Cardinality(Unended(ns, os))
  BY <1>9, <1>10, <1>11
<1> QED BY <1>12 DEF ps

(* A stack that has lost a group of branches without Else is lost for good. *)
LEMMA DoomedStays ==
  ASSUME NEW ns, NEW ms, NEW gs, NEW hs, Doomed(ns, gs), Grows(ns, ms),
         \A n \in DOMAIN ns : IsOn(hs, n) => IsOn(gs, n),
         \A c \in DOMAIN ms : c \notin DOMAIN ns /\ ms[c].kind = "else" =>
           ms[c].parent \notin DOMAIN ns \/ IsOn(gs, ms[c].parent),
         \A c \in DOMAIN ns : ms[c].kind = "else" => ms[c].parent = ns[c].parent
  PROVE  Doomed(ms, hs)
<1>1. PICK v \in DOMAIN ns : ns[v].kind = "branches" /\ ~IsOn(gs, v) /\ \A c \in DOMAIN ns : ~IsElseOf(ns, c, v)
  BY DEF Doomed
<1>2. ASSUME NEW c \in DOMAIN ms, IsElseOf(ms, c, v) PROVE FALSE
  <2>1. ms[c].kind = "else" /\ ms[c].parent = v
    BY <1>2 DEF IsElseOf
  <2>2. CASE c \in DOMAIN ns
    BY <1>1, <2>1, <2>2 DEF IsElseOf, Grows
  <2>3. CASE c \notin DOMAIN ns
    BY <1>1, <2>1, <2>3
  <2> QED BY <2>2, <2>3
<1> QED BY <1>1, <1>2 DEF Doomed, Grows

-----------------------------------------------------------------------------
(* While no group of branches is lost, nodes are where they were written.   *)

Last(s) == s[Len(s)]

LEMMA InsideGrows ==
  ASSUME NEW ns, NEW ms, Grows(ns, ms), NEW n \in DOMAIN ns
  PROVE  Inside(ms, n) = Inside(ns, n)
BY DEF Inside, Grows

(* What is inside the group on top is in the blocks the author is in.       *)
LEMMA TopIsWhereTheAuthorIs ==
  ASSUME NEW ns, NEW gs, NEW os, Tree(ns), Stacks(ns, gs, os), Climbs(ns, gs), SameBlocks(ns, gs, os)
  PROVE  Inside(ns, Last(gs)) = Opened(os)
<1>1. /\ gs \in Seq(DOMAIN ns) /\ os \in Seq(DOMAIN ns) /\ DOMAIN gs = 1..Len(gs) /\ DOMAIN os = 1..Len(os)
      /\ Len(gs) \in Nat /\ Len(os) \in Nat /\ Len(gs) >= 1 /\ Len(os) >= 1
  BY DEF Stacks, Climbs
<1>2. Inside(ns, Last(gs)) = {gs[j] : j \in {k \in 1..Len(gs) : ns[gs[k]].kind \in Block}}
  BY <1>1 DEF Climbs, Last
<1>3. "pipeline" \notin Block /\ "branches" \notin Block
  BY DEF Block, Condition
<1>4. ASSUME NEW n \in Inside(ns, Last(gs)) PROVE n \in Opened(os)
  <2>1. PICK j \in 1..Len(gs) : n = gs[j] /\ ns[gs[j]].kind \in Block
    BY <1>2
  <2>2. n \in DOMAIN ns /\ IsOn(gs, n) /\ ns[n].kind # "branches"
    BY <1>1, <1>3, <2>1 DEF IsOn
  <2>3. PICK i \in DOMAIN os : os[i] = n
    BY <2>2 DEF SameBlocks, IsOn
  <2>4. i # 1
    BY <1>3, <2>1, <2>3 DEF Tree, Stacks
  <2> QED BY <1>1, <2>3, <2>4 DEF Opened
<1>5. ASSUME NEW n \in Opened(os) PROVE n \in Inside(ns, Last(gs))
  <2>1. PICK i \in 2..Len(os) : n = os[i]
    BY DEF Opened
  <2>2. i \in DOMAIN os /\ i # 1 /\ n \in DOMAIN ns
    BY <1>1, <2>1
  <2>3. ns[n].kind \in Block /\ IsOn(os, n)
    BY <2>1, <2>2 DEF Stacks, IsOn
  <2>4. PICK j \in DOMAIN gs : gs[j] = n
    BY <2>2, <2>3 DEF SameBlocks, IsOn
  <2> QED BY <1>1, <1>2, <2>3, <2>4
<1> QED BY <1>4, <1>5

LEMMA ClimbsGrow ==
  ASSUME NEW ns, NEW ms, NEW gs \in Seq(DOMAIN ns), Climbs(ns, gs), Grows(ns, ms),
         \A i \in DOMAIN gs : ms[gs[i]].parent = ns[gs[i]].parent
  PROVE  Climbs(ms, gs)
<1>1. DOMAIN gs = 1..Len(gs) /\ Len(gs) \in Nat /\ \A i \in DOMAIN gs : gs[i] \in DOMAIN ns
  OBVIOUS
<1>2. \A i \in DOMAIN gs : i # 1 => ms[gs[i]].parent = gs[i - 1]
  BY DEF Climbs
<1>3. ASSUME NEW i \in DOMAIN gs
      PROVE  Inside(ms, gs[i]) = {gs[j] : j \in {k \in 1..i : ms[gs[k]].kind \in Block}}
  <2>1. Inside(ms, gs[i]) = {gs[j] : j \in {k \in 1..i : ns[gs[k]].kind \in Block}}
    BY <1>1, InsideGrows DEF Climbs
  <2>2. \A k \in 1..i : ms[gs[k]].kind = ns[gs[k]].kind
    BY <1>1 DEF Grows
  <2> QED BY <2>1, <2>2
<1> QED BY <1>2, <1>3 DEF Climbs

LEMMA ClimbsPush ==
  ASSUME NEW ns, NEW gs \in Seq(DOMAIN ns), Climbs(ns, gs), NEW x \in DOMAIN ns, ~IsOn(gs, x),
         ns[x].parent = Last(gs), ns[x].within = Inside(ns, Last(gs))
  PROVE  Climbs(ns, Append(gs, x))
<1>1. PICK hs : hs = Append(gs, x)
  OBVIOUS
<1> DEFINE L == Len(gs)
           In(s, i) == {s[j] : j \in {k \in 1..i : ns[s[k]].kind \in Block}}
<1>2. /\ hs \in Seq(DOMAIN ns) /\ Len(hs) = L + 1 /\ hs[L + 1] = x /\ \A i \in 1..L : hs[i] = gs[i]
      /\ L \in Nat /\ DOMAIN hs = 1..(L + 1) /\ DOMAIN gs = 1..L
  BY <1>1, Pushed
<1>3. /\ L >= 1 /\ gs[1] = 1
      /\ \A i \in DOMAIN gs : i # 1 => ns[gs[i]].parent = gs[i - 1]
      /\ \A i \in DOMAIN gs : Inside(ns, gs[i]) = In(gs, i)
  BY DEF Climbs
<1>4. ASSUME NEW i \in DOMAIN hs, i # 1 PROVE ns[hs[i]].parent = hs[i - 1]
  <2>1. CASE i = L + 1
    BY <1>2, <1>3, <2>1 DEF Last
  <2>2. CASE i \in 1..L
    BY <1>2, <1>3, <1>4, <2>2
  <2> QED BY <1>2, <2>1, <2>2
<1>5. ASSUME NEW i \in 1..L PROVE In(hs, i) = In(gs, i)
  BY <1>2
<1>6. ASSUME NEW i \in DOMAIN hs PROVE Inside(ns, hs[i]) = In(hs, i)
  <2>1. CASE i \in 1..L
    <3>1. Inside(ns, hs[i]) = Inside(ns, gs[i]) /\ i \in DOMAIN gs
      BY <1>2, <2>1
    <3> QED BY <1>3, <1>5, <2>1, <3>1
  <2>2. CASE i = L + 1
    <3>1. Inside(ns, Last(gs)) = In(gs, L) /\ L \in 1..L
      BY <1>2, <1>3 DEF Last
    <3>2. ns[x].within = In(hs, L)
      BY <1>5, <3>1
    <3>3. In(hs, L + 1) = In(hs, L) \cup (IF ns[x].kind \in Block THEN {x} ELSE {})
      BY <1>2
    <3> QED BY <1>2, <2>2, <3>2, <3>3 DEF Inside
  <2> QED BY <1>2, <2>1, <2>2
<1>7. Len(hs) >= 1 /\ hs[1] = 1
  BY <1>2, <1>3
<1>8. \A i \in DOMAIN hs : Inside(ns, hs[i]) = {hs[j] : j \in {k \in 1..i : ns[hs[k]].kind \in Block}}
  BY <1>6
<1>9. Climbs(ns, hs)
  BY <1>4, <1>7, <1>8 DEF Climbs
<1> QED BY <1>1, <1>9

LEMMA ClimbsPop ==
  ASSUME NEW ns, NEW gs \in Seq(DOMAIN ns), Climbs(ns, gs), NEW m \in 1..Len(gs)
  PROVE  Climbs(ns, SubSeq(gs, 1, m))
<1>1. PICK hs : hs = SubSeq(gs, 1, m)
  OBVIOUS
<1>2. /\ hs \in Seq(DOMAIN ns) /\ Len(hs) = m /\ \A i \in 1..m : hs[i] = gs[i]
      /\ Len(gs) \in Nat /\ DOMAIN hs = 1..m /\ DOMAIN gs = 1..Len(gs) /\ m \in Nat /\ m >= 1
  <2>1. m \in 0..Len(gs)
    OBVIOUS
  <2> QED BY <1>1, <2>1, Popped
<1>3. \A i \in DOMAIN hs : i # 1 => ns[hs[i]].parent = hs[i - 1]
  BY <1>2 DEF Climbs
<1>4. ASSUME NEW i \in DOMAIN hs
      PROVE  Inside(ns, hs[i]) = {hs[j] : j \in {k \in 1..i : ns[hs[k]].kind \in Block}}
  <2>1. Inside(ns, hs[i]) = {gs[j] : j \in {k \in 1..i : ns[gs[k]].kind \in Block}}
    BY <1>2 DEF Climbs
  <2>2. \A k \in 1..i : hs[k] = gs[k]
    BY <1>2
  <2> QED BY <2>1, <2>2
<1> QED BY <1>1, <1>2, <1>3, <1>4 DEF Climbs

(* The stacks are pushed together, or a group of branches on one of them.   *)
LEMMA SameBlocksGrow ==
  ASSUME NEW ns, NEW ms, NEW gs, NEW os, Stacks(ns, gs, os), SameBlocks(ns, gs, os), Grows(ns, ms)
  PROVE  SameBlocks(ms, gs, os)
<1>1. ASSUME NEW n \in DOMAIN ms PROVE IsOn(os, n) <=> IsOn(gs, n) /\ ms[n].kind # "branches"
  <2>1. IsOn(os, n) \/ IsOn(gs, n) => n \in DOMAIN ns
    BY DEF Stacks, IsOn
  <2>2. n \in DOMAIN ns => ms[n].kind = ns[n].kind
    BY DEF Grows
  <2> QED BY <2>1, <2>2 DEF SameBlocks
<1> QED BY <1>1 DEF SameBlocks

LEMMA SameBlocksBranches ==
  ASSUME NEW ns, NEW gs, NEW os, Stacks(ns, gs, os), SameBlocks(ns, gs, os),
         NEW x \in DOMAIN ns, ~IsOn(gs, x), ns[x].kind = "branches"
  PROVE  SameBlocks(ns, Append(gs, x), os)
<1>1. PICK hs : hs = Append(gs, x)
  OBVIOUS
<1>2. /\ gs \in Seq(DOMAIN ns) /\ Len(hs) = Len(gs) + 1 /\ hs[Len(gs) + 1] = x
      /\ \A i \in 1..Len(gs) : hs[i] = gs[i] /\ \A n : IsOn(hs, n) <=> IsOn(gs, n) \/ n = x
      /\ hs \in Seq(DOMAIN ns) /\ DOMAIN hs = 1..(Len(gs) + 1) /\ DOMAIN gs = 1..Len(gs) /\ Len(gs) \in Nat
  <2>1. gs \in Seq(DOMAIN ns)
    BY DEF Stacks
  <2>2. /\ hs \in Seq(DOMAIN ns) /\ Len(hs) = Len(gs) + 1 /\ hs[Len(gs) + 1] = x
        /\ \A i \in 1..Len(gs) : hs[i] = gs[i]
        /\ \A n : IsOn(hs, n) <=> IsOn(gs, n) \/ n = x
    BY <1>1, <2>1, Pushed
  <2> QED BY <2>1, <2>2
<1>3. ~IsOn(os, x)
  BY DEF SameBlocks
<1>4. \A n \in DOMAIN ns : IsOn(os, n) <=> IsOn(hs, n) /\ ns[n].kind # "branches"
  <2>1. \A n : IsOn(hs, n) <=> IsOn(gs, n) \/ n = x
    BY <1>1, <1>2, Pushed
  <2> QED BY <1>3, <2>1 DEF SameBlocks
<1>5. ASSUME NEW i \in DOMAIN os, NEW j \in DOMAIN os, NEW k \in DOMAIN hs, NEW l \in DOMAIN hs,
             i < j, hs[k] = os[i], hs[l] = os[j]
      PROVE  k < l
  <2>1. os[i] # x /\ os[j] # x
    BY <1>3 DEF IsOn
  <2>2. k \in DOMAIN gs /\ l \in DOMAIN gs /\ gs[k] = os[i] /\ gs[l] = os[j]
    BY <1>2, <1>5, <2>1
  <2> QED BY <1>5, <2>2 DEF SameBlocks
<1>6. SameBlocks(ns, hs, os)
  BY <1>4, <1>5 DEF SameBlocks
<1> QED BY <1>1, <1>6

LEMMA SameBlocksPush ==
  ASSUME NEW ns, NEW gs, NEW os, Stacks(ns, gs, os), SameBlocks(ns, gs, os),
         NEW x \in DOMAIN ns, ~IsOn(gs, x), ns[x].kind # "branches"
  PROVE  SameBlocks(ns, Append(gs, x), Append(os, x)) /\ ~IsOn(os, x)
<1>1. PICK hs : hs = Append(gs, x)
  OBVIOUS
<1>2. PICK ps : ps = Append(os, x)
  OBVIOUS
<1>3. ~IsOn(os, x)
  BY DEF SameBlocks
<1>4. /\ gs \in Seq(DOMAIN ns) /\ os \in Seq(DOMAIN ns) /\ DOMAIN gs = 1..Len(gs) /\ Len(gs) \in Nat
      /\ DOMAIN os = 1..Len(os) /\ Len(os) \in Nat
  BY DEF Stacks
<1>5. /\ Len(hs) = Len(gs) + 1 /\ hs[Len(gs) + 1] = x /\ DOMAIN hs = 1..(Len(gs) + 1)
      /\ \A i \in 1..Len(gs) : hs[i] = gs[i]
  BY <1>1, <1>4
<1>6. /\ Len(ps) = Len(os) + 1 /\ ps[Len(os) + 1] = x /\ DOMAIN ps = 1..(Len(os) + 1)
      /\ \A i \in 1..Len(os) : ps[i] = os[i]
  BY <1>2, <1>4
<1>7. \A n : IsOn(hs, n) <=> IsOn(gs, n) \/ n = x
  BY <1>1, <1>4, Pushed
<1>8. \A n : IsOn(ps, n) <=> IsOn(os, n) \/ n = x
  BY <1>2, <1>3, <1>4, Pushed
<1>9. \A n \in DOMAIN ns : IsOn(ps, n) <=> IsOn(hs, n) /\ ns[n].kind # "branches"
  BY <1>7, <1>8 DEF SameBlocks
<1>10. ASSUME NEW i \in DOMAIN ps, NEW j \in DOMAIN ps, NEW k \in DOMAIN hs, NEW l \in DOMAIN hs,
              i < j, hs[k] = ps[i], hs[l] = ps[j]
       PROVE  k < l
  <2>1. i \in 1..Len(os) /\ i \in DOMAIN os /\ ps[i] = os[i] /\ os[i] # x
    BY <1>3, <1>4, <1>6, <1>10 DEF IsOn
  <2>2. k \in 1..Len(gs) /\ gs[k] = os[i]
    BY <1>4, <1>5, <1>10, <2>1
  <2>3. CASE j = Len(os) + 1
    <3>1. hs[l] = x
      BY <1>6, <1>10, <2>3
    <3>2. l \notin 1..Len(gs)
      BY <1>4, <1>5, <3>1 DEF IsOn
    <3> QED BY <1>4, <1>5, <2>2, <3>2
  <2>4. CASE j \in 1..Len(os)
    <3>1. ps[j] = os[j] /\ os[j] # x
      BY <1>3, <1>4, <1>6, <2>4 DEF IsOn
    <3>2. l \in DOMAIN gs /\ gs[l] = os[j]
      BY <1>4, <1>5, <1>10, <3>1
    <3> QED BY <1>4, <1>10, <2>1, <2>2, <2>4, <3>2 DEF SameBlocks
  <2> QED BY <1>4, <1>6, <2>3, <2>4
<1>11. SameBlocks(ns, hs, ps)
  BY <1>9, <1>10 DEF SameBlocks
<1> QED BY <1>1, <1>2, <1>3, <1>11

LEMMA LocalAdds ==
  ASSUME NEW ns, NEW ms, NEW gs, NEW os, NEW k, Tree(ns), Stacks(ns, gs, os), Faithful(ns, gs, os),
         Adds(ns, ms, Last(gs), os, k)
  PROVE  /\ Local(ms) /\ Climbs(ms, gs) /\ SameBlocks(ms, gs, os) /\ Stacks(ms, gs, os)
         /\ ms[Len(ns) + 1].within = Inside(ms, Last(gs)) /\ ~IsOn(gs, Len(ns) + 1)
<1> DEFINE N == Len(ns) + 1
<1>1. /\ Grows(ns, ms) /\ N \in DOMAIN ms /\ N \notin DOMAIN ns /\ DOMAIN ms = DOMAIN ns \cup {N}
  BY AddsGrows
<1>2. /\ \A n \in DOMAIN ns : /\ ms[n].within = ns[n].within
                              /\ ms[n].parent = ns[n].parent \/ (ns[n].kind = "task" /\ ms[n].parent = None)
      /\ ms[N].parent = Last(gs) /\ ms[N].within = Opened(os)
  BY DEF Adds
<1>3. gs \in Seq(DOMAIN ns) /\ Len(gs) >= 1 /\ Last(gs) \in DOMAIN ns
  BY DEF Stacks, Faithful, Climbs, Last
<1> HIDE DEF N
<1>4. ms[N].within = Inside(ms, Last(gs))
  BY <1>1, <1>2, <1>3, TopIsWhereTheAuthorIs, InsideGrows DEF Faithful
<1>5. Local(ms)
  <2>1. ASSUME NEW n \in DOMAIN ms, ms[n].parent # None PROVE ms[n].within = Inside(ms, ms[n].parent)
    <3>1. CASE n = N
      BY <1>2, <1>4, <3>1
    <3>2. CASE n \in DOMAIN ns
      <4>1. ms[n].parent = ns[n].parent /\ ns[n].parent \in DOMAIN ns
        BY <1>2, <2>1, <3>2 DEF Tree
      <4>2. ns[n].within = Inside(ns, ns[n].parent)
        BY <2>1, <3>2, <4>1 DEF Faithful, Local
      <4> QED BY <1>1, <1>2, <3>2, <4>1, <4>2, InsideGrows
    <3> QED BY <1>1, <3>1, <3>2
  <2> QED BY <2>1 DEF Local
<1>6. \A i \in DOMAIN gs : ms[gs[i]].parent = ns[gs[i]].parent
  BY <1>2, <1>3 DEF Stacks
<1>7. Climbs(ms, gs)
  BY <1>1, <1>3, <1>6, ClimbsGrow DEF Faithful
<1>8. SameBlocks(ms, gs, os) /\ Stacks(ms, gs, os)
  BY <1>1, StacksGrow, SameBlocksGrow DEF Faithful
<1>9. ~IsOn(gs, N)
  BY <1>1, <1>3 DEF IsOn
<1> QED BY <1>4, <1>5, <1>7, <1>8, <1>9 DEF N

LEMMA FaithfulTask ==
  ASSUME NEW ns, NEW ms, NEW gs, NEW os, Tree(ns), Stacks(ns, gs, os), Faithful(ns, gs, os),
         Adds(ns, ms, Last(gs), os, "task")
  PROVE  Faithful(ms, gs, os)
<1>1. Local(ms) /\ Climbs(ms, gs) /\ SameBlocks(ms, gs, os)
  BY LocalAdds
<1>a. ms[Len(ns) + 1].kind = "task"
  BY DEF Adds
<1>2. Grows(ns, ms) /\ DOMAIN ms = DOMAIN ns \cup {Len(ns) + 1} /\ ms[Len(ns) + 1].kind = "task"
  BY <1>a, AddsGrows
<1>3. \A i \in DOMAIN gs : gs[i] \in DOMAIN ns
  BY DEF Stacks
<1>4. ASSUME NEW i \in DOMAIN gs, ms[gs[i]].kind = "else" PROVE i # 1 /\ ms[gs[i - 1]].kind = "branches"
  <2>1. i # 1 /\ ns[gs[i - 1]].kind = "branches"
    BY <1>2, <1>3, <1>4 DEF Faithful, ElseOnTop, Grows
  <2>2. i - 1 \in DOMAIN gs
    BY <2>1 DEF Stacks
  <2> QED BY <1>2, <1>3, <2>1, <2>2 DEF Grows
<1>5. ASSUME NEW i \in DOMAIN gs, NEW c \in DOMAIN ms, IsElseOf(ms, c, gs[i])
      PROVE  i < Len(gs) /\ ms[gs[i + 1]].kind = "else"
  <2>1. c \in DOMAIN ns /\ ns[c].kind = "else" /\ ms[c].parent = ns[c].parent
    BY <1>2, <1>5 DEF IsElseOf, Grows
  <2>2. IsElseOf(ns, c, gs[i])
    BY <1>5, <2>1 DEF IsElseOf
  <2>3. i < Len(gs) /\ ns[gs[i + 1]].kind = "else"
    BY <2>1, <2>2 DEF Faithful, ElseOnTop
  <2>4. i + 1 \in DOMAIN gs
    BY <2>3 DEF Stacks
  <2> QED BY <1>2, <1>3, <2>3, <2>4 DEF Grows
<1> QED BY <1>1, <1>4, <1>5 DEF Faithful, ElseOnTop

LEMMA FaithfulEnters ==
  ASSUME NEW ns, NEW ms, NEW gs, NEW os, NEW k \in Block, Tree(ns), Tree(ms), Stacks(ns, gs, os),
         Faithful(ns, gs, os), Adds(ns, ms, Last(gs), os, k), MayBranch(ns, Last(gs), k)
  PROVE  Faithful(ms, Append(gs, Len(ns) + 1), Append(os, Len(ns) + 1))
<1> DEFINE N == Len(ns) + 1
           L == Len(gs)
<1>1. /\ Local(ms) /\ Climbs(ms, gs) /\ SameBlocks(ms, gs, os) /\ Stacks(ms, gs, os)
      /\ ms[N].within = Inside(ms, Last(gs)) /\ ~IsOn(gs, N)
  BY LocalAdds
<1>2. Grows(ns, ms) /\ N \notin DOMAIN ns /\ DOMAIN ms = DOMAIN ns \cup {N}
  BY AddsGrows
<1>3. ms[N].kind = k /\ ms[N].parent = Last(gs) /\ k # "branches"
  BY DEF Adds, Block, Condition
<1> HIDE DEF N
<1>4. PICK hs : hs = Append(gs, N)
  OBVIOUS
<1>5. Climbs(ms, hs)
  <2>1. gs \in Seq(DOMAIN ms)
    BY <1>1 DEF Stacks
  <2> QED BY <1>1, <1>2, <1>3, <1>4, <2>1, ClimbsPush
<1>6. SameBlocks(ms, hs, Append(os, N))
  BY <1>1, <1>2, <1>3, <1>4, SameBlocksPush
<1>7. /\ gs \in Seq(DOMAIN ns) /\ L \in Nat /\ L >= 1 /\ DOMAIN gs = 1..L /\ Last(gs) = gs[L] /\ L \in 1..L
      /\ \A i \in 1..L : gs[i] \in DOMAIN ns
  BY DEF Stacks, Faithful, Climbs, Last
<1>8. DOMAIN hs = 1..(L + 1) /\ Len(hs) = L + 1 /\ hs[L + 1] = N /\ \A i \in 1..L : hs[i] = gs[i]
  BY <1>4, <1>7
<1> HIDE DEF L
<1>9. ASSUME NEW i \in DOMAIN hs, ms[hs[i]].kind = "else" PROVE i # 1 /\ ms[hs[i - 1]].kind = "branches"
  <2>1. CASE i = L + 1
    <3>1. k = "else"
      BY <1>3, <1>8, <1>9, <2>1
    <3>2. ns[gs[L]].kind = "branches"
      BY <1>7, <3>1 DEF MayBranch
    <3>3. i # 1 /\ i - 1 = L
      BY <1>7, <2>1
    <3>4. ms[gs[L]].kind = "branches"
      BY <1>2, <1>7, <3>2 DEF Grows
    <3> QED BY <1>7, <1>8, <3>3, <3>4
  <2>2. CASE i \in 1..L
    <3>1. ns[gs[i]].kind = "else"
      BY <1>2, <1>7, <1>8, <1>9, <2>2 DEF Grows
    <3>2. i # 1 /\ ns[gs[i - 1]].kind = "branches"
      BY <1>7, <2>2, <3>1 DEF Faithful, ElseOnTop
    <3>3. i - 1 \in 1..L
      BY <1>7, <2>2, <3>2
    <3> QED BY <1>2, <1>7, <1>8, <3>2, <3>3 DEF Grows
  <2> QED BY <1>7, <1>8, <2>1, <2>2
<1>10. ASSUME NEW i \in DOMAIN hs, NEW c \in DOMAIN ms, IsElseOf(ms, c, hs[i])
       PROVE  i < Len(hs) /\ ms[hs[i + 1]].kind = "else"
  <2>1. ms[c].kind = "else" /\ ms[c].parent = hs[i]
    BY <1>10 DEF IsElseOf
  <2>2. CASE c = N
    <3>1. hs[i] = gs[L] /\ gs[L] \in DOMAIN ns
      BY <1>3, <1>7, <2>1, <2>2
    <3>2. i \in 1..L /\ gs[i] = gs[L]
      BY <1>2, <1>7, <1>8, <3>1
    <3>3. i = L
      BY <1>7, <3>2 DEF Stacks
    <3> QED BY <1>7, <1>8, <2>1, <2>2, <3>3
  <2>3. CASE c \in DOMAIN ns
    <3>1. ns[c].kind = "else" /\ ns[c].parent = hs[i] /\ ns[c].parent \in DOMAIN ns
      BY <1>2, <2>1, <2>3 DEF Grows, Tree
    <3>2. i \in 1..L /\ gs[i] = hs[i]
      BY <1>2, <1>7, <1>8, <3>1
    <3>3. i < L /\ ns[gs[i + 1]].kind = "else"
      <4>1. IsElseOf(ns, c, gs[i])
        BY <2>3, <3>1, <3>2 DEF IsElseOf
      <4> QED BY <1>7, <2>3, <3>2, <4>1 DEF Faithful, ElseOnTop, L
    <3>4. i + 1 \in 1..L
      BY <1>7, <3>2, <3>3
    <3>5. ms[gs[i + 1]].kind = "else"
      BY <1>2, <1>7, <3>3, <3>4 DEF Grows
    <3> QED BY <1>7, <1>8, <3>3, <3>4, <3>5
  <2> QED BY <1>2, <2>2, <2>3
<1>11. Faithful(ms, hs, Append(os, N))
  BY <1>1, <1>5, <1>6, <1>9, <1>10 DEF Faithful, ElseOnTop
<1> QED BY <1>4, <1>11 DEF N

LEMMA FaithfulWraps ==
  ASSUME NEW ns, NEW ms, NEW gs, NEW os, NEW l, NEW k \in {"elif", "else"}, Tree(ns), Tree(ms),
         Stacks(ns, gs, os), Faithful(ns, gs, os), Wraps(ns, ms, Last(gs), os, l, k)
  PROVE  Faithful(ms, Append(Append(gs, Len(ns) + 1), Len(ns) + 2), Append(os, Len(ns) + 2))
<1> DEFINE N == Len(ns) + 1
           M == Len(ns) + 2
           L == Len(gs)
<1>1. /\ Grows(ns, ms) /\ N \notin DOMAIN ns /\ M \notin DOMAIN ns /\ M # N /\ DOMAIN ms = DOMAIN ns \cup {N, M}
  BY WrapsGrows
<1>2. /\ l \in DOMAIN ns /\ ns[l].kind = "if" /\ ns[l].parent = Last(gs)
      /\ \A n \in DOMAIN ns : /\ ms[n].within = ns[n].within
                              /\ ms[n].parent = IF n = l THEN N ELSE ns[n].parent
      /\ ms[N].kind = "branches" /\ ms[N].parent = Last(gs) /\ ms[N].within = Opened(os)
      /\ ms[M].kind = k /\ ms[M].parent = N /\ ms[M].within = Opened(os)
  BY DEF Wraps
<1>3. /\ gs \in Seq(DOMAIN ns) /\ L \in Nat /\ L >= 1 /\ DOMAIN gs = 1..L /\ Last(gs) = gs[L] /\ L \in 1..L
      /\ \A i \in 1..L : gs[i] \in DOMAIN ns
  BY DEF Stacks, Faithful, Climbs, Last
<1> HIDE DEF N, M, L
<1>4. Inside(ns, Last(gs)) = Opened(os) /\ Inside(ms, Last(gs)) = Opened(os)
  BY <1>1, <1>3, TopIsWhereTheAuthorIs, InsideGrows DEF Faithful
<1>5. Inside(ms, N) = Opened(os)
  BY <1>2 DEF Inside, Block, Condition
<1>6. Local(ms)
  <2>1. ASSUME NEW n \in DOMAIN ms, ms[n].parent # None PROVE ms[n].within = Inside(ms, ms[n].parent)
    <3>1. CASE n = N \/ n = M
      BY <1>2, <1>4, <1>5, <3>1
    <3>2. CASE n \in DOMAIN ns /\ n # l
      <4>1. ms[n].parent = ns[n].parent /\ ns[n].parent \in DOMAIN ns
        BY <1>2, <2>1, <3>2 DEF Tree
      <4>2. ns[n].within = Inside(ns, ns[n].parent)
        BY <2>1, <3>2, <4>1 DEF Faithful, Local
      <4> QED BY <1>1, <1>2, <3>2, <4>1, <4>2, InsideGrows
    <3>3. CASE n = l
      <4>1. Last(gs) # None
        BY <1>3 DEF Tree, None
      <4>2. ns[l].within = Inside(ns, Last(gs))
        BY <1>2, <4>1 DEF Faithful, Local
      <4> QED BY <1>2, <1>4, <1>5, <3>3, <4>2
    <3> QED BY <1>1, <3>1, <3>2, <3>3
  <2> QED BY <2>1 DEF Local
<1>7. \A i \in DOMAIN gs : ms[gs[i]].parent = ns[gs[i]].parent
  <2>1. ASSUME NEW i \in DOMAIN gs, gs[i] = l PROVE FALSE
    <3>1. i # 1
      BY <1>2, <2>1 DEF Faithful, Climbs, Tree
    <3>2. gs[i - 1] = gs[L] /\ i - 1 \in DOMAIN gs /\ L \in DOMAIN gs
      BY <1>2, <1>3, <2>1, <3>1 DEF Faithful, Climbs
    <3>3. i - 1 = L
      BY <3>2 DEF Stacks
    <3> QED BY <1>3, <3>3
  <2> QED BY <1>2, <1>3, <2>1
<1>8. Climbs(ms, gs) /\ SameBlocks(ms, gs, os) /\ Stacks(ms, gs, os)
  BY <1>1, <1>3, <1>7, ClimbsGrow, StacksGrow, SameBlocksGrow DEF Faithful
<1>9. PICK w : w = Append(gs, N)
  OBVIOUS
<1>10. ~IsOn(gs, N) /\ ~IsOn(gs, M)
  BY <1>1, <1>3 DEF IsOn
<1>11. Climbs(ms, w) /\ SameBlocks(ms, w, os) /\ Stacks(ms, w, os)
  <2>1. gs \in Seq(DOMAIN ms)
    BY <1>8 DEF Stacks
  <2>2. Climbs(ms, w)
    BY <1>1, <1>2, <1>4, <1>8, <1>9, <1>10, <2>1, ClimbsPush
  <2> QED BY <1>1, <1>2, <1>8, <1>9, <1>10, <2>2, SameBlocksBranches, GroupPush
<1>12. /\ w \in Seq(DOMAIN ms) /\ Len(w) = L + 1 /\ DOMAIN w = 1..(L + 1) /\ w[L + 1] = N
       /\ \A i \in 1..L : w[i] = gs[i]
  BY <1>1, <1>3, <1>9, <1>11 DEF Stacks, L
<1>13. Last(w) = N /\ ~IsOn(w, M)
  BY <1>1, <1>3, <1>12 DEF Last, IsOn
<1>14. PICK hs : hs = Append(w, M)
  OBVIOUS
<1>15. Climbs(ms, hs) /\ SameBlocks(ms, hs, Append(os, M))
  <2>1. ms[M].kind # "branches"
    BY <1>2
  <2>2. ms[M].within = Inside(ms, Last(w)) /\ ms[M].parent = Last(w)
    BY <1>2, <1>5, <1>13
  <2> QED BY <1>1, <1>11, <1>12, <1>13, <1>14, <2>1, <2>2, ClimbsPush, SameBlocksPush
<1>16. /\ DOMAIN hs = 1..(L + 2) /\ Len(hs) = L + 2 /\ hs[L + 1] = N /\ hs[L + 2] = M
       /\ \A i \in 1..L : hs[i] = gs[i]
  BY <1>3, <1>12, <1>14
<1>17. ASSUME NEW i \in DOMAIN hs, ms[hs[i]].kind = "else" PROVE i # 1 /\ ms[hs[i - 1]].kind = "branches"
  <2>1. CASE i = L + 2
    <3>1. i # 1 /\ i - 1 = L + 1
      BY <1>3, <2>1
    <3> QED BY <1>2, <1>16, <3>1
  <2>2. CASE i \in 1..L
    <3>1. ns[gs[i]].kind = "else"
      BY <1>1, <1>3, <1>16, <1>17, <2>2 DEF Grows
    <3>2. i # 1 /\ ns[gs[i - 1]].kind = "branches"
      BY <1>3, <2>2, <3>1 DEF Faithful, ElseOnTop
    <3>3. i - 1 \in 1..L
      BY <1>3, <2>2, <3>2
    <3> QED BY <1>1, <1>3, <1>16, <3>2, <3>3 DEF Grows
  <2>3. i # L + 1
    BY <1>2, <1>16, <1>17
  <2> QED BY <1>3, <1>16, <2>1, <2>2, <2>3
<1>18. ASSUME NEW i \in DOMAIN hs, NEW c \in DOMAIN ms, IsElseOf(ms, c, hs[i])
       PROVE  i < Len(hs) /\ ms[hs[i + 1]].kind = "else"
  <2>1. ms[c].kind = "else" /\ ms[c].parent = hs[i]
    BY <1>18 DEF IsElseOf
  <2>2. CASE c = M
    <3>1. i = L + 1
      BY <1>1, <1>2, <1>3, <1>16, <2>1, <2>2
    <3>2. L + 1 < L + 2 /\ L + 1 + 1 = L + 2
      BY <1>3
    <3> QED BY <1>16, <2>1, <2>2, <3>1, <3>2
  <2>3. CASE c \in DOMAIN ns
    <3>1. ns[c].kind = "else" /\ ns[c].parent = hs[i] /\ ns[c].parent \in DOMAIN ns
      BY <1>1, <2>1, <2>3 DEF Grows, Tree
    <3>2. i \in 1..L /\ gs[i] = hs[i]
      BY <1>1, <1>3, <1>16, <3>1
    <3>3. i < L /\ ns[gs[i + 1]].kind = "else"
      <4>1. IsElseOf(ns, c, gs[i])
        BY <2>3, <3>1, <3>2 DEF IsElseOf
      <4> QED BY <1>3, <2>3, <3>2, <4>1 DEF Faithful, ElseOnTop, L
    <3>4. i + 1 \in 1..L
      BY <1>3, <3>2, <3>3
    <3>5. ms[gs[i + 1]].kind = "else"
      BY <1>1, <1>3, <3>3, <3>4 DEF Grows
    <3> QED BY <1>3, <1>16, <3>3, <3>4, <3>5
  <2>4. c # N
    BY <1>2, <2>1
  <2> QED BY <1>1, <2>2, <2>3, <2>4
<1>19. Faithful(ms, hs, Append(os, M))
  BY <1>6, <1>15, <1>17, <1>18 DEF Faithful, ElseOnTop
<1> QED BY <1>9, <1>14, <1>19 DEF N, M

(* What is left on a stack when its last m are popped. *)
LEMMA LeftOn ==
  ASSUME NEW D, NEW s \in Seq(D), Distinct(s), NEW m \in 0..Len(s), NEW n
  PROVE  IsOn(SubSeq(s, 1, m), n) <=> IsOn(s, n) /\ \A i \in (m + 1)..Len(s) : s[i] # n
<1>1. PICK t : t = SubSeq(s, 1, m)
  OBVIOUS
<1>2. /\ Len(t) = m /\ DOMAIN t = 1..m /\ DOMAIN s = 1..Len(s) /\ Len(s) \in Nat /\ m \in Nat /\ m <= Len(s)
      /\ \A i \in 1..m : t[i] = s[i]
  BY <1>1
<1>3. ASSUME IsOn(t, n) PROVE IsOn(s, n) /\ \A i \in (m + 1)..Len(s) : s[i] # n
  <2>1. PICK j \in 1..m : s[j] = n
    BY <1>2, <1>3 DEF IsOn
  <2>2. ASSUME NEW i \in (m + 1)..Len(s), s[i] = n PROVE FALSE
    <3>1. i \in DOMAIN s /\ j \in DOMAIN s /\ i # j
      BY <1>2
    <3> QED BY <2>1, <2>2, <3>1 DEF Distinct
  <2> QED BY <1>2, <2>1, <2>2 DEF IsOn
<1>4. ASSUME IsOn(s, n), \A i \in (m + 1)..Len(s) : s[i] # n PROVE IsOn(t, n)
  <2>1. PICK j \in DOMAIN s : s[j] = n
    BY <1>4 DEF IsOn
  <2>2. j \in 1..m
    BY <1>2, <1>4, <2>1
  <2> QED BY <1>2, <2>1, <2>2 DEF IsOn
<1> QED BY <1>1, <1>3, <1>4

(* If no group of branches is lost by it, what is popped is the author's    *)
(* innermost block.                                                         *)
LEMMA TopIsInnermost ==
  ASSUME NEW ns, NEW gs, NEW os, Tree(ns), Stacks(ns, gs, os), Faithful(ns, gs, os), Len(os) > 1,
         NEW m \in 0..(Len(gs) - 1), ~Doomed(ns, SubSeq(gs, 1, m))
  PROVE  gs[Len(gs)] = os[Len(os)]
<1> DEFINE L == Len(gs)
           K == Len(os)
<1>1. /\ gs \in Seq(DOMAIN ns) /\ L \in Nat /\ L >= 1 /\ DOMAIN gs = 1..L /\ L \in DOMAIN gs /\ gs[L] \in DOMAIN ns
      /\ os \in Seq(DOMAIN ns) /\ K \in Nat /\ K > 1 /\ DOMAIN os = 1..K /\ K \in DOMAIN os /\ os[K] \in DOMAIN ns
      /\ Distinct(gs) /\ m \in 0..L /\ L \in (m + 1)..L
  BY DEF Stacks, Faithful, Climbs, Distinct
<1>2. ns[gs[L]].kind # "branches"
  <2>1. SUFFICES ASSUME ns[gs[L]].kind = "branches" PROVE FALSE
    OBVIOUS
  <2>2. ~IsOn(SubSeq(gs, 1, m), gs[L])
    BY <1>1, LeftOn
  <2>3. \A c \in DOMAIN ns : ~IsElseOf(ns, c, gs[L])
    BY <1>1 DEF Faithful, ElseOnTop
  <2> QED BY <1>1, <2>1, <2>2, <2>3 DEF Doomed
<1>3. PICK i \in DOMAIN os : os[i] = gs[L]
  BY <1>1, <1>2 DEF Faithful, SameBlocks, IsOn
<1>4. PICK j \in DOMAIN gs : gs[j] = os[K]
  BY <1>1 DEF Faithful, SameBlocks, IsOn
<1> HIDE DEF L, K
<1>5. i < K => L < j
  BY <1>1, <1>3, <1>4 DEF Faithful, SameBlocks
<1>6. i = K
  BY <1>1, <1>3, <1>4, <1>5
<1> QED BY <1>3, <1>6 DEF L, K

LEMMA FaithfulPops ==
  ASSUME NEW ns, NEW gs, NEW os, Tree(ns), Stacks(ns, gs, os), Faithful(ns, gs, os), Len(os) > 1,
         NEW m \in Nat, ns[os[Len(os)]].kind = "else" => m + 2 = Len(gs),
         ns[os[Len(os)]].kind # "else" => m + 1 = Len(gs), ~Doomed(ns, SubSeq(gs, 1, m))
  PROVE  Faithful(ns, SubSeq(gs, 1, m), SubSeq(os, 1, Len(os) - 1))
<1> DEFINE L == Len(gs)
           K == Len(os)
<1>1. /\ gs \in Seq(DOMAIN ns) /\ L \in Nat /\ L >= 1 /\ DOMAIN gs = 1..L /\ L \in DOMAIN gs /\ gs[L] \in DOMAIN ns
      /\ os \in Seq(DOMAIN ns) /\ K \in Nat /\ K > 1 /\ DOMAIN os = 1..K /\ K \in DOMAIN os /\ os[K] \in DOMAIN ns
      /\ Distinct(gs) /\ Distinct(os) /\ \A i \in 1..L : gs[i] \in DOMAIN ns
  BY DEF Stacks, Faithful, Climbs, Distinct
<1>k. /\ ns[os[K]].kind = "else" => m + 2 = L
      /\ ns[os[K]].kind # "else" => m + 1 = L
  OBVIOUS
<1> HIDE DEF L, K
<1>m. m \in 0..(L - 1) /\ m \in 0..L /\ m < L
  BY <1>1, <1>k
<1>2. gs[L] = os[K]
  BY <1>1, <1>m, TopIsInnermost DEF L, K
<1>3. ns[os[K]].kind \in Block
  BY <1>1 DEF Stacks
<1>4. /\ m \in Nat /\ m >= 1 /\ m < L /\ m \in 1..L
      /\ \A i \in (m + 1)..L : i = L \/ (i = L - 1 /\ ns[gs[i]].kind = "branches" /\ ns[os[K]].kind = "else")
      /\ ns[os[K]].kind # "else" => m + 1 = L
      /\ ns[os[K]].kind = "else" => m + 2 = L /\ m + 1 \in 1..L /\ ns[gs[m + 1]].kind = "branches"
  <2>1. "pipeline" \notin Block
    BY DEF Block, Condition
  <2>2. L # 1
    BY <1>2, <1>3, <2>1 DEF Faithful, Climbs, Tree
  <2>3. CASE ns[os[K]].kind # "else"
    <3>1. m + 1 = L
      BY <1>k, <2>3
    <3> QED BY <1>1, <2>2, <2>3, <3>1
  <2>4. CASE ns[os[K]].kind = "else"
    <3>1. m + 2 = L /\ m + 1 = L - 1 /\ L - 1 \in 1..L
      BY <1>1, <1>k, <2>2, <2>4
    <3>2. ns[gs[L - 1]].kind = "branches"
      BY <1>1, <1>2, <2>4 DEF Faithful, ElseOnTop
    <3>3. L - 1 # 1
      BY <3>2 DEF Faithful, Climbs, Tree
    <3>4. m >= 1
      BY <1>1, <3>1, <3>3
    <3> QED BY <1>1, <2>4, <3>2, <3>4
  <2> QED BY <2>3, <2>4
<1>5. PICK hs : hs = SubSeq(gs, 1, m)
  OBVIOUS
<1>6. PICK ps : ps = SubSeq(os, 1, K - 1)
  OBVIOUS
<1>7. /\ Len(hs) = m /\ DOMAIN hs = 1..m /\ \A i \in 1..m : hs[i] = gs[i] /\ gs[i] \in DOMAIN ns
  <2>1. hs \in Seq(DOMAIN ns) /\ Len(hs) = m /\ \A i \in 1..m : hs[i] = gs[i]
    <3>1. m \in 0..Len(gs)
      BY <1>m DEF L
    <3> QED BY <1>1, <1>5, <3>1, Popped
  <2>2. \A i \in 1..m : i \in 1..L
    BY <1>1, <1>4
  <2>3. \A i \in 1..m : gs[i] \in DOMAIN ns
    BY <1>1, <2>2
  <2>4. DOMAIN hs = 1..m
    BY <2>1
  <2> QED BY <2>1, <2>3, <2>4
<1>8. /\ Len(ps) = K - 1 /\ DOMAIN ps = 1..(K - 1) /\ \A i \in 1..(K - 1) : ps[i] = os[i]
  BY <1>1, <1>6 DEF K
<1>9. Local(ns) /\ Climbs(ns, hs)
  BY <1>1, <1>4, <1>5, ClimbsPop DEF Faithful, L
<1>10. ASSUME NEW n \in DOMAIN ns PROVE IsOn(ps, n) <=> IsOn(hs, n) /\ ns[n].kind # "branches"
  <2>1. IsOn(hs, n) <=> IsOn(gs, n) /\ \A i \in (m + 1)..L : gs[i] # n
    BY <1>1, <1>5, <1>m, LeftOn DEF L
  <2>2. IsOn(ps, n) <=> IsOn(os, n) /\ os[K] # n
    <3>1. K - 1 \in 0..K /\ (K - 1 + 1)..K = {K}
      BY <1>1
    <3>2. IsOn(ps, n) <=> IsOn(os, n) /\ \A i \in (K - 1 + 1)..K : os[i] # n
      BY <1>1, <1>6, <3>1, LeftOn DEF K
    <3> QED BY <3>1, <3>2
  <2>3. IsOn(os, n) <=> IsOn(gs, n) /\ ns[n].kind # "branches"
    BY DEF Faithful, SameBlocks
  <2>4. ns[n].kind # "branches" => ((\A i \in (m + 1)..L : gs[i] # n) <=> os[K] # n)
    <3>1. L \in (m + 1)..L
      BY <1>1, <1>4
    <3>2. \A i \in (m + 1)..L : i = L \/ ns[gs[i]].kind = "branches"
      BY <1>4
    <3> QED BY <1>2, <3>1, <3>2
  <2> QED BY <2>1, <2>2, <2>3, <2>4
<1>11. \A i, j \in DOMAIN ps : \A k, l \in DOMAIN hs : i < j /\ hs[k] = ps[i] /\ hs[l] = ps[j] => k < l
  <2>1. \A i \in DOMAIN ps : i \in DOMAIN os /\ ps[i] = os[i]
    BY <1>1, <1>8
  <2>2. \A i \in DOMAIN hs : i \in DOMAIN gs /\ hs[i] = gs[i]
    BY <1>1, <1>4, <1>7
  <2> QED BY <2>1, <2>2 DEF Faithful, SameBlocks
<1>12. ASSUME NEW i \in DOMAIN hs, ns[hs[i]].kind = "else" PROVE i # 1 /\ ns[hs[i - 1]].kind = "branches"
  <2>1. i \in DOMAIN gs /\ ns[gs[i]].kind = "else"
    BY <1>1, <1>4, <1>7, <1>12
  <2>2. i # 1 /\ ns[gs[i - 1]].kind = "branches"
    BY <2>1 DEF Faithful, ElseOnTop
  <2>3. i - 1 \in 1..m
    BY <1>4, <1>7, <2>2
  <2> QED BY <1>7, <2>2, <2>3
<1>13. ASSUME NEW i \in DOMAIN hs, NEW c \in DOMAIN ns, IsElseOf(ns, c, hs[i])
       PROVE  i < Len(hs) /\ ns[hs[i + 1]].kind = "else"
  <2>1. i \in DOMAIN gs /\ gs[i] = hs[i] /\ i \in 1..m /\ i + 1 \in 1..L
    BY <1>1, <1>4, <1>7
  <2>2. ns[gs[i + 1]].kind = "else"
    BY <1>13, <2>1 DEF Faithful, ElseOnTop
  <2>3. i # m
    <3>1. SUFFICES ASSUME i = m PROVE FALSE
      OBVIOUS
    <3>2. ns[gs[m + 1]].kind = "else"
      BY <2>2, <3>1
    <3> QED BY <1>2, <1>4, <3>2
  <2>4. i < m /\ i + 1 \in 1..m
    BY <1>4, <2>1, <2>3
  <2> QED BY <1>7, <2>2, <2>4
<1>14. Faithful(ns, hs, ps)
  BY <1>9, <1>10, <1>11, <1>12, <1>13 DEF Faithful, ElseOnTop, SameBlocks
<1> QED BY <1>5, <1>6, <1>14 DEF K

-----------------------------------------------------------------------------
(* The invariant. *)

LEMMA InvHolds ==
  ASSUME IInv
  PROVE  /\ Tree(nodes) /\ Ranked(nodes) /\ Stacks(nodes, groups, open) /\ Deep(nodes, groups, open)
         /\ Doomed(nodes, groups) \/ Faithful(nodes, groups, open)
         /\ Node = DOMAIN nodes /\ open \in Seq(Node) /\ groups \in Seq(Node) /\ DOMAIN groups = 1..Len(groups)
         /\ Len(groups) \in Nat /\ Len(groups) >= 1 /\ Len(open) \in Nat /\ Len(open) >= 1
         /\ Cardinality(Unended(nodes, open)) \in Nat
         /\ Len(groups) >= Len(open) + Cardinality(Unended(nodes, open))
         /\ Top = Last(groups) /\ Top \in Node /\ nodes[Top].kind # "task" /\ IsOn(groups, Top)
<1>1. /\ Tree(nodes) /\ Ranked(nodes) /\ Stacks(nodes, groups, open) /\ Deep(nodes, groups, open)
      /\ Doomed(nodes, groups) \/ Faithful(nodes, groups, open)
  BY DEF IInv, Sound
<1>2. /\ Node = DOMAIN nodes /\ open \in Seq(Node) /\ groups \in Seq(Node) /\ DOMAIN groups = 1..Len(groups)
      /\ Len(groups) \in Nat /\ Len(open) \in Nat /\ Len(open) >= 1
  BY <1>1 DEF Stacks, Node
<1>3. Cardinality(Unended(nodes, open)) \in Nat
  BY <1>1, UnendedIsFinite
<1>4. Len(groups) >= Len(open) + Cardinality(Unended(nodes, open)) /\ Len(groups) >= 1
  BY <1>1, <1>2, <1>3 DEF Deep
<1>5. Top = Last(groups) /\ Len(groups) \in DOMAIN groups /\ Top \in Node
  BY <1>2, <1>4 DEF Top, Last
<1>6. nodes[Top].kind # "task" /\ IsOn(groups, Top)
  BY <1>1, <1>5 DEF Stacks, Top, IsOn
<1> QED BY <1>1, <1>2, <1>3, <1>4, <1>5, <1>6

LEMMA InitIsSound == Init => IInv
<1> SUFFICES ASSUME Init PROVE IInv
  OBVIOUS
<1>1. PICK x : x = [kind |-> "pipeline", parent |-> None, reads |-> {}, after |-> {}, within |-> {}]
  OBVIOUS
<1>2. x \in NodeType /\ x.kind = "pipeline" /\ x.parent = None /\ x.within = {}
  BY <1>1 DEF NodeType, Kinds, None
<1>3. /\ nodes = <<x>> /\ nodes \in Seq(NodeType) /\ DOMAIN nodes = {1} /\ nodes[1] = x /\ Len(nodes) = 1
      /\ groups = <<1>> /\ open = <<1>>
  BY <1>1, <1>2 DEF Init
<1>4. /\ groups \in Seq({1}) /\ DOMAIN groups = {1} /\ groups[1] = 1 /\ Len(groups) = 1
      /\ open \in Seq({1}) /\ DOMAIN open = {1} /\ open[1] = 1 /\ Len(open) = 1
  BY <1>3
<1>5. Tree(nodes)
  BY <1>2, <1>3 DEF Tree
<1>6. Ranked(nodes)
  <2>1. Ranks(nodes, 0, [n \in {1} |-> 0])
    BY <1>2, <1>3 DEF Ranks
  <2> QED BY <2>1 DEF Ranked
<1>7. Stacks(nodes, groups, open)
  BY <1>2, <1>3, <1>4 DEF Stacks
<1>8. Deep(nodes, groups, open)
  <2>1. Unended(nodes, open) = {}
    BY <1>2, <1>3 DEF Unended
  <2> QED BY <1>4, <2>1, FS_EmptySet DEF Deep
<1>9. Faithful(nodes, groups, open)
  <2>1. Local(nodes)
    BY <1>2, <1>3 DEF Local
  <2>2. Inside(nodes, 1) = {} /\ "pipeline" \notin Block
    BY <1>2, <1>3 DEF Inside, Block, Condition
  <2>3. Climbs(nodes, groups)
    BY <1>2, <1>3, <1>4, <2>2 DEF Climbs
  <2>4. ElseOnTop(nodes, groups)
    BY <1>2, <1>3, <1>4 DEF ElseOnTop, IsElseOf
  <2>5. SameBlocks(nodes, groups, open)
    BY <1>2, <1>3, <1>4 DEF SameBlocks, IsOn
  <2> QED BY <2>1, <2>3, <2>4, <2>5 DEF Faithful
<1> QED BY <1>5, <1>6, <1>7, <1>8, <1>9 DEF IInv, Sound

LEMMA TaskIsSound ==
  ASSUME IInv, add_task
  PROVE  IInv'
<1>1. /\ Tree(nodes) /\ Ranked(nodes) /\ Stacks(nodes, groups, open)
      /\ Doomed(nodes, groups) \/ Faithful(nodes, groups, open)
      /\ open \in Seq(Node) /\ Top \in DOMAIN nodes /\ Top = Last(groups) /\ nodes[Top].kind # "task"
      /\ Cardinality(Unended(nodes, open)) \in Nat /\ Len(groups) \in Nat /\ Len(open) \in Nat
      /\ Len(groups) >= Len(open) + Cardinality(Unended(nodes, open))
  BY InvHolds DEF Node
<1>2. Adds(nodes, nodes', Top, open, "task") /\ groups' = groups /\ open' = open
  BY <1>1, TaskStep DEF Node
<1>3. PICK ms : ms = nodes'
  OBVIOUS
<1>4. PICK top : top = Top
  OBVIOUS
<1>5. Adds(nodes, ms, top, open, "task") /\ MayBranch(nodes, top, "task")
  BY <1>2, <1>3, <1>4 DEF MayBranch
<1>6. Tree(ms) /\ Ranked(ms)
  BY <1>1, <1>4, <1>5, TreeAdds, RankedAdds
<1>7. Grows(nodes, ms) /\ DOMAIN ms = DOMAIN nodes \cup {Len(nodes) + 1}
  BY <1>1, <1>5, AddsGrows
<1>8. ms[Len(nodes) + 1].kind = "task" /\ \A c \in DOMAIN nodes : ms[c].kind = "else" => ms[c].parent = nodes[c].parent
  BY <1>5 DEF Adds
<1>9. Stacks(ms, groups, open)
  BY <1>1, <1>7, StacksGrow
<1>10. Deep(ms, groups, open)
  <2>1. Cardinality(Unended(ms, open)) <= Cardinality(Unended(nodes, open)) + Cardinality({})
    BY <1>1, <1>6, <1>7, <1>8, DeepGrows, FS_EmptySet
  <2>2. Cardinality(Unended(ms, open)) \in Nat
    BY <1>6, UnendedIsFinite
  <2> QED BY <1>1, <2>1, <2>2, FS_EmptySet DEF Deep
<1>11. Doomed(ms, groups) \/ Faithful(ms, groups, open)
  <2>1. CASE Doomed(nodes, groups)
    BY <1>7, <1>8, <2>1, DoomedStays
  <2>2. CASE Faithful(nodes, groups, open)
    BY <1>1, <1>4, <1>5, <2>2, FaithfulTask
  <2> QED BY <1>1, <2>1, <2>2
<1>12. Sound(nodes', groups', open')
  BY <1>2, <1>3, <1>6, <1>9, <1>10, <1>11 DEF Sound
<1> QED BY <1>12 DEF IInv

LEMMA EnteringIsSound ==
  ASSUME IInv, NEW k \in Block, Enters(k)
  PROVE  IInv'
<1>1. /\ Tree(nodes) /\ Ranked(nodes) /\ Stacks(nodes, groups, open)
      /\ Doomed(nodes, groups) \/ Faithful(nodes, groups, open)
      /\ IsOn(groups, Top)
      /\ open \in Seq(Node) /\ Top \in DOMAIN nodes /\ Top = Last(groups) /\ nodes[Top].kind # "task"
      /\ Cardinality(Unended(nodes, open)) \in Nat /\ Len(groups) \in Nat /\ Len(open) \in Nat
      /\ Len(groups) >= Len(open) + Cardinality(Unended(nodes, open))
      /\ groups \in Seq(DOMAIN nodes) /\ open \in Seq(DOMAIN nodes)
  BY InvHolds DEF Node
<1>2. PICK ms : ms = nodes'
  OBVIOUS
<1>3. PICK top : top = Top
  OBVIOUS
<1>4. PICK x : x = Len(nodes) + 1
  OBVIOUS
<1>5. PICK hs : hs = Append(groups, x)
  OBVIOUS
<1>6. PICK ps : ps = Append(open, x)
  OBVIOUS
<1>7. Adds(nodes, ms, top, open, k) /\ MayBranch(nodes, top, k) /\ groups' = hs /\ open' = ps
  BY <1>2, <1>3, <1>4, <1>5, <1>6 DEF Enters
<1>8. Tree(ms) /\ Ranked(ms)
  BY <1>1, <1>3, <1>7, TreeAdds, RankedAdds
<1>9. Grows(nodes, ms) /\ DOMAIN ms = DOMAIN nodes \cup {x} /\ x \notin DOMAIN nodes /\ x \in DOMAIN ms
  BY <1>1, <1>4, <1>7, AddsGrows
<1>10. /\ ms[x].kind = k /\ ms[x].parent = top /\ k \notin {"branches", "task"}
       /\ \A c \in DOMAIN nodes : ms[c].kind = "else" => ms[c].parent = nodes[c].parent
  BY <1>4, <1>7 DEF Adds, Block, Condition
<1>11. ~IsOn(groups, x) /\ ~IsOn(open, x)
  BY <1>1, <1>9 DEF IsOn
<1>12. Stacks(ms, hs, ps)
  <2>1. Stacks(ms, groups, open)
    BY <1>1, <1>9, StacksGrow
  <2>2. Stacks(ms, hs, open)
    BY <1>5, <1>9, <1>10, <1>11, <2>1, GroupPush
  <2> QED BY <1>6, <1>9, <1>10, <1>11, <2>2, BlockPush
<1>13. /\ Len(hs) = Len(groups) + 1 /\ Len(ps) = Len(open) + 1
       /\ \A n \in DOMAIN nodes : (IsOn(hs, n) => IsOn(groups, n)) /\ (IsOn(ps, n) => IsOn(open, n))
  <2>1. groups \in Seq(DOMAIN ms) /\ open \in Seq(DOMAIN ms)
    BY <1>1, <1>9
  <2>2. Len(hs) = Len(groups) + 1 /\ \A n : IsOn(hs, n) <=> IsOn(groups, n) \/ n = x
    BY <1>5, <1>9, <1>11, <2>1, Pushed
  <2>3. Len(ps) = Len(open) + 1 /\ \A n : IsOn(ps, n) <=> IsOn(open, n) \/ n = x
    BY <1>6, <1>9, <1>11, <2>1, Pushed
  <2> QED BY <1>9, <2>2, <2>3
<1>14. Deep(ms, hs, ps)
  <2>1. Cardinality(Unended(ms, ps)) <= Cardinality(Unended(nodes, open)) + Cardinality({})
    BY <1>1, <1>8, <1>9, <1>10, <1>13, DeepGrows, FS_EmptySet
  <2>2. Cardinality(Unended(ms, ps)) \in Nat
    BY <1>8, UnendedIsFinite
  <2> QED BY <1>1, <1>13, <2>1, <2>2, FS_EmptySet DEF Deep
<1>15. Doomed(ms, hs) \/ Faithful(ms, hs, ps)
  <2>1. CASE Doomed(nodes, groups)
    BY <1>1, <1>3, <1>9, <1>10, <1>13, <2>1, DoomedStays
  <2>2. CASE Faithful(nodes, groups, open)
    BY <1>1, <1>3, <1>4, <1>5, <1>6, <1>7, <1>8, <2>2, FaithfulEnters
  <2> QED BY <1>1, <2>1, <2>2
<1>16. Sound(nodes', groups', open')
  BY <1>2, <1>7, <1>8, <1>12, <1>14, <1>15 DEF Sound
<1> QED BY <1>16 DEF IInv

LEMMA WrappingIsSound ==
  ASSUME IInv, NEW k \in {"elif", "else"}, NEW l, WrapsIf(l, k)
  PROVE  IInv'
<1>1. /\ Tree(nodes) /\ Ranked(nodes) /\ Stacks(nodes, groups, open)
      /\ Doomed(nodes, groups) \/ Faithful(nodes, groups, open)
      /\ IsOn(groups, Top)
      /\ open \in Seq(Node) /\ Top \in DOMAIN nodes /\ Top = Last(groups) /\ nodes[Top].kind # "task"
      /\ Cardinality(Unended(nodes, open)) \in Nat /\ Len(groups) \in Nat /\ Len(open) \in Nat
      /\ Len(groups) >= Len(open) + Cardinality(Unended(nodes, open))
      /\ groups \in Seq(DOMAIN nodes) /\ open \in Seq(DOMAIN nodes)
  BY InvHolds DEF Node
<1>2. PICK ms : ms = nodes'
  OBVIOUS
<1>3. PICK top : top = Top
  OBVIOUS
<1>4. PICK x, y : x = Len(nodes) + 1 /\ y = Len(nodes) + 2
  OBVIOUS
<1>5. PICK w : w = Append(groups, x)
  OBVIOUS
<1>6. PICK hs : hs = Append(w, y)
  OBVIOUS
<1>7. PICK ps : ps = Append(open, y)
  OBVIOUS
<1>8. Wraps(nodes, ms, top, open, l, k) /\ groups' = hs /\ open' = ps
  <2>1. groups \o <<x, y>> = Append(Append(groups, x), y)
    BY <1>1
  <2> QED BY <1>2, <1>3, <1>4, <1>5, <1>6, <1>7, <2>1 DEF WrapsIf
<1>9. Tree(ms) /\ Ranked(ms)
  BY <1>1, <1>3, <1>8, TreeWraps, RankedWraps
<1>10. /\ Grows(nodes, ms) /\ DOMAIN ms = DOMAIN nodes \cup {x, y} /\ x # y /\ x \notin DOMAIN nodes
       /\ y \notin DOMAIN nodes
  BY <1>1, <1>4, <1>8, WrapsGrows
<1>11. /\ ms[x].kind = "branches" /\ ms[x].parent = top /\ ms[y].kind = k /\ ms[y].parent = x
       /\ k \notin {"branches", "task"} /\ k \in Block
       /\ \A c \in DOMAIN nodes : ms[c].kind = "else" => ms[c].parent = nodes[c].parent
  BY <1>4, <1>8 DEF Wraps, Block, Condition
<1>12. ~IsOn(groups, x) /\ ~IsOn(groups, y) /\ ~IsOn(open, y)
  BY <1>1, <1>10 DEF IsOn
<1>13. /\ w \in Seq(DOMAIN ms) /\ Len(w) = Len(groups) + 1 /\ \A n : IsOn(w, n) <=> IsOn(groups, n) \/ n = x
  <2>1. groups \in Seq(DOMAIN ms)
    BY <1>1, <1>10
  <2> QED BY <1>5, <1>10, <1>12, <2>1, Pushed
<1>14. ~IsOn(w, y)
  BY <1>10, <1>12, <1>13
<1>15. /\ Len(hs) = Len(groups) + 2 /\ \A n : IsOn(hs, n) <=> IsOn(groups, n) \/ n = x \/ n = y
  <2>1. Len(hs) = Len(w) + 1 /\ \A n : IsOn(hs, n) <=> IsOn(w, n) \/ n = y
    BY <1>6, <1>10, <1>13, <1>14, Pushed
  <2> QED BY <1>1, <1>13, <2>1
<1>16. Len(ps) = Len(open) + 1 /\ \A n : IsOn(ps, n) <=> IsOn(open, n) \/ n = y
  <2>1. open \in Seq(DOMAIN ms)
    BY <1>1, <1>10
  <2> QED BY <1>7, <1>10, <1>12, <2>1, Pushed
<1>17. Stacks(ms, hs, ps)
  <2>1. Stacks(ms, groups, open)
    BY <1>1, <1>10, StacksGrow
  <2>2. Stacks(ms, w, open)
    BY <1>5, <1>10, <1>11, <1>12, <2>1, GroupPush
  <2>3. Stacks(ms, hs, open)
    BY <1>6, <1>10, <1>11, <1>14, <2>2, GroupPush
  <2> QED BY <1>7, <1>10, <1>11, <1>12, <2>3, BlockPush
<1>18. Deep(ms, hs, ps)
  <2>1. {x} \in SUBSET DOMAIN ms /\ IsFiniteSet({x}) /\ Cardinality({x}) = 1
    BY <1>10, FS_Singleton
  <2>2. Cardinality(Unended(ms, ps)) <= Cardinality(Unended(nodes, open)) + Cardinality({x})
    <3>1. \A c \in DOMAIN nodes : IsOn(ps, c) => IsOn(open, c)
      BY <1>10, <1>16
    <3>2. \A v \in DOMAIN ms : v \notin DOMAIN nodes /\ ms[v].kind = "branches" => v \in {x}
      BY <1>10, <1>11
    <3> QED BY <1>1, <1>9, <1>10, <2>1, <3>1, <3>2, DeepGrows
  <2>3. Cardinality(Unended(ms, ps)) \in Nat
    BY <1>9, UnendedIsFinite
  <2> QED BY <1>1, <1>15, <1>16, <2>1, <2>2, <2>3 DEF Deep
<1>19. Doomed(ms, hs) \/ Faithful(ms, hs, ps)
  <2>1. CASE Doomed(nodes, groups)
    <3>1. \A n \in DOMAIN nodes : IsOn(hs, n) => IsOn(groups, n)
      BY <1>10, <1>15
    <3>2. \A c \in DOMAIN ms : c \notin DOMAIN nodes /\ ms[c].kind = "else" =>
            ms[c].parent \notin DOMAIN nodes \/ IsOn(groups, ms[c].parent)
      BY <1>10, <1>11
    <3> QED BY <1>10, <1>11, <2>1, <3>1, <3>2, DoomedStays
  <2>2. CASE Faithful(nodes, groups, open)
    BY <1>1, <1>3, <1>4, <1>5, <1>6, <1>7, <1>8, <1>9, <2>2, FaithfulWraps
  <2> QED BY <1>1, <2>1, <2>2
<1>20. Sound(nodes', groups', open')
  BY <1>2, <1>8, <1>9, <1>17, <1>18, <1>19 DEF Sound
<1> QED BY <1>20 DEF IInv

LEMMA LeavingIsSound ==
  ASSUME IInv, Exit
  PROVE  IInv'
<1> DEFINE K == Len(open)
           L == Len(groups)
           m == L - IF Kind(open[K]) = "else" THEN 2 ELSE 1
<1>1. /\ Tree(nodes) /\ Ranked(nodes) /\ Stacks(nodes, groups, open)
      /\ Doomed(nodes, groups) \/ Faithful(nodes, groups, open)
      /\ Cardinality(Unended(nodes, open)) \in Nat /\ L \in Nat /\ K \in Nat
      /\ L >= K + Cardinality(Unended(nodes, open)) /\ L >= 1
      /\ groups \in Seq(DOMAIN nodes) /\ open \in Seq(DOMAIN nodes) /\ Distinct(groups) /\ Distinct(open)
  BY InvHolds DEF Node, Stacks, Distinct
<1>2. K > 1 /\ groups' = SubSeq(groups, 1, m) /\ open' = SubSeq(open, 1, K - 1) /\ nodes' = nodes
  BY DEF Exit
<1>3. PICK ps : ps = SubSeq(open, 1, K - 1)
  OBVIOUS
<1>4. Len(ps) = K - 1 /\ \A n : IsOn(ps, n) => IsOn(open, n)
  <2>1. K - 1 \in 0..K
    BY <1>1, <1>2
  <2>2. open \in Seq(DOMAIN nodes)
    BY <1>1
  <2>3. Len(SubSeq(open, 1, K - 1)) = K - 1 /\ \A n : IsOn(SubSeq(open, 1, K - 1), n) => IsOn(open, n)
    BY <2>1, <2>2, Popped
  <2> QED BY <1>3, <2>3
<1>5. /\ Cardinality(Unended(nodes, ps)) \in Nat
      /\ Cardinality(Unended(nodes, ps)) <= Cardinality(Unended(nodes, open))
      /\ Kind(open[K]) = "else" => Cardinality(Unended(nodes, ps)) + 1 <= Cardinality(Unended(nodes, open))
  <2>1. Unended(nodes, ps) \subseteq Unended(nodes, open)
    BY <1>4 DEF Unended
  <2>2. Cardinality(Unended(nodes, ps)) <= Cardinality(Unended(nodes, open))
    BY <1>1, <2>1, UnendedIsFinite, FS_Subset
  <2> QED BY <1>1, <1>2, <1>3, <2>2, UnendedIsFinite, LeavingElse DEF Kind
<1>m. PICK c \in {1, 2} : c = IF Kind(open[K]) = "else" THEN 2 ELSE 1
  OBVIOUS
<1>n. PICK h : h = L - c
  OBVIOUS
<1>o. h = m
  BY <1>m, <1>n
<1> HIDE DEF m, L, K
<1>6. /\ h \in Nat /\ h \in 0..L /\ (Kind(open[K]) = "else" => h + 2 = L) /\ (Kind(open[K]) # "else" => h + 1 = L)
      /\ h >= Len(ps) + Cardinality(Unended(nodes, ps))
  <2>1. CASE Kind(open[K]) = "else"
    <3>1. c = 2
      BY <1>m, <2>1
    <3> QED BY <1>1, <1>2, <1>4, <1>5, <1>n, <2>1, <3>1
  <2>2. CASE Kind(open[K]) # "else"
    <3>1. c = 1
      BY <1>m, <2>2
    <3> QED BY <1>1, <1>2, <1>4, <1>5, <1>n, <2>2, <3>1
  <2> QED BY <2>1, <2>2
<1>7. PICK hs : hs = SubSeq(groups, 1, h)
  OBVIOUS
<1>8. Len(hs) = h /\ \A n : IsOn(hs, n) => IsOn(groups, n)
  BY <1>1, <1>6, <1>7, Popped DEF L
<1>9. Stacks(nodes, hs, ps)
  BY <1>1, <1>2, <1>3, <1>6, <1>7, StacksPop DEF K, L
<1>10. Deep(nodes, hs, ps)
  BY <1>6, <1>8 DEF Deep
<1>11. Doomed(nodes, hs) \/ Faithful(nodes, hs, ps)
  <2>1. CASE Doomed(nodes, groups)
    BY <1>8, <2>1 DEF Doomed
  <2>2. CASE Faithful(nodes, groups, open)
    <3>1. SUFFICES ASSUME ~Doomed(nodes, hs) PROVE Faithful(nodes, hs, ps)
      OBVIOUS
    <3> QED BY <1>1, <1>2, <1>3, <1>6, <1>7, <2>2, <3>1, FaithfulPops DEF Kind, K, L
  <2> QED BY <1>1, <2>1, <2>2
<1>12. Sound(nodes', groups', open')
  BY <1>1, <1>2, <1>3, <1>7, <1>9, <1>10, <1>11, <1>o DEF Sound
<1> QED BY <1>12 DEF IInv

(* after() changes no node but in what it waits for.                        *)
Dated(ns, ms) ==
  /\ ms \in Seq(NodeType) /\ DOMAIN ms = DOMAIN ns /\ Len(ms) = Len(ns)
  /\ \A n \in DOMAIN ns : /\ ms[n].kind = ns[n].kind /\ ms[n].parent = ns[n].parent
                          /\ ms[n].within = ns[n].within /\ ms[n].reads = ns[n].reads

LEMMA AfterStep ==
  ASSUME Tree(nodes), after
  PROVE  Dated(nodes, nodes') /\ groups' = groups /\ open' = open
<1>1. PICK t \in Written, u \in AfterTargets : nodes' = [nodes EXCEPT ![t].after = @ \cup {u}]
  BY DEF after
<1>2. t \in DOMAIN nodes /\ u \in Nat /\ nodes \in Seq(NodeType) /\ nodes[t] \in NodeType
  BY <1>1 DEF Tree, Written, AfterTargets, Node
<1>3. PICK x : x = [nodes[t] EXCEPT !.after = @ \cup {u}]
  OBVIOUS
<1>4. /\ x \in NodeType /\ x.kind = nodes[t].kind /\ x.parent = nodes[t].parent
      /\ x.within = nodes[t].within /\ x.reads = nodes[t].reads
  BY <1>2, <1>3 DEF NodeType
<1>5. nodes' = [nodes EXCEPT ![t] = x]
  BY <1>1, <1>3
<1>6. /\ nodes' \in Seq(NodeType) /\ DOMAIN nodes' = DOMAIN nodes /\ Len(nodes') = Len(nodes)
      /\ \A n \in DOMAIN nodes : nodes'[n] = IF n = t THEN x ELSE nodes[n]
  BY <1>2, <1>4, <1>5
<1>7. Dated(nodes, nodes')
  BY <1>4, <1>6 DEF Dated
<1> QED BY <1>7 DEF after

LEMMA DatedIsSound ==
  ASSUME NEW ns, NEW ms, NEW gs, NEW os, Sound(ns, gs, os), Dated(ns, ms)
  PROVE  Sound(ms, gs, os)
<1>1. Tree(ns) /\ Ranked(ns) /\ Stacks(ns, gs, os) /\ Deep(ns, gs, os) /\ (Doomed(ns, gs) \/ Faithful(ns, gs, os))
  BY DEF Sound
<1>2. /\ ms \in Seq(NodeType) /\ DOMAIN ms = DOMAIN ns
      /\ \A n \in DOMAIN ns : /\ ms[n].kind = ns[n].kind /\ ms[n].parent = ns[n].parent
                              /\ ms[n].within = ns[n].within
  BY DEF Dated
<1>3. \A c, v : IsElseOf(ms, c, v) <=> IsElseOf(ns, c, v)
  BY <1>2 DEF IsElseOf
<1>4. \A n \in DOMAIN ns : Inside(ms, n) = Inside(ns, n)
  BY <1>2 DEF Inside
<1>5. \A i \in DOMAIN gs : gs[i] \in DOMAIN ns
  BY <1>1 DEF Stacks
<1>6. \A i \in DOMAIN os : os[i] \in DOMAIN ns
  BY <1>1 DEF Stacks
<1>7. Tree(ms)
  <2>1. \A n \in DOMAIN ns : ns[n].parent \in {None} \cup DOMAIN ns
    BY <1>1 DEF Tree
  <2>2. \A n \in DOMAIN ns :
       /\ n # 1 => ns[n].kind # "pipeline" /\ (ns[n].kind # "task" => ns[n].parent # None)
       /\ ns[n].parent # None => ns[ns[n].parent].kind # "task"
       /\ ns[n].kind \in {"elif", "else"} => ns[n].parent # None /\ ns[ns[n].parent].kind = "branches"
    <3>1. 1 \in DOMAIN ns /\ ns[1].kind = "pipeline"
      BY <1>1 DEF Tree
    <3> QED BY <1>1, <3>1 DEF Tree
  <2>3. \A n \in DOMAIN ns :
       /\ n # 1 => ms[n].kind # "pipeline" /\ (ms[n].kind # "task" => ms[n].parent # None)
       /\ ms[n].parent # None => ms[ms[n].parent].kind # "task"
       /\ ms[n].kind \in {"elif", "else"} => ms[ms[n].parent].kind = "branches"
    BY <1>2, <2>1, <2>2
  <2> QED BY <1>1, <1>2, <2>1, <2>3 DEF Tree
<1>8. Ranked(ms)
  <2>1. PICK b \in Nat : \E rank : Ranks(ns, b, rank)
    BY <1>1 DEF Ranked
  <2>2. PICK rank : Ranks(ns, b, rank)
    BY <2>1
  <2>3. Ranks(ms, b, rank)
    BY <1>2, <2>2 DEF Ranks
  <2> QED BY <2>3 DEF Ranked
<1>9. Stacks(ms, gs, os)
  BY <1>1, <1>2, <1>5, <1>6 DEF Stacks
<1>10. Deep(ms, gs, os)
  <2>1. Unended(ms, os) = Unended(ns, os)
    BY <1>2, <1>3 DEF Unended
  <2> QED BY <1>1, <2>1 DEF Deep
<1>11. Doomed(ns, gs) => Doomed(ms, gs)
  BY <1>2, <1>3 DEF Doomed
<1>12. Faithful(ns, gs, os) => Faithful(ms, gs, os)
  <2> SUFFICES ASSUME Faithful(ns, gs, os) PROVE Faithful(ms, gs, os)
    OBVIOUS
  <2>1. Local(ns) /\ Climbs(ns, gs) /\ ElseOnTop(ns, gs) /\ SameBlocks(ns, gs, os)
    BY DEF Faithful
  <2>2. Local(ms)
    <3>1. \A n \in DOMAIN ns : ns[n].parent \in {None} \cup DOMAIN ns
      BY <1>1 DEF Tree
    <3> QED BY <1>2, <1>4, <2>1, <3>1 DEF Local
  <2>3. Climbs(ms, gs)
    <3>1. \A i \in DOMAIN gs : 1..i \subseteq DOMAIN gs
      BY <1>1 DEF Stacks
    <3>2. \A i \in DOMAIN gs : {k \in 1..i : ms[gs[k]].kind \in Block} = {k \in 1..i : ns[gs[k]].kind \in Block}
      BY <1>2, <1>5, <3>1
    <3>3. \A i \in DOMAIN gs : ms[gs[i]].parent = ns[gs[i]].parent /\ Inside(ms, gs[i]) = Inside(ns, gs[i])
      BY <1>2, <1>4, <1>5
    <3> QED BY <2>1, <3>2, <3>3 DEF Climbs
  <2>4. ElseOnTop(ms, gs)
    <3>1. Len(gs) \in Nat /\ DOMAIN gs = 1..Len(gs)
      BY <1>1 DEF Stacks
    <3>2. \A i \in DOMAIN gs : ms[gs[i]].kind = ns[gs[i]].kind
      BY <1>2, <1>5
    <3>3. ASSUME NEW i \in DOMAIN gs, ms[gs[i]].kind = "else"
          PROVE  i # 1 /\ ms[gs[i - 1]].kind = "branches"
      <4>1. i # 1 /\ ns[gs[i - 1]].kind = "branches"
        BY <2>1, <3>2, <3>3 DEF ElseOnTop
      <4>2. i - 1 \in DOMAIN gs
        BY <3>1, <4>1
      <4> QED BY <3>2, <4>1, <4>2
    <3>4. ASSUME NEW i \in DOMAIN gs, NEW c \in DOMAIN ms, IsElseOf(ms, c, gs[i])
          PROVE  i < Len(gs) /\ ms[gs[i + 1]].kind = "else"
      <4>1. i < Len(gs) /\ ns[gs[i + 1]].kind = "else"
        BY <1>2, <1>3, <2>1, <3>4 DEF ElseOnTop
      <4>2. i + 1 \in DOMAIN gs
        BY <3>1, <4>1
      <4> QED BY <3>2, <4>1, <4>2
    <3> QED BY <3>3, <3>4 DEF ElseOnTop
  <2>5. SameBlocks(ms, gs, os)
    BY <1>2, <2>1 DEF SameBlocks
  <2> QED BY <2>2, <2>3, <2>4, <2>5 DEF Faithful
<1> QED BY <1>1, <1>7, <1>8, <1>9, <1>10, <1>11, <1>12 DEF Sound

LEMMA InvIsInductive == IInv /\ [Next]_vars => IInv'
<1>1. SUFFICES ASSUME IInv, [Next]_vars PROVE IInv'
  OBVIOUS
<1>2. Tree(nodes) /\ open \in Seq(Node) /\ Top \in Node
  BY <1>1, InvHolds
<1>3. CASE add_task
  BY <1>1, <1>3, TaskIsSound
<1>4. CASE ParallelFor \/ If \/ ExitHandler
  <2>1. PICK k \in Block : Enters(k)
    BY <1>2, <1>4, BlockStep
  <2> QED BY <1>1, <2>1, EnteringIsSound
<1>5. ASSUME NEW k \in {"elif", "else"}, NEW rs \in SUBSET ReadType, Branch(k, rs) PROVE IInv'
  <2>1. Enters(k) \/ WrapsIf(LastGroup, k)
    BY <1>2, <1>5, BranchStep
  <2>2. k \in Block
    BY DEF Block, Condition
  <2> QED BY <1>1, <2>1, <2>2, EnteringIsSound, WrappingIsSound
<1>6. CASE Elif
  <2>1. PICK r \in Values : Branch("elif", {r})
    BY <1>6 DEF Elif
  <2>2. {r} \in SUBSET ReadType
    BY <1>2, ReadTypes DEF Tree
  <2> QED BY <1>5, <2>1, <2>2
<1>7. CASE Else
  <2>1. {} \in SUBSET ReadType /\ "else" \in {"elif", "else"} /\ Branch("else", {})
    BY <1>7 DEF Else
  <2> QED BY <1>5, <2>1
<1>8. CASE Exit
  BY <1>1, <1>8, LeavingIsSound
<1>9. CASE create_pipeline_spec \/ UNCHANGED vars
  BY <1>1, <1>9 DEF create_pipeline_spec, vars, IInv
<1>10. CASE after
  BY <1>1, <1>2, <1>10, AfterStep, DatedIsSound DEF IInv
<1> QED BY <1>1, <1>3, <1>4, <1>6, <1>7, <1>8, <1>9, <1>10 DEF Next

(* Whatever the author writes, the invariant holds.                         *)
THEOREM WritingIsSound == Spec => []IInv
BY InvIsInductive, InitIsSound, PTL DEF Spec

-----------------------------------------------------------------------------
(* The dags a node is in. *)

(* Parents lead to the pipeline, so every node has a path.                  *)
LEMMA PathsExist ==
  ASSUME Tree(nodes), Ranked(nodes)
  PROVE  \A n \in Node :
           Path[n] = IF nodes[n].parent = None THEN <<n>> ELSE Append(Path[nodes[n].parent], n)
<1> DEFINE Step(f, n) == IF nodes[n].parent = None THEN <<n>> ELSE Append(f[nodes[n].parent], n)
<1>1. PICK b \in Nat : \E rank : Ranks(nodes, b, rank)
  BY DEF Ranked
<1>2. PICK rank : Ranks(nodes, b, rank)
  BY <1>1
<1>3. /\ rank \in [Node -> 0..b] /\ \A n \in Node : nodes[n].parent # None => rank[nodes[n].parent] < rank[n]
      /\ \A n \in Node : nodes[n].parent # None => nodes[n].parent \in Node
  BY <1>2 DEF Ranks, Tree, Node
<1> DEFINE First(k) == {n \in Node : rank[n] < k}
           IsPath(f, k) == f = [n \in First(k) |-> Step(f, n)]
           S == {k \in Nat : \E f : IsPath(f, k)}
<1>4. 0 \in S
  <2> DEFINE f == [n \in First(0) |-> <<>>]
  <2>1. First(0) = {}
    BY <1>1, <1>3
  <2>2. f = [n \in First(0) |-> Step(f, n)]
    BY <2>1
  <2> HIDE DEF f
  <2> QED BY <2>2
<1>5. ASSUME NEW k \in S PROVE k + 1 \in S
  <2>1. PICK f : IsPath(f, k)
    OBVIOUS
  <2>2. k \in Nat /\ k + 1 \in Nat
    OBVIOUS
  <2> DEFINE g == [n \in First(k + 1) |-> Step(f, n)]
  <2>3. ASSUME NEW n \in First(k + 1) PROVE Step(f, n) = Step(g, n)
    <3>1. CASE nodes[n].parent = None
      BY <3>1
    <3>2. CASE nodes[n].parent # None
      <4>1. n \in Node /\ rank[n] < k + 1 /\ rank[n] \in Nat
        BY <1>1, <1>3
      <4>2. /\ nodes[n].parent \in Node /\ rank[nodes[n].parent] < rank[n] /\ rank[nodes[n].parent] \in Nat
        BY <1>1, <1>3, <3>2, <4>1
      <4>3. nodes[n].parent \in First(k) /\ nodes[n].parent \in First(k + 1)
        BY <2>2, <4>1, <4>2
      <4>4. f[nodes[n].parent] = Step(f, nodes[n].parent)
        BY <2>1, <4>3
      <4>5. g[nodes[n].parent] = Step(f, nodes[n].parent)
        BY <4>3
      <4> QED BY <4>4, <4>5
    <3> QED BY <3>1, <3>2
  <2>4. g = [n \in First(k + 1) |-> Step(g, n)]
    BY <2>3
  <2> HIDE DEF g
  <2> QED BY <2>2, <2>4
<1>s. S \subseteq Nat
  OBVIOUS
<1> HIDE DEF S
<1>6. S = Nat
  <2>1. SUFFICES ASSUME Nat \ S # {} PROVE FALSE
    BY <1>s
  <2>2. PICK x \in Nat \ S : \A y \in Nat \ S : x <= y
    BY <2>1, LeastOf
  <2>3. x # 0 /\ x - 1 \in Nat /\ ~(x <= x - 1) /\ x - 1 + 1 = x
    BY <1>4, <2>2
  <2>4. x - 1 \in S
    BY <2>2, <2>3
  <2> QED BY <1>5, <2>2, <2>3, <2>4
<1>7. First(b + 1) = Node
  <2>1. \A n \in Node : rank[n] < b + 1
    BY <1>1, <1>3
  <2> QED BY <2>1
<1>8. PICK f : f = [n \in Node |-> Step(f, n)]
  <2>1. b + 1 \in S
    BY <1>1, <1>6
  <2>2. PICK f : IsPath(f, b + 1)
    BY <2>1 DEF S
  <2> QED BY <1>7, <2>2
<1>9. Path = CHOOSE f1 : f1 = [n \in Node |-> Step(f1, n)]
  BY DEF Path
<1>10. Path = [n \in Node |-> Step(Path, n)]
  BY <1>8, <1>9
<1> QED BY <1>10

(* A node's path ends with it, and the blocks on it are those it is inside. *)
LEMMA PathsAreFaithful ==
  ASSUME Tree(nodes), Ranked(nodes), Local(nodes)
  PROVE  \A n \in InTree :
           /\ Path[n] \in Seq(Node) /\ Len(Path[n]) >= 1
           /\ Inside(nodes, n) = {g \in Node : Kind(g) \in Block /\ IsOn(Path[n], g)}
<1> DEFINE Right(n) == /\ Path[n] \in Seq(Node) /\ Len(Path[n]) >= 1
                       /\ Inside(nodes, n) = {g \in Node : Kind(g) \in Block /\ IsOn(Path[n], g)}
           Wrong == {n \in InTree : ~Right(n)}
<1>1. PICK b \in Nat : \E rank : Ranks(nodes, b, rank)
  BY DEF Ranked
<1>2. PICK rank : Ranks(nodes, b, rank)
  BY <1>1
<1>3. /\ rank \in [Node -> 0..b] /\ \A n \in Node : nodes[n].parent # None => rank[nodes[n].parent] < rank[n]
      /\ \A n \in Node : rank[n] \in Nat
  BY <1>1, <1>2 DEF Ranks, Node
<1>4. InTree \subseteq Node
  BY DEF InTree
<1>5. SUFFICES ASSUME Wrong # {} PROVE FALSE
  BY DEF InTree
<1>6. PICK x \in {rank[n] : n \in Wrong} : \A y \in {rank[n] : n \in Wrong} : x <= y
  <2>1. {rank[n] : n \in Wrong} \subseteq Nat /\ {rank[n] : n \in Wrong} # {}
    BY <1>3, <1>4, <1>5
  <2> QED BY <2>1, LeastOf
<1>7. PICK n \in Wrong : rank[n] = x
  BY <1>6
<1>8. n \in InTree /\ n \in Node /\ ~Right(n)
  BY <1>4, <1>7
<1>9. CASE nodes[n].parent = None
  <2>1. n = 1 /\ nodes[n].within = {} /\ Kind(n) = "pipeline"
    BY <1>8, <1>9 DEF InTree, Tree, Kind
  <2>2. Inside(nodes, n) = {} /\ Kind(n) \notin Block
    BY <2>1 DEF Inside, Kind, Block, Condition
  <2>3. Path[n] = <<n>>
    BY <1>8, <1>9, PathsExist
  <2>4. <<n>> \in Seq(Node) /\ Len(<<n>>) >= 1 /\ \A g : IsOn(<<n>>, g) => g = n
    BY <1>8 DEF IsOn
  <2> QED BY <1>8, <2>2, <2>3, <2>4
<1>10. CASE nodes[n].parent # None
  <2>1. PICK p : p = nodes[n].parent
    OBVIOUS
  <2>2. p \in Node /\ Kind(p) # "task" /\ rank[p] < rank[n]
    BY <1>3, <1>8, <1>10, <2>1 DEF Tree, Node, Kind
  <2>3. p \in InTree
    BY <2>2 DEF Tree, InTree, Node, Kind
  <2>4. Right(p)
    <3>1. SUFFICES ASSUME p \in Wrong PROVE FALSE
      BY <2>3
    <3>2. rank[n] <= rank[p]
      BY <1>6, <1>7, <3>1
    <3> QED BY <1>3, <1>8, <2>2, <3>2
  <2>5. Path[n] = Append(Path[p], n)
    BY <1>8, <1>10, <2>1, PathsExist
  <2>6. PICK q : q = Path[p]
    OBVIOUS
  <2>7. q \in Seq(Node) /\ Len(q) >= 1 /\ Len(q) \in Nat
    BY <2>4, <2>6
  <2>8. Append(q, n) \in Seq(Node) /\ Len(Append(q, n)) >= 1
    BY <1>8, <2>7
  <2>9. \A g : IsOn(Append(q, n), g) <=> IsOn(q, g) \/ g = n
    BY <1>8, <2>7, Ends
  <2>10. nodes[n].within = Inside(nodes, p)
    BY <1>8, <1>10, <2>1 DEF Local, Node
  <2>11. Inside(nodes, n) = {g \in Node : Kind(g) \in Block /\ IsOn(Append(q, n), g)}
    <3>1. Inside(nodes, p) = {g \in Node : Kind(g) \in Block /\ IsOn(q, g)}
      BY <2>4, <2>6
    <3>2. Inside(nodes, n) = Inside(nodes, p) \cup (IF Kind(n) \in Block THEN {n} ELSE {})
      BY <2>10 DEF Inside, Kind
    <3> QED BY <1>8, <2>9, <3>1, <3>2
  <2> QED BY <1>8, <2>5, <2>6, <2>8, <2>11
<1> QED BY <1>9, <1>10

(* The blocks above a node are those its parent is inside.                  *)
LEMMA BlocksAreWithin ==
  ASSUME Tree(nodes), Ranked(nodes), Local(nodes), NEW n \in InTree
  PROVE  Blocks(n) = nodes[n].within
<1>1. n \in Node
  BY DEF InTree
<1>2. CASE nodes[n].parent = None
  <2>1. n = 1 /\ nodes[n].within = {}
    BY <1>2 DEF InTree, Tree
  <2>2. Path[n] = <<n>> /\ Len(<<n>>) = 1
    BY <1>1, <1>2, PathsExist
  <2>3. Above(n) = {}
    BY <2>2 DEF Above
  <2> QED BY <2>1, <2>3 DEF Blocks
<1>3. CASE nodes[n].parent # None
  <2>1. PICK p : p = nodes[n].parent
    OBVIOUS
  <2>2. p \in InTree
    BY <1>1, <1>3, <2>1 DEF Tree, InTree, Node, Kind
  <2>3. PICK q : q = Path[p]
    OBVIOUS
  <2>4. /\ q \in Seq(Node) /\ Len(q) \in Nat /\ DOMAIN q = 1..Len(q)
        /\ Inside(nodes, p) = {g \in Node : Kind(g) \in Block /\ IsOn(q, g)}
    BY <2>2, <2>3, PathsAreFaithful
  <2>5. Path[n] = Append(q, n)
    BY <1>1, <1>3, <2>1, <2>3, PathsExist
  <2>6. Above(n) = {g \in Node : IsOn(q, g)}
    <3>1. Len(Append(q, n)) - 1 = Len(q) /\ \A i \in 1..Len(q) : Append(q, n)[i] = q[i] /\ q[i] \in Node
      BY <1>1, <2>4
    <3>2. Above(n) = {q[i] : i \in 1..Len(q)}
      BY <2>5, <3>1 DEF Above
    <3> QED BY <2>4, <3>1, <3>2 DEF IsOn
  <2>7. nodes[n].within = Inside(nodes, p)
    BY <1>1, <1>3, <2>1 DEF Local, Node
  <2> QED BY <2>4, <2>6, <2>7 DEF Blocks
<1> QED BY <1>2, <1>3

(* A task or block is in the dags of exactly those blocks the author wrote  *)
(* it in, when every chain of branches ends in an Else: whatever is nested  *)
(* in what (push_tasks_group, pop_tasks_group and the groups of branches).  *)
THEOREM EachTaskStaysInItsBlocks == Spec => []TasksRunWhereWritten
<1>1. IInv => TasksRunWhereWritten
  <2>1. SUFFICES ASSUME IInv, Ended, NEW n \in InTree PROVE Blocks(n) = nodes[n].within
    BY DEF TasksRunWhereWritten
  <2>2. ~Doomed(nodes, groups)
    <3>1. SUFFICES ASSUME NEW v \in DOMAIN nodes, nodes[v].kind = "branches" PROVE \E c \in DOMAIN nodes : IsElseOf(nodes, c, v)
      BY DEF Doomed
    <3>2. v \in Groups
      BY <2>1, <3>1, InvHolds DEF Tree, Groups, Tasks, InTree, Node, Kind
    <3>3. PICK c \in Children(v) : Kind(c) = "else"
      BY <2>1, <3>1, <3>2 DEF Ended, Kind
    <3> QED BY <3>3 DEF Children, InTree, IsElseOf, Node, Kind
  <2>3. Tree(nodes) /\ Ranked(nodes) /\ Local(nodes)
    BY <2>1, <2>2, InvHolds DEF Faithful
  <2> QED BY <2>1, <2>3, BlocksAreWithin
<1> QED BY <1>1, WritingIsSound, PTL

-----------------------------------------------------------------------------
(* What waits for what. *)

(* Item of the nodes ns.                                                    *)
ItemIn(ns, n) ==
  IF ns[n].reads = {} THEN Channel("raw", n)
  ELSE LET items == CHOOSE r \in ns[n].reads : TRUE IN [items.ch EXCEPT !.depth = @ + 1]

IsTask(ns, n) == n \in DOMAIN ns /\ ns[n].kind = "task"

(* The author reads what there is.                                          *)
Named(ns, rs) ==
  \A r \in rs :
    /\ r.ch.fan = None /\ (r.ch.src = "task" => IsTask(ns, r.ch.of))
    /\ IF r.loop = None THEN r.how # "text" /\ r.ch.depth = 0 /\ r.ch.src # "raw"
       ELSE /\ r.how # "collected" /\ r.loop \in DOMAIN ns /\ ns[r.loop].kind = "loop"
            /\ r.ch = ItemIn(ns, r.loop)
    /\ r.how = "collected" => r.ch.src = "task"

(* What a node of kind k reads.                                             *)
Fits(k, rs) ==
  /\ k \in {"pipeline", "branches", "exit"} => rs = {}
  /\ k = "loop" => \A r, s \in rs : r = s
  /\ k # "task" => \A r \in rs : r.how = "value"

(* What a node reads, and its group, are earlier nodes, but for the group of *)
(* the first branch.                                                        *)
Earlier(ns) ==
  \A n \in DOMAIN ns :
    /\ Named(ns, ns[n].reads) /\ Fits(ns[n].kind, ns[n].reads)
    /\ \A r \in ns[n].reads : r.ch.src = "task" => r.ch.of < n
    /\ ns[n].parent # None =>
         \/ ns[n].parent < n
         \/ ns[ns[n].parent].kind = "branches" /\ ns[ns[n].parent].parent < n
    /\ ns[n].kind = "branches" =>
         n + 1 \in DOMAIN ns /\ ns[n + 1].parent = n /\ ns[n + 1].kind \in {"elif", "else"}

(* A step keeps what the nodes read, and a new one reads what there is.     *)
Notes(ns, ms) ==
  /\ \A n \in DOMAIN ns : ms[n].reads = ns[n].reads
  /\ \A n \in DOMAIN ms \ DOMAIN ns : Named(ns, ms[n].reads) /\ Fits(ms[n].kind, ms[n].reads)

(* The items it reads are of the loops the author is in; a branch reads     *)
(* those of the branch before it, too.                                      *)
Heard(ns, rs, top, os) ==
  \A r \in rs : r.loop # None => IsOn(os, r.loop) \/ \E l \in DOMAIN ns : ns[l].parent = top /\ r \in ns[l].reads
Scoped(ns, ms, top, os) == \A n \in DOMAIN ms \ DOMAIN ns : Heard(ns, ms[n].reads, top, os)

LEMMA ValuesAreNamed ==
  ASSUME Tree(nodes), Earlier(nodes), open \in Seq(Node)
  PROVE  /\ Named(nodes, Values \cup Texts \cup Collected)
         /\ \A r \in Values \cup Texts \cup Collected : r.loop # None => IsOn(open, r.loop)
         /\ \A r \in Values : r.how = "value"
<1>1. /\ LoopsOpen \subseteq Node /\ Node = DOMAIN nodes /\ nodes \in Seq(NodeType)
      /\ \A n \in Node : nodes[n] \in NodeType
      /\ \A t \in Written : t \in Node /\ IsTask(nodes, t)
      /\ \A n \in LoopsOpen : nodes[n].kind = "loop" /\ IsOn(open, n)
  BY DEF Written, LoopsOpen, Node, Tree, IsTask, Kind, IsOn
<1>2. ASSUME NEW p \in Param PROVE Named(nodes, {Read(Channel("param", p), "value", None)})
  BY DEF Named, Read, Channel
<1>3. ASSUME NEW t \in Written, NEW how \in {"value", "collected"} PROVE Named(nodes, {Read(Channel("task", t), how, None)})
  BY <1>1 DEF Named, Read, Channel
<1>4. ASSUME NEW n \in LoopsOpen, NEW how \in {"value", "text"} PROVE Named(nodes, {Read(Item(n), how, n)})
  <2>1. Item(n) = ItemIn(nodes, n)
    BY DEF Item, ItemIn
  <2>2. Item(n).fan = None /\ (Item(n).src = "task" => IsTask(nodes, Item(n).of))
    <3>1. CASE nodes[n].reads = {}
      BY <3>1 DEF Item, Channel
    <3>2. CASE nodes[n].reads # {}
      <4>1. PICK r \in nodes[n].reads : Item(n) = [r.ch EXCEPT !.depth = @ + 1]
        BY <3>2 DEF Item
      <4>2. r.ch \in ChannelType /\ r.ch.fan = None /\ (r.ch.src = "task" => IsTask(nodes, r.ch.of))
        BY <1>1 DEF Earlier, Named, NodeType, ReadType
      <4> QED BY <4>1, <4>2 DEF ChannelType
    <3> QED BY <3>1, <3>2
  <2>3. PICK c : c = Item(n)
    OBVIOUS
  <2>4. Read(c, how, n).ch = c /\ Read(c, how, n).loop = n /\ Read(c, how, n).how = how
    BY DEF Read
  <2>5. n # None
    BY <1>1 DEF Tree, None
  <2> QED BY <1>1, <2>1, <2>2, <2>3, <2>4, <2>5 DEF Named
<1>5. \A rs : Named(nodes, rs) <=> \A r \in rs : Named(nodes, {r})
  BY DEF Named
<1>6. Named(nodes, Values \cup Texts \cup Collected)
  BY <1>1, <1>2, <1>3, <1>4, <1>5 DEF Values, Texts, Collected
<1>7. \A r \in Values \cup Texts \cup Collected : r.loop # None => IsOn(open, r.loop)
  BY <1>1 DEF Values, Texts, Collected, Read
<1>8. \A r \in Values : r.how = "value"
  BY DEF Values, Read
<1> QED BY <1>6, <1>7, <1>8

LEMMA ReadsNew ==
  ASSUME NEW k, NEW p, NEW rs, NEW af
  PROVE  New(k, p, rs, af).reads = rs /\ New(k, p, rs, af).kind = k
BY DEF New

LEMMA AppendedNotes ==
  ASSUME Tree(nodes), NEW k, NEW rs, NEW af, nodes' = Append(nodes, New(k, Top, rs, af)),
         Named(nodes, rs), Fits(k, rs), Heard(nodes, rs, Top, open)
  PROVE  Notes(nodes, nodes') /\ Scoped(nodes, nodes', Top, open)
<1>1. PICK x : x = New(k, Top, rs, af)
  OBVIOUS
<1>2. x.kind = k /\ x.reads = rs
  BY <1>1, ReadsNew
<1>3. /\ nodes' = Append(nodes, x) /\ Len(nodes) \in Nat /\ DOMAIN nodes = 1..Len(nodes)
      /\ DOMAIN nodes' = 1..(Len(nodes) + 1) /\ nodes'[Len(nodes) + 1] = x
      /\ \A n \in DOMAIN nodes : nodes'[n] = nodes[n]
  BY <1>1 DEF Tree
<1>4. \A n \in DOMAIN nodes' \ DOMAIN nodes : nodes'[n] = x
  BY <1>3
<1> QED BY <1>2, <1>3, <1>4 DEF Notes, Node, Scoped

LEMMA StepNotes ==
  ASSUME Tree(nodes), Earlier(nodes), open \in Seq(Node), add_task \/ ParallelFor \/ If \/ ExitHandler
  PROVE  Notes(nodes, nodes') /\ Scoped(nodes, nodes', Top, open)
<1>1. /\ Named(nodes, {}) /\ Heard(nodes, {}, Top, open)
      /\ \A r \in Values \cup Texts \cup Collected : Named(nodes, {r}) /\ Heard(nodes, {r}, Top, open)
      /\ \A r \in Values : r.how = "value"
  BY ValuesAreNamed DEF Named, Heard
<1>2. CASE add_task
  <2>1. \E rs : /\ nodes' = Append(nodes, New("task", Top, rs, {}))
                /\ Named(nodes, rs) /\ Heard(nodes, rs, Top, open)
    <3>1. CASE nodes' = Append(nodes, New("task", Top, {}, {}))
      BY <1>1, <3>1
    <3>2. CASE \E r \in Values \cup Texts \cup Collected : nodes' = Append(nodes, New("task", Top, {r}, {}))
      <4>1. PICK r \in Values \cup Texts \cup Collected : nodes' = Append(nodes, New("task", Top, {r}, {}))
        BY <3>2
      <4> QED BY <1>1, <4>1
    <3> QED BY <1>2, <3>1, <3>2 DEF add_task
  <2>2. \A rs : Fits("task", rs)
    BY DEF Fits
  <2> QED BY <2>1, <2>2, AppendedNotes
<1>3. CASE ParallelFor
  <2>1. PICK rs \in {{}} \cup {{r} : r \in Values} : nodes' = Append(nodes, New("loop", Top, rs, {}))
    BY <1>3 DEF ParallelFor
  <2>2. Named(nodes, rs) /\ Fits("loop", rs) /\ Heard(nodes, rs, Top, open)
    BY <1>1, <2>1 DEF Fits
  <2> QED BY <2>1, <2>2, AppendedNotes
<1>4. CASE If
  <2>1. PICK r \in Values : nodes' = Append(nodes, New("if", Top, {r}, {}))
    BY <1>4 DEF If
  <2>2. Named(nodes, {r}) /\ Fits("if", {r}) /\ Heard(nodes, {r}, Top, open)
    BY <1>1, <2>1 DEF Fits
  <2> QED BY <2>1, <2>2, AppendedNotes
<1>5. CASE ExitHandler
  <2>1. PICK t \in Node : nodes' = Append([nodes EXCEPT ![t].parent = None], New("exit", Top, {}, {t}))
    BY <1>5 DEF ExitHandler
  <2>2. PICK x : x = New("exit", Top, {}, {t}) /\ x.reads = {} /\ x.kind = "exit"
    BY ReadsNew
  <2> DEFINE ms == [nodes EXCEPT ![t].parent = None]
  <2>3. /\ ms \in Seq(NodeType) /\ Len(ms) = Len(nodes) /\ DOMAIN ms = DOMAIN nodes
        /\ \A n \in DOMAIN nodes : ms[n].reads = nodes[n].reads
    <3>1. nodes \in Seq(NodeType) /\ nodes[t] \in NodeType
      BY <2>1 DEF Tree, Node
    <3>2. /\ [nodes[t] EXCEPT !.parent = None] \in NodeType
          /\ [nodes[t] EXCEPT !.parent = None].reads = nodes[t].reads
      BY <3>1 DEF NodeType, None
    <3>3. PICK y : y = [nodes[t] EXCEPT !.parent = None]
      OBVIOUS
    <3>4. ms = [nodes EXCEPT ![t] = y]
      BY <3>3
    <3> HIDE DEF ms
    <3> QED BY <2>1, <3>1, <3>2, <3>3, <3>4 DEF Node
  <2>4. nodes' = Append(ms, x)
    BY <2>1, <2>2
  <2> HIDE DEF ms
  <2>5. /\ Len(nodes) \in Nat /\ DOMAIN nodes = 1..Len(nodes)
        /\ DOMAIN nodes' = 1..(Len(nodes) + 1) /\ nodes'[Len(nodes) + 1] = x
        /\ \A n \in DOMAIN nodes : nodes'[n] = ms[n]
    BY <2>3, <2>4 DEF Tree
  <2>6. \A n \in DOMAIN nodes' \ DOMAIN nodes : nodes'[n] = x
    BY <2>5
  <2>7. Fits("exit", {})
    BY DEF Fits
  <2> QED BY <1>1, <2>2, <2>3, <2>5, <2>6, <2>7 DEF Notes, Scoped
<1> QED BY <1>2, <1>3, <1>4, <1>5

LEMMA BranchNotes ==
  ASSUME Tree(nodes), Earlier(nodes), Top \in Node, NEW k \in {"elif", "else"}, NEW rs,
         Named(nodes, rs), Heard(nodes, rs, Top, open), \A r \in rs : r.how = "value", Branch(k, rs)
  PROVE  /\ Notes(nodes, nodes') /\ Scoped(nodes, nodes', Top, open)
         /\ Kind(LastGroup) = "if" => Top < LastGroup
<1> DEFINE reads == nodes[LastGroup].reads \cup rs
           N == Len(nodes)
<1>1. PICK l : l = LastGroup
  OBVIOUS
<1>2. /\ l \in GroupsIn(Top) /\ (\A m \in GroupsIn(Top) : m <= l) /\ Kind(l) \in {"if", "elif"}
      /\ l \in Node /\ nodes[l].parent = Top /\ nodes[l] \in NodeType /\ nodes \in Seq(NodeType) /\ N \in Nat
      /\ Node = 1..N /\ l \in Nat /\ Top \in Nat
  BY <1>1, LastGroupIsLast DEF Branch, GroupsIn, Node, Tree
<1>3. Named(nodes, reads) /\ Fits(k, reads) /\ Heard(nodes, reads, Top, open)
  <2>1. Named(nodes, nodes[l].reads) /\ \A r \in nodes[l].reads : r.how = "value"
    BY <1>2 DEF Earlier, Node, Fits, Kind
  <2>2. Heard(nodes, nodes[l].reads, Top, open)
    BY <1>2 DEF Heard, Node
  <2> QED BY <1>1, <2>1, <2>2 DEF Named, Fits, Heard
<1>b. Branch(k, rs) /\ reads = nodes[LastGroup].reads \cup rs
  OBVIOUS
<1> HIDE DEF reads
<1>4. CASE Kind(l) = "elif"
  <2>1. nodes' = Append(nodes, New(k, Top, reads, {}))
    BY <1>1, <1>b, <1>4 DEF Branch
  <2>2. Notes(nodes, nodes') /\ Scoped(nodes, nodes', Top, open)
    BY <1>3, <2>1, AppendedNotes
  <2> QED BY <1>1, <1>4, <2>2
<1>5. CASE Kind(l) = "if"
  <2>1. PICK x : x = New("branches", Top, {}, {}) /\ x.reads = {} /\ x.kind = "branches"
    BY ReadsNew
  <2>2. PICK y : y = New(k, N + 1, reads, {}) /\ y.reads = reads /\ y.kind = k
    BY ReadsNew
  <2> DEFINE ms == [nodes EXCEPT ![l].parent = N + 1]
  <2>3. /\ ms \in Seq(NodeType) /\ Len(ms) = N
        /\ \A n \in DOMAIN nodes : ms[n].reads = nodes[n].reads
    <3>1. /\ [nodes[l] EXCEPT !.parent = N + 1] \in NodeType
          /\ [nodes[l] EXCEPT !.parent = N + 1].reads = nodes[l].reads
      <4>1. N + 1 \in Nat
        BY <1>2
      <4> QED BY <1>2, <4>1 DEF NodeType
    <3>2. PICK z : z = [nodes[l] EXCEPT !.parent = N + 1]
      OBVIOUS
    <3>3. ms = [nodes EXCEPT ![l] = z]
      BY <3>2
    <3> HIDE DEF ms
    <3> QED BY <1>2, <3>1, <3>2, <3>3 DEF Node
  <2>4. nodes' = ms \o <<x, y>>
    BY <1>1, <1>b, <1>5, <2>1, <2>2 DEF Branch
  <2> HIDE DEF ms, N
  <2>5. /\ DOMAIN nodes' = 1..(N + 2) /\ DOMAIN nodes = 1..N
        /\ \A n \in 1..N : nodes'[n] = ms[n]
        /\ \A n \in 1..(N + 2) : n \notin 1..N => nodes'[n] \in {x, y}
    <3>1. \A n \in 1..(N + 2) : nodes'[n] = IF n <= N THEN ms[n] ELSE <<x, y>>[n - N]
      BY <1>2, <2>3, <2>4
    <3>2. \A n \in 1..(N + 2) : n <= N \/ n = N + 1 \/ n = N + 2
      BY <1>2
    <3>3. Len(nodes') = N + 2 /\ DOMAIN nodes' = 1..(N + 2)
      <4>1. PICK D : NodeType \subseteq D /\ x \in D /\ y \in D
        <5>1. NodeType \subseteq NodeType \cup {x, y}
          OBVIOUS
        <5> QED BY <5>1
      <4>2. <<x, y>> \in Seq(D) /\ Len(<<x, y>>) = 2
        BY <4>1
      <4>3. ms \in Seq(D)
        BY <2>3, <4>1
      <4>4. ms \o <<x, y>> \in Seq(D) /\ Len(ms \o <<x, y>>) = N + 2
        <5>1. PICK z : z = <<x, y>>
          OBVIOUS
        <5>2. z \in Seq(D) /\ Len(z) = 2
          BY <4>2, <5>1
        <5>3. \A f, g \in Seq(D) : f \o g \in Seq(D) /\ Len(f \o g) = Len(f) + Len(g)
          OBVIOUS
        <5>4. ms \o z \in Seq(D) /\ Len(ms \o z) = Len(ms) + Len(z)
          BY <4>3, <5>2, <5>3
        <5> QED BY <2>3, <5>1, <5>2, <5>4
      <4> QED BY <1>2, <2>4, <4>4
    <3>4. <<x, y>>[1] = x /\ <<x, y>>[2] = y
      OBVIOUS
    <3>5. ASSUME NEW n \in 1..(N + 2), n \notin 1..N PROVE nodes'[n] \in {x, y}
      <4>1. n - N = 1 \/ n - N = 2
        BY <1>2, <3>2, <3>5
      <4>2. ~(n <= N)
        BY <1>2, <3>5
      <4> QED BY <3>1, <3>4, <4>1, <4>2
    <3>6. \A n \in 1..N : n \in 1..(N + 2) /\ n <= N
      BY <1>2
    <3>7. DOMAIN nodes = 1..N
      BY <1>2 DEF N
    <3>8. DOMAIN nodes' = 1..(N + 2)
      BY <3>3
    <3> QED BY <3>1, <3>5, <3>6, <3>7, <3>8
  <2>6. Notes(nodes, nodes') /\ Scoped(nodes, nodes', Top, open)
    <3>1. Named(nodes, {}) /\ Fits("branches", {}) /\ k # "task" /\ Heard(nodes, {}, Top, open)
      BY DEF Named, Fits, Heard
    <3> QED BY <1>3, <2>1, <2>2, <2>3, <2>5, <3>1 DEF Notes, Scoped
  <2>7. Top < l
    <3>1. /\ nodes[l].parent < l \/ Kind(Top) = "branches"
          /\ Kind(Top) = "branches" => /\ Top + 1 \in Node /\ nodes[Top + 1].parent = Top
                                       /\ Kind(Top + 1) \in {"elif", "else"}
      <4>1. nodes[l].parent # None
        BY <1>2 DEF None
      <4> QED BY <1>2, <4>1 DEF Earlier, Node, Kind
    <3>2. Kind(Top) = "branches" => Top + 1 \in GroupsIn(Top)
      BY <3>1 DEF GroupsIn
    <3>3. Kind(Top) = "branches" => Top + 1 <= l
      BY <1>2, <3>2
    <3> QED BY <1>2, <3>1, <3>3
  <2> QED BY <1>1, <2>6, <2>7
<1> QED BY <1>2, <1>4, <1>5

LEMMA EarlierNodes ==
  ASSUME NEW ns, NEW ms, Tree(ns), Earlier(ns), Notes(ns, ms), Grows(ns, ms),
         DOMAIN ms \subseteq Nat, \A n \in DOMAIN ns : \A m \in DOMAIN ms \ DOMAIN ns : n < m,
         NEW n \in DOMAIN ms
  PROVE  /\ Named(ms, ms[n].reads) /\ Fits(ms[n].kind, ms[n].reads)
         /\ \A r \in ms[n].reads : r.ch.src = "task" => r.ch.of < n
<1>1. DOMAIN ns \subseteq DOMAIN ms /\ \A l \in DOMAIN ns : ms[l].kind = ns[l].kind /\ (IsTask(ns, l) => IsTask(ms, l))
  BY DEF Grows, IsTask
<1>2. ASSUME NEW rs, Named(ns, rs) PROVE Named(ms, rs)
  <2>1. \A l \in DOMAIN ns : ItemIn(ms, l) = ItemIn(ns, l)
    BY DEF ItemIn, Notes
  <2> QED BY <1>1, <1>2, <2>1 DEF Named, IsTask
<1>3. CASE n \in DOMAIN ns
  <2>1. ms[n].reads = ns[n].reads /\ ms[n].kind = ns[n].kind
    BY <1>3 DEF Notes, Grows
  <2>2. /\ Named(ns, ns[n].reads) /\ Fits(ns[n].kind, ns[n].reads)
        /\ \A r \in ns[n].reads : r.ch.src = "task" => r.ch.of < n
    BY <1>3 DEF Earlier
  <2> QED BY <1>1, <1>2, <2>1, <2>2
<1>4. CASE n \notin DOMAIN ns
  <2>1. Named(ns, ms[n].reads) /\ Fits(ms[n].kind, ms[n].reads)
    BY <1>4 DEF Notes
  <2>2. \A r \in ms[n].reads : r.ch.src = "task" => r.ch.of \in DOMAIN ns
    BY <2>1 DEF Named, IsTask
  <2> QED BY <1>1, <1>2, <1>4, <2>1, <2>2
<1> QED BY <1>3, <1>4

LEMMA EarlierAdds ==
  ASSUME NEW ns, NEW ms, NEW top \in DOMAIN ns, NEW os, NEW k, Tree(ns), Earlier(ns), Notes(ns, ms),
         Adds(ns, ms, top, os, k), k # "branches"
  PROVE  Earlier(ms)
<1> DEFINE N == Len(ns) + 1
<1>1. /\ Grows(ns, ms) /\ N \in DOMAIN ms /\ N \notin DOMAIN ns /\ DOMAIN ms = DOMAIN ns \cup {N}
      /\ DOMAIN ns = 1..Len(ns) /\ Len(ns) \in Nat /\ N \in Nat /\ DOMAIN ms \subseteq Nat
      /\ \A n \in DOMAIN ns : n < N
  <2>1. Grows(ns, ms) /\ N \in DOMAIN ms /\ N \notin DOMAIN ns /\ DOMAIN ms = DOMAIN ns \cup {N}
    BY AddsGrows
  <2>2. DOMAIN ns = 1..Len(ns) /\ Len(ns) \in Nat
    BY DEF Tree
  <2> QED BY <2>1, <2>2
<1>2. ms[N].kind = k /\ ms[N].parent = top
  BY DEF Adds
<1> HIDE DEF N
<1>3. \A n \in DOMAIN ns : \A m \in DOMAIN ms \ DOMAIN ns : n < m
  BY <1>1
<1>4. ASSUME NEW n \in DOMAIN ms
      PROVE  /\ ms[n].parent # None =>
                  \/ ms[n].parent < n
                  \/ ms[ms[n].parent].kind = "branches" /\ ms[ms[n].parent].parent < n
             /\ ms[n].kind = "branches" =>
                  n + 1 \in DOMAIN ms /\ ms[n + 1].parent = n /\ ms[n + 1].kind \in {"elif", "else"}
  <2>1. CASE n = N
    BY <1>1, <1>2, <2>1
  <2>2. CASE n \in DOMAIN ns
    <3>1. /\ ms[n].kind = ns[n].kind
          /\ ms[n].parent = ns[n].parent \/ ms[n].parent = None
          /\ ns[n].parent \in {None} \cup DOMAIN ns
      BY <2>2 DEF Adds, Tree
    <3>2. /\ ns[n].parent # None =>
               \/ ns[n].parent < n
               \/ ns[ns[n].parent].kind = "branches" /\ ns[ns[n].parent].parent < n
          /\ ns[n].kind = "branches" =>
               n + 1 \in DOMAIN ns /\ ns[n + 1].parent = n /\ ns[n + 1].kind \in {"elif", "else"}
      BY <2>2 DEF Earlier
    <3>3. \A p \in DOMAIN ns : ns[p].kind \notin {"task", "if"} => ms[p].kind = ns[p].kind /\ ms[p].parent = ns[p].parent
      BY <1>1 DEF Grows
    <3> QED BY <1>1, <3>1, <3>2, <3>3
  <2> QED BY <1>1, <2>1, <2>2
<1> QED BY <1>1, <1>3, <1>4, EarlierNodes DEF Earlier

LEMMA EarlierWraps ==
  ASSUME NEW ns, NEW ms, NEW top \in DOMAIN ns, NEW os, NEW l, NEW k \in {"elif", "else"}, Tree(ns), Earlier(ns),
         Notes(ns, ms), Wraps(ns, ms, top, os, l, k), top < l
  PROVE  Earlier(ms)
<1> DEFINE N == Len(ns) + 1
           M == Len(ns) + 2
<1>1. /\ Grows(ns, ms) /\ N \notin DOMAIN ns /\ M \notin DOMAIN ns /\ DOMAIN ms = DOMAIN ns \cup {N, M}
      /\ DOMAIN ns = 1..Len(ns) /\ Len(ns) \in Nat /\ N \in Nat /\ M \in Nat /\ N + 1 = M /\ DOMAIN ms \subseteq Nat
      /\ \A n \in DOMAIN ns : n < N /\ n < M
  <2>1. Grows(ns, ms) /\ N \notin DOMAIN ns /\ M \notin DOMAIN ns /\ DOMAIN ms = DOMAIN ns \cup {N, M}
    BY WrapsGrows
  <2>2. DOMAIN ns = 1..Len(ns) /\ Len(ns) \in Nat
    BY DEF Tree
  <2> QED BY <2>1, <2>2
<1>2. /\ l \in DOMAIN ns /\ ns[l].kind = "if" /\ ns[l].parent = top
      /\ \A n \in DOMAIN ns : ms[n].kind = ns[n].kind /\ ms[n].parent = IF n = l THEN N ELSE ns[n].parent
      /\ ms[N].kind = "branches" /\ ms[N].parent = top
      /\ ms[M].kind = k /\ ms[M].parent = N
  BY DEF Wraps
<1> HIDE DEF N, M
<1>3. \A n \in DOMAIN ns : \A m \in DOMAIN ms \ DOMAIN ns : n < m
  BY <1>1
<1>4. ASSUME NEW n \in DOMAIN ms
      PROVE  /\ ms[n].parent # None =>
                  \/ ms[n].parent < n
                  \/ ms[ms[n].parent].kind = "branches" /\ ms[ms[n].parent].parent < n
             /\ ms[n].kind = "branches" =>
                  n + 1 \in DOMAIN ms /\ ms[n + 1].parent = n /\ ms[n + 1].kind \in {"elif", "else"}
  <2>1. CASE n = N
    BY <1>1, <1>2, <2>1
  <2>2. CASE n = M
    BY <1>1, <1>2, <2>2
  <2>3. CASE n = l
    BY <1>1, <1>2, <2>3
  <2>4. CASE n \in DOMAIN ns /\ n # l
    <3>1. ms[n].kind = ns[n].kind /\ ms[n].parent = ns[n].parent /\ ns[n].parent \in {None} \cup DOMAIN ns
      BY <1>2, <2>4 DEF Tree
    <3>2. /\ ns[n].parent # None =>
               \/ ns[n].parent < n
               \/ ns[ns[n].parent].kind = "branches" /\ ns[ns[n].parent].parent < n
          /\ ns[n].kind = "branches" =>
               n + 1 \in DOMAIN ns /\ ns[n + 1].parent = n /\ ns[n + 1].kind \in {"elif", "else"}
      BY <2>4 DEF Earlier
    <3>3. \A p \in DOMAIN ns : ns[p].kind \notin {"task", "if"} => ms[p].kind = ns[p].kind /\ ms[p].parent = ns[p].parent
      BY <1>1 DEF Grows
    <3> QED BY <1>1, <3>1, <3>2, <3>3
  <2> QED BY <1>1, <2>1, <2>2, <2>3, <2>4
<1> QED BY <1>1, <1>3, <1>4, EarlierNodes DEF Earlier

LEMMA EarlierDated ==
  ASSUME NEW ns, NEW ms, Tree(ns), Earlier(ns), Dated(ns, ms)
  PROVE  Earlier(ms)
<1>1. /\ DOMAIN ms = DOMAIN ns
      /\ \A n \in DOMAIN ns : /\ ms[n].kind = ns[n].kind /\ ms[n].parent = ns[n].parent
                              /\ ms[n].reads = ns[n].reads /\ ns[n].parent \in {None} \cup DOMAIN ns
  BY DEF Dated, Tree
<1>2. \A n \in DOMAIN ns : ItemIn(ms, n) = ItemIn(ns, n)
  BY <1>1 DEF ItemIn
<1>3. \A rs : Named(ns, rs) => Named(ms, rs)
  BY <1>1, <1>2 DEF Named, IsTask
<1> QED BY <1>1, <1>3 DEF Earlier

(* What create_pipeline_spec accepted: no task reads, or waits for, what it may not. *)
Accepted ==
  \A t \in Tasks : /\ Known(t)
                   /\ \A r \in nodes[t].reads : ~CollectedIllegal(t, r)
                   /\ \A u \in Upstream(t) : ~DependencyIllegal(t, u)

LEMMA AcceptedStays ==
  ASSUME nodes' = nodes
  PROVE  Accepted' <=> Accepted
<1>1. Path' = Path
  BY DEF Path, Node
<1>2. InTree' = InTree /\ Tasks' = Tasks
  BY DEF InTree, Tasks, Node, Kind
<1>3. \A n, m : Uncommon(n, m)' = Uncommon(n, m)
  BY <1>1 DEF Uncommon
<1>4. \A t : ConditionReads(t)' = ConditionReads(t)
  BY <1>1 DEF ConditionReads, Kind
<1>5. \A t, r : Surfaced(t, r)' = Surfaced(t, r)
  BY <1>3 DEF Surfaced
<1>6. \A t : Reads(t)' = Reads(t)
  BY <1>5 DEF Reads
<1>7. \A t : Upstream(t)' = Upstream(t)
  BY <1>4, <1>6 DEF Upstream
<1>8. \A t, u : DependencyIllegal(t, u)' <=> DependencyIllegal(t, u)
  BY <1>3, <1>6 DEF DependencyIllegal, Kind
<1>9. \A t, r : CollectedIllegal(t, r)' <=> CollectedIllegal(t, r)
  BY <1>3 DEF CollectedIllegal, Kind
<1>10. \A t : Known(t)' <=> Known(t)
  BY <1>2, <1>4 DEF Known
<1> QED BY <1>2, <1>7, <1>8, <1>9, <1>10 DEF Accepted

LEMMA EarlierStays ==
  ASSUME IInv, Earlier(nodes), Next
  PROVE  Earlier(nodes')
<1>1. /\ Tree(nodes) /\ open \in Seq(Node) /\ Top \in Node /\ Top \in DOMAIN nodes
  BY InvHolds DEF Node
<1>2. PICK ms : ms = nodes'
  OBVIOUS
<1>3. PICK top : top = Top
  OBVIOUS
<1>4. ASSUME NEW k, k # "branches", Adds(nodes, nodes', Top, open, k), Notes(nodes, nodes')
      PROVE  Earlier(nodes')
  BY <1>1, <1>2, <1>3, <1>4, EarlierAdds
<1>5. "task" # "branches" /\ \A k \in Block : k # "branches"
  BY DEF Block, Condition
<1>6. CASE add_task
  <2>1. Adds(nodes, nodes', Top, open, "task") /\ Notes(nodes, nodes')
    BY <1>1, <1>6, TaskStep, StepNotes
  <2> QED BY <1>4, <1>5, <2>1
<1>7. CASE ParallelFor \/ If \/ ExitHandler
  <2>1. PICK k \in Block : Enters(k)
    BY <1>1, <1>7, BlockStep
  <2>2. Notes(nodes, nodes')
    BY <1>1, <1>7, StepNotes
  <2> QED BY <1>4, <1>5, <2>1, <2>2 DEF Enters
<1>8. ASSUME NEW k \in {"elif", "else"}, NEW rs \in SUBSET ReadType, Branch(k, rs), Named(nodes, rs),
             Heard(nodes, rs, Top, open), \A r \in rs : r.how = "value"
      PROVE  Earlier(nodes')
  <2>1. Enters(k) \/ WrapsIf(LastGroup, k)
    BY <1>1, <1>8, BranchStep
  <2>2. Notes(nodes, nodes') /\ (Kind(LastGroup) = "if" => Top < LastGroup)
    BY <1>1, <1>8, BranchNotes
  <2>3. CASE Enters(k)
    BY <1>4, <1>5, <2>2, <2>3 DEF Enters
  <2>4. CASE WrapsIf(LastGroup, k)
    <3>1. PICK l : l = LastGroup
      OBVIOUS
    <3>2. Wraps(nodes, ms, top, open, l, k) /\ nodes[l].kind = "if"
      BY <1>2, <1>3, <2>4, <3>1 DEF WrapsIf, Wraps
    <3>3. top < l
      BY <1>3, <2>2, <3>1, <3>2 DEF Kind
    <3> QED BY <1>1, <1>2, <1>3, <2>2, <3>2, <3>3, EarlierWraps
  <2> QED BY <2>1, <2>3, <2>4
<1>9. CASE Elif
  <2>1. PICK r \in Values : Branch("elif", {r})
    BY <1>9 DEF Elif
  <2>2. {r} \in SUBSET ReadType
    BY <1>1, <2>1, ReadTypes DEF Tree
  <2>3. Named(nodes, {r}) /\ Heard(nodes, {r}, Top, open) /\ r.how = "value"
    BY <1>1, <2>1, ValuesAreNamed DEF Named, Heard
  <2> QED BY <1>8, <2>1, <2>2, <2>3
<1>10. CASE Else
  <2>1. {} \in SUBSET ReadType /\ "else" \in {"elif", "else"} /\ Branch("else", {}) /\ Named(nodes, {})
        /\ Heard(nodes, {}, Top, open)
    BY <1>10 DEF Else, Named, Heard
  <2> QED BY <1>8, <2>1
<1>11. CASE Exit \/ create_pipeline_spec
  <2>1. nodes' = nodes
    BY <1>11 DEF Exit, create_pipeline_spec
  <2> QED BY <2>1
<1>12. CASE after
  BY <1>1, <1>12, AfterStep, EarlierDated
<1> QED BY <1>6, <1>7, <1>9, <1>10, <1>11, <1>12 DEF Next

-----------------------------------------------------------------------------
(* Where the new nodes are, also in a pipeline whose branches have no Else. *)

(* The compiler's stack is a path down from the pipeline, and the blocks    *)
(* the author is in are on it, in their order.                              *)
Stacked(ns, gs, os) ==
  /\ gs[1] = 1 /\ \A i \in DOMAIN gs : i # 1 => ns[gs[i]].parent = gs[i - 1]
  /\ \A i \in DOMAIN os : IsOn(gs, os[i])
  /\ \A i, j \in DOMAIN os : \A k, l \in DOMAIN gs : i < j /\ gs[k] = os[i] /\ gs[l] = os[j] => k < l

Plain(ns, n) == ns[n].kind # "branches"

(* On the stack is the newest group of the group around it.                 *)
Newest(ns, gs) ==
  \A i \in DOMAIN gs : i # 1 /\ Plain(ns, gs[i]) =>
    \A n \in DOMAIN ns : ns[n].parent = gs[i - 1] /\ Plain(ns, n) => n <= gs[i]

(* last[n] bounds the nodes at and below n, and what is beside n and was    *)
(* written after n was written after all of them.                           *)
Spans(ns, last) ==
  /\ last \in [DOMAIN ns -> Nat]
  /\ \A n \in DOMAIN ns : /\ n <= last[n] /\ last[n] <= Len(ns)
                          /\ ns[n].parent # None => last[n] <= last[ns[n].parent]
  /\ \A a, b \in DOMAIN ns :
       /\ a < b /\ Plain(ns, a) /\ Plain(ns, b)
       /\ ns[a].parent # None /\ ns[a].parent = ns[b].parent
       => last[a] < b

(* What is on a stack below its i-th.                                       *)
Around(gs, i) == {gs[j] : j \in 1..(i - 1)}

(* up[n] is what is around n: the loops whose items n reads are.            *)
Surrounds(ns, gs, up) ==
  /\ up \in [DOMAIN ns -> SUBSET Nat] /\ up[1] = {}
  /\ \A n \in DOMAIN ns : ns[n].parent # None =>
       /\ up[n] \subseteq up[ns[n].parent] \cup {ns[n].parent}
       /\ \A r \in ns[n].reads : r.loop # None => r.loop \in up[n]
  /\ \A i \in DOMAIN gs : up[gs[i]] = Around(gs, i)

Nested(ns, gs, os) ==
  /\ Stacked(ns, gs, os) /\ Newest(ns, gs)
  /\ \E last : Spans(ns, last)
  /\ \E up : Surrounds(ns, gs, up)

(* The stack hs is gs, or gs with x on top.                                 *)
MayPush(gs, hs, x) ==
  /\ DOMAIN hs = 1..Len(gs) \/ DOMAIN hs = 1..(Len(gs) + 1)
  /\ \A i \in 1..Len(gs) : hs[i] = gs[i]
  /\ Len(gs) + 1 \in DOMAIN hs => hs[Len(gs) + 1] = x

(* What the step lemmas need of the stack and its top.                      *)
Towers(ns, gs, top) ==
  /\ gs \in Seq(DOMAIN ns) /\ Distinct(gs) /\ Len(gs) \in Nat /\ Len(gs) >= 1 /\ DOMAIN gs = 1..Len(gs)
  /\ top = gs[Len(gs)] /\ top \in DOMAIN ns /\ top # None
  /\ gs[1] = 1 /\ ns[1].parent = None
  /\ \A i \in DOMAIN gs : i # 1 => ns[gs[i]].parent = gs[i - 1]
  /\ \A i \in DOMAIN gs : ns[gs[i]].kind # "task"

LEMMA TowersHold ==
  ASSUME NEW ns, NEW gs, NEW os, Tree(ns), Stacks(ns, gs, os), Stacked(ns, gs, os), Len(gs) >= 1
  PROVE  Towers(ns, gs, gs[Len(gs)])
<1>1. /\ gs \in Seq(DOMAIN ns) /\ Distinct(gs) /\ Len(gs) \in Nat /\ DOMAIN gs = 1..Len(gs)
      /\ \A i \in DOMAIN gs : ns[gs[i]].kind # "task"
  BY DEF Stacks, Distinct
<1>2. gs[Len(gs)] \in DOMAIN ns
  BY <1>1
<1>3. gs[Len(gs)] # None
  BY <1>2 DEF Tree, None
<1> QED BY <1>1, <1>2, <1>3 DEF Tree, Towers, Stacked

(* What is in the group on top is not on the stack.                         *)
LEMMA InTopIsOff ==
  ASSUME NEW ns, NEW gs, NEW top, Towers(ns, gs, top), NEW n, ns[n].parent = top
  PROVE  ~IsOn(gs, n)
<1>1. SUFFICES ASSUME NEW i \in DOMAIN gs, gs[i] = n PROVE FALSE
  BY DEF IsOn
<1>2. i # 1
  BY <1>1 DEF Towers
<1>3. gs[i - 1] = gs[Len(gs)] /\ i - 1 \in DOMAIN gs /\ Len(gs) \in DOMAIN gs
  BY <1>1, <1>2 DEF Towers
<1>4. i - 1 = Len(gs)
  BY <1>3 DEF Towers, Distinct
<1> QED BY <1>1, <1>4 DEF Towers

(* What is around a node of the stack is on it.                             *)
LEMMA StackGoesUp ==
  ASSUME NEW ns, NEW gs, NEW top, Towers(ns, gs, top), NEW n, IsOn(gs, n), ns[n].parent # None
  PROVE  \E i \in DOMAIN gs : i # 1 /\ gs[i] = n /\ i - 1 \in DOMAIN gs /\ ns[n].parent = gs[i - 1]
<1>1. PICK i \in DOMAIN gs : gs[i] = n
  BY DEF IsOn
<1>2. i # 1
  BY <1>1 DEF Towers
<1> QED BY <1>1, <1>2 DEF Towers

LEMMA SpansAdds ==
  ASSUME NEW ns, NEW ms, NEW gs, NEW top, NEW os, NEW k, Tree(ns), Towers(ns, gs, top), Newest(ns, gs),
         NEW last, Spans(ns, last), Adds(ns, ms, top, os, k)
  PROVE  \E new : Spans(ms, new)
<1> DEFINE N == Len(ns) + 1
           new == [n \in DOMAIN ms |-> IF IsOn(gs, n) \/ n = N THEN N ELSE last[n]]
<1>1. /\ DOMAIN ns = 1..Len(ns) /\ Len(ns) \in Nat /\ N \in Nat
      /\ DOMAIN ms = 1..N /\ Len(ms) = N /\ N \in DOMAIN ms /\ N \notin DOMAIN ns /\ ms[N].parent = top
      /\ \A n \in DOMAIN ms : n \in Nat /\ n <= N /\ (n = N \/ n \in DOMAIN ns)
      /\ \A n \in DOMAIN ns : n \in DOMAIN ms /\ ns[n].parent \in {None} \cup DOMAIN ns
      /\ \A n \in DOMAIN ns : ms[n].kind = ns[n].kind
      /\ \A n \in DOMAIN ns : ms[n].parent # None => ms[n].parent = ns[n].parent
  BY DEF Tree, Adds, None
<1>2. /\ top \in DOMAIN ns /\ IsOn(gs, top) /\ \A n : IsOn(gs, n) => n \in DOMAIN ns
  BY DEF Towers, IsOn
<1>3. /\ \A n \in DOMAIN ns : last[n] \in Nat /\ n <= last[n] /\ last[n] < N
      /\ \A n \in DOMAIN ns : ns[n].parent # None => last[n] <= last[ns[n].parent]
  BY <1>1 DEF Spans
<1> HIDE DEF N
<1>4. new \in [DOMAIN ms -> Nat]
  BY <1>1, <1>3
<1>5. ASSUME NEW n \in DOMAIN ms
      PROVE  n <= new[n] /\ new[n] <= Len(ms) /\ (ms[n].parent # None => new[n] <= new[ms[n].parent])
  <2>1. n <= new[n] /\ new[n] <= Len(ms)
    BY <1>1, <1>3
  <2>2. ASSUME ms[n].parent # None PROVE new[n] <= new[ms[n].parent]
    <3>1. CASE n = N
      BY <1>1, <1>2, <3>1
    <3>2. CASE n \in DOMAIN ns
      <4>1. ms[n].parent = ns[n].parent /\ ns[n].parent \in DOMAIN ns /\ ns[n].parent \in DOMAIN ms
        BY <1>1, <2>2, <3>2
      <4>2. CASE IsOn(gs, n)
        <5>1. IsOn(gs, ns[n].parent)
          BY <2>2, <4>1, <4>2, StackGoesUp DEF IsOn
        <5> QED BY <1>1, <3>2, <4>1, <4>2, <5>1
      <4>3. CASE ~IsOn(gs, n)
        BY <1>1, <1>3, <2>2, <3>2, <4>1, <4>3
      <4> QED BY <4>2, <4>3
    <3> QED BY <1>1, <3>1, <3>2
  <2> QED BY <2>1, <2>2
<1>6. ASSUME NEW a \in DOMAIN ms, NEW b \in DOMAIN ms, a < b, Plain(ms, a), Plain(ms, b),
             ms[a].parent # None, ms[a].parent = ms[b].parent
      PROVE  new[a] < b
  <2>1. a \in DOMAIN ns /\ ns[a].parent = ms[a].parent /\ Plain(ns, a)
    BY <1>1, <1>6 DEF Plain
  <2>2. CASE b = N
    <3>1. ~IsOn(gs, a)
      BY <1>1, <1>6, <2>1, <2>2, InTopIsOff
    <3> QED BY <1>1, <1>3, <2>1, <2>2, <3>1
  <2>3. CASE b \in DOMAIN ns
    <3>1. ns[b].parent = ms[b].parent /\ Plain(ns, b)
      BY <1>1, <1>6, <2>3 DEF Plain
    <3>2. ~IsOn(gs, a)
      <4>1. SUFFICES ASSUME IsOn(gs, a) PROVE FALSE
        OBVIOUS
      <4>2. PICK i \in DOMAIN gs : i # 1 /\ gs[i] = a /\ ns[a].parent = gs[i - 1]
        BY <1>6, <2>1, <4>1, StackGoesUp
      <4>3. b <= a
        BY <1>6, <2>1, <2>3, <3>1, <4>2 DEF Newest
      <4> QED BY <1>1, <1>6, <4>3
    <3>3. last[a] < b
      BY <1>6, <2>1, <2>3, <3>1 DEF Spans
    <3> QED BY <1>1, <2>1, <3>2, <3>3
  <2> QED BY <1>1, <2>2, <2>3
<1> HIDE DEF new
<1>7. Spans(ms, new)
  BY <1>4, <1>5, <1>6 DEF Spans
<1> QED BY <1>7

LEMMA SpansWraps ==
  ASSUME NEW ns, NEW ms, NEW gs, NEW top, NEW os, NEW l, NEW k, Tree(ns), Towers(ns, gs, top), Newest(ns, gs),
         NEW last, Spans(ns, last), Wraps(ns, ms, top, os, l, k)
  PROVE  \E new : Spans(ms, new)
<1> DEFINE N == Len(ns) + 1
           M == Len(ns) + 2
           new == [n \in DOMAIN ms |-> IF IsOn(gs, n) \/ n \in {N, M} THEN M ELSE last[n]]
<1>1. /\ DOMAIN ns = 1..Len(ns) /\ Len(ns) \in Nat /\ N \in Nat /\ M \in Nat /\ N < M
      /\ DOMAIN ms = 1..M /\ Len(ms) = M /\ N \in DOMAIN ms /\ N \notin DOMAIN ns /\ M \in DOMAIN ms /\ M \notin DOMAIN ns
      /\ ms[N].parent = top /\ ms[N].kind = "branches" /\ ms[M].parent = N
      /\ l \in DOMAIN ns /\ ns[l].parent = top /\ ms[l].parent = N
      /\ \A n \in DOMAIN ms : n \in Nat /\ n <= M /\ (n = N \/ n = M \/ n \in DOMAIN ns)
      /\ \A n \in DOMAIN ns : n \in DOMAIN ms /\ ns[n].parent \in {None} \cup DOMAIN ns
      /\ \A n \in DOMAIN ns : ms[n].kind = ns[n].kind
      /\ \A n \in DOMAIN ns : n # l => ms[n].parent = ns[n].parent
  BY DEF Tree, Wraps, None
<1>2. /\ top \in DOMAIN ns /\ IsOn(gs, top) /\ (\A n : IsOn(gs, n) => n \in DOMAIN ns) /\ ~IsOn(gs, l)
  <2>1. ~IsOn(gs, l)
    BY <1>1, InTopIsOff
  <2> QED BY <2>1 DEF Towers, IsOn
<1>3. /\ \A n \in DOMAIN ns : last[n] \in Nat /\ n <= last[n] /\ last[n] < N
      /\ \A n \in DOMAIN ns : ns[n].parent # None => last[n] <= last[ns[n].parent]
  BY <1>1 DEF Spans
<1> HIDE DEF N, M
<1>4. new \in [DOMAIN ms -> Nat]
  BY <1>1, <1>3
<1>5. ASSUME NEW n \in DOMAIN ms
      PROVE  n <= new[n] /\ new[n] <= Len(ms) /\ (ms[n].parent # None => new[n] <= new[ms[n].parent])
  <2>1. n <= new[n] /\ new[n] <= Len(ms)
    BY <1>1, <1>3
  <2>2. ASSUME ms[n].parent # None PROVE new[n] <= new[ms[n].parent]
    <3>1. CASE n = N \/ n = M
      BY <1>1, <1>2, <3>1
    <3>2. CASE n = l
      BY <1>1, <1>2, <1>3, <3>2
    <3>3. CASE n \in DOMAIN ns /\ n # l
      <4>1. ms[n].parent = ns[n].parent /\ ns[n].parent \in DOMAIN ns /\ ns[n].parent \in DOMAIN ms
        BY <1>1, <2>2, <3>3
      <4>2. CASE IsOn(gs, n)
        <5>1. IsOn(gs, ns[n].parent)
          BY <2>2, <4>1, <4>2, StackGoesUp DEF IsOn
        <5> QED BY <1>1, <3>3, <4>1, <4>2, <5>1
      <4>3. CASE ~IsOn(gs, n)
        BY <1>1, <1>3, <2>2, <3>3, <4>1, <4>3
      <4> QED BY <4>2, <4>3
    <3> QED BY <1>1, <3>1, <3>2, <3>3
  <2> QED BY <2>1, <2>2
<1>6. ASSUME NEW a \in DOMAIN ms, NEW b \in DOMAIN ms, a < b, Plain(ms, a), Plain(ms, b),
             ms[a].parent # None, ms[a].parent = ms[b].parent
      PROVE  new[a] < b
  <2>1. a # N /\ b # N /\ a # M /\ a \in DOMAIN ns /\ Plain(ns, a)
    BY <1>1, <1>6 DEF Plain
  <2>2. CASE b = M
    <3>1. a = l
      BY <1>1, <1>6, <2>1, <2>2
    <3> QED BY <1>1, <1>2, <1>3, <2>2, <3>1
  <2>3. CASE b \in DOMAIN ns
    <3>1. a # l /\ b # l
      BY <1>1, <1>6, <2>1, <2>3
    <3>2. ns[a].parent = ms[a].parent /\ ns[b].parent = ms[b].parent /\ Plain(ns, b)
      BY <1>1, <1>6, <2>1, <2>3, <3>1 DEF Plain
    <3>3. ~IsOn(gs, a)
      <4>1. SUFFICES ASSUME IsOn(gs, a) PROVE FALSE
        OBVIOUS
      <4>2. PICK i \in DOMAIN gs : i # 1 /\ gs[i] = a /\ ns[a].parent = gs[i - 1]
        BY <1>6, <3>2, <4>1, StackGoesUp
      <4>3. b <= a
        BY <1>6, <2>1, <2>3, <3>2, <4>2 DEF Newest
      <4> QED BY <1>1, <1>6, <4>3
    <3>4. last[a] < b
      BY <1>6, <2>1, <2>3, <3>2 DEF Spans
    <3> QED BY <1>1, <2>1, <3>3, <3>4
  <2> QED BY <1>1, <2>1, <2>2, <2>3
<1> HIDE DEF new
<1>7. Spans(ms, new)
  BY <1>4, <1>5, <1>6 DEF Spans
<1> QED BY <1>7

LEMMA NewestAdds ==
  ASSUME NEW ns, NEW ms, NEW gs, NEW hs, NEW top, NEW os, NEW k, Tree(ns), Towers(ns, gs, top), Newest(ns, gs),
         Adds(ns, ms, top, os, k), MayPush(gs, hs, Len(ns) + 1)
  PROVE  Newest(ms, hs)
<1> DEFINE N == Len(ns) + 1
<1>1. /\ DOMAIN ns = 1..Len(ns) /\ Len(ns) \in Nat /\ N \in Nat /\ ms[N].parent = top
      /\ \A n \in DOMAIN ms : n \in Nat /\ n <= N /\ (n = N \/ n \in DOMAIN ns)
      /\ \A n \in DOMAIN ns : ms[n].kind = ns[n].kind
      /\ \A n \in DOMAIN ns : ms[n].parent # None => ms[n].parent = ns[n].parent
  BY DEF Tree, Adds
<1>2. /\ gs \in Seq(DOMAIN ns) /\ Distinct(gs) /\ Len(gs) \in Nat /\ DOMAIN gs = 1..Len(gs) /\ top = gs[Len(gs)]
      /\ \A i \in DOMAIN gs : gs[i] # None
  BY DEF Towers, Tree, None
<1>3. MayPush(gs, hs, N)
  OBVIOUS
<1> HIDE DEF N
<1>4. SUFFICES ASSUME NEW i \in DOMAIN hs, i # 1, Plain(ms, hs[i]), NEW n \in DOMAIN ms,
                      ms[n].parent = hs[i - 1], Plain(ms, n)
               PROVE  n <= hs[i]
  BY DEF Newest
<1>5. CASE i \in 1..Len(gs)
  <2>1. hs[i] = gs[i] /\ hs[i - 1] = gs[i - 1] /\ i \in DOMAIN gs /\ i - 1 \in DOMAIN gs
    BY <1>2, <1>3, <1>4, <1>5 DEF MayPush
  <2>2. n # N
    <3>1. Len(gs) \in DOMAIN gs /\ i - 1 # Len(gs)
      BY <1>2, <1>5
    <3>2. gs[i - 1] # gs[Len(gs)]
      BY <1>2, <2>1, <3>1 DEF Distinct
    <3> QED BY <1>1, <1>2, <1>4, <2>1, <3>2
  <2>3. n \in DOMAIN ns /\ ns[n].parent = gs[i - 1] /\ Plain(ns, n) /\ Plain(ns, gs[i])
    BY <1>1, <1>2, <1>4, <2>1, <2>2 DEF Plain
  <2> QED BY <1>4, <2>1, <2>3 DEF Newest
<1>6. CASE i = Len(gs) + 1
  BY <1>1, <1>3, <1>4, <1>6 DEF MayPush
<1>7. i \in 1..Len(gs) \/ i = Len(gs) + 1
  BY <1>2, <1>3, <1>4 DEF MayPush
<1> QED BY <1>5, <1>6, <1>7

LEMMA NewestWraps ==
  ASSUME NEW ns, NEW ms, NEW gs, NEW hs, NEW top, NEW os, NEW l, NEW k, Tree(ns), Towers(ns, gs, top), Newest(ns, gs),
         Wraps(ns, ms, top, os, l, k), DOMAIN hs = 1..(Len(gs) + 2), \A i \in 1..Len(gs) : hs[i] = gs[i],
         hs[Len(gs) + 1] = Len(ns) + 1, hs[Len(gs) + 2] = Len(ns) + 2
  PROVE  Newest(ms, hs)
<1> DEFINE N == Len(ns) + 1
           M == Len(ns) + 2
<1>1. /\ DOMAIN ns = 1..Len(ns) /\ Len(ns) \in Nat /\ N \in Nat /\ M \in Nat /\ N < M
      /\ ms[N].kind = "branches" /\ ms[M].parent = N /\ ms[l].parent = N
      /\ \A n \in DOMAIN ms : n \in Nat /\ n <= M /\ (n = N \/ n = M \/ n \in DOMAIN ns)
      /\ \A n \in DOMAIN ns : ms[n].kind = ns[n].kind
      /\ \A n \in DOMAIN ns : n # l => ms[n].parent = ns[n].parent
  BY DEF Tree, Wraps
<1>2. /\ gs \in Seq(DOMAIN ns) /\ Len(gs) \in Nat /\ DOMAIN gs = 1..Len(gs)
      /\ \A i \in DOMAIN gs : gs[i] \in DOMAIN ns /\ gs[i] # N
  BY <1>1 DEF Towers
<1>3. hs[Len(gs) + 1] = N /\ hs[Len(gs) + 2] = M
  OBVIOUS
<1> HIDE DEF N, M
<1>4. SUFFICES ASSUME NEW i \in DOMAIN hs, i # 1, Plain(ms, hs[i]), NEW n \in DOMAIN ms,
                      ms[n].parent = hs[i - 1], Plain(ms, n)
               PROVE  n <= hs[i]
  BY DEF Newest
<1>5. CASE i \in 1..Len(gs)
  <2>1. hs[i] = gs[i] /\ hs[i - 1] = gs[i - 1] /\ i \in DOMAIN gs /\ i - 1 \in DOMAIN gs
    BY <1>2, <1>4, <1>5
  <2>2. n \in DOMAIN ns /\ n # l
    BY <1>1, <1>2, <1>4, <2>1 DEF Plain
  <2>3. ns[n].parent = gs[i - 1] /\ Plain(ns, n) /\ Plain(ns, gs[i])
    BY <1>1, <1>2, <1>4, <2>1, <2>2 DEF Plain
  <2> QED BY <1>4, <2>1, <2>2, <2>3 DEF Newest
<1>6. CASE i = Len(gs) + 1
  BY <1>1, <1>3, <1>4, <1>6 DEF Plain
<1>7. CASE i = Len(gs) + 2
  BY <1>1, <1>3, <1>4, <1>7
<1>8. i \in 1..Len(gs) \/ i = Len(gs) + 1 \/ i = Len(gs) + 2
  BY <1>2, <1>4
<1> QED BY <1>5, <1>6, <1>7, <1>8

(* A node x is put on both stacks, or on none.                              *)
LEMMA StackedPushes ==
  ASSUME NEW ns, NEW ms, NEW gs, NEW hs, NEW os, NEW ps, NEW x, NEW D, x \notin D, Stacked(ns, gs, os),
         gs \in Seq(D), os \in Seq(D), Len(gs) >= 1,
         \A i \in DOMAIN gs : i # 1 => ms[gs[i]].parent = ns[gs[i]].parent,
         ms[x].parent = gs[Len(gs)], MayPush(gs, hs, x), MayPush(os, ps, x),
         DOMAIN ps = 1..(Len(os) + 1) => DOMAIN hs = 1..(Len(gs) + 1)
  PROVE  Stacked(ms, hs, ps)
<1>1. /\ DOMAIN gs = 1..Len(gs) /\ Len(gs) \in Nat /\ DOMAIN os = 1..Len(os) /\ Len(os) \in Nat
      /\ \A i \in 1..Len(gs) : gs[i] \in D /\ gs[i] # x /\ hs[i] = gs[i] /\ i \in DOMAIN hs
      /\ \A i \in 1..Len(os) : os[i] \in D /\ os[i] # x /\ ps[i] = os[i]
      /\ \A i \in DOMAIN hs : i \in 1..Len(gs) \/ (i = Len(gs) + 1 /\ hs[i] = x)
      /\ \A i \in DOMAIN ps : i \in 1..Len(os) \/ (i = Len(os) + 1 /\ ps[i] = x)
      /\ Len(os) + 1 \in DOMAIN ps => Len(gs) + 1 \in DOMAIN hs
  <2>1. /\ DOMAIN gs = 1..Len(gs) /\ Len(gs) \in Nat /\ DOMAIN os = 1..Len(os) /\ Len(os) \in Nat
        /\ (\A i \in 1..Len(gs) : gs[i] \in D) /\ (\A i \in 1..Len(os) : os[i] \in D)
    OBVIOUS
  <2>2. /\ DOMAIN hs = 1..Len(gs) \/ DOMAIN hs = 1..(Len(gs) + 1)
        /\ \A i \in 1..Len(gs) : hs[i] = gs[i]
        /\ Len(gs) + 1 \in DOMAIN hs => hs[Len(gs) + 1] = x
    BY DEF MayPush
  <2>3. /\ DOMAIN ps = 1..Len(os) \/ DOMAIN ps = 1..(Len(os) + 1)
        /\ \A i \in 1..Len(os) : ps[i] = os[i]
        /\ Len(os) + 1 \in DOMAIN ps => ps[Len(os) + 1] = x
    BY DEF MayPush
  <2>4. \A i \in 1..Len(gs) : gs[i] \in D /\ gs[i] # x /\ hs[i] = gs[i] /\ i \in DOMAIN hs
    BY <2>1, <2>2
  <2>5. \A i \in 1..Len(os) : os[i] \in D /\ os[i] # x /\ ps[i] = os[i]
    BY <2>1, <2>3
  <2>6. \A i \in DOMAIN hs : i \in 1..Len(gs) \/ (i = Len(gs) + 1 /\ hs[i] = x)
    BY <2>1, <2>2
  <2>7. \A i \in DOMAIN ps : i \in 1..Len(os) \/ (i = Len(os) + 1 /\ ps[i] = x)
    BY <2>1, <2>3
  <2>8. Len(os) + 1 \in DOMAIN ps => Len(gs) + 1 \in DOMAIN hs
    <3>1. SUFFICES ASSUME Len(os) + 1 \in DOMAIN ps PROVE Len(gs) + 1 \in DOMAIN hs
      OBVIOUS
    <3>2. DOMAIN ps = 1..(Len(os) + 1)
      <4>1. Len(os) + 1 \notin 1..Len(os)
        BY <2>1
      <4> QED BY <2>3, <3>1, <4>1
    <3>3. Len(gs) + 1 \in 1..(Len(gs) + 1)
      BY <2>1
    <3> QED BY <3>2, <3>3
  <2> QED BY <2>1, <2>4, <2>5, <2>6, <2>7, <2>8
<1>2. hs[1] = 1 /\ \A i \in DOMAIN hs : i # 1 => ms[hs[i]].parent = hs[i - 1]
  <2>1. hs[1] = 1
    BY <1>1 DEF Stacked
  <2>2. ASSUME NEW i \in 1..Len(gs), i # 1 PROVE ms[hs[i]].parent = hs[i - 1]
    BY <1>1, <2>2 DEF Stacked
  <2>3. ASSUME Len(gs) + 1 \in DOMAIN hs PROVE ms[hs[Len(gs) + 1]].parent = hs[Len(gs)]
    BY <1>1, <2>3
  <2> QED BY <1>1, <2>1, <2>2, <2>3
<1>3. \A i \in DOMAIN ps : IsOn(hs, ps[i])
  <2>1. ASSUME NEW i \in 1..Len(os) PROVE IsOn(hs, ps[i])
    BY <1>1 DEF Stacked, IsOn
  <2> QED BY <1>1, <2>1 DEF IsOn
<1>4. ASSUME NEW i \in DOMAIN ps, NEW j \in DOMAIN ps, NEW k \in DOMAIN hs, NEW l \in DOMAIN hs,
             i < j, hs[k] = ps[i], hs[l] = ps[j]
      PROVE  k < l
  <2>1. i \in 1..Len(os) /\ k \in 1..Len(gs)
    BY <1>1, <1>4
  <2>2. CASE j \in 1..Len(os)
    <3>1. l \in 1..Len(gs)
      BY <1>1, <1>4, <2>2
    <3> QED BY <1>1, <1>4, <2>1, <2>2, <3>1 DEF Stacked
  <2>3. CASE j = Len(os) + 1
    <3>1. l = Len(gs) + 1
      BY <1>1, <1>4, <2>3
    <3> QED BY <1>1, <2>1, <3>1
  <2> QED BY <1>1, <2>2, <2>3
<1> QED BY <1>2, <1>3, <1>4 DEF Stacked

(* A group of branches is put on the compiler's stack only.                 *)
LEMMA StackedGroup ==
  ASSUME NEW ns, NEW ms, NEW gs, NEW os, NEW x, NEW D, x \notin D, Stacked(ns, gs, os),
         gs \in Seq(D), os \in Seq(D), Len(gs) >= 1,
         \A i \in DOMAIN gs : i # 1 => ms[gs[i]].parent = ns[gs[i]].parent,
         ms[x].parent = gs[Len(gs)]
  PROVE  Stacked(ms, Append(gs, x), os)
<1>1. PICK hs : hs = Append(gs, x)
  OBVIOUS
<1>2. MayPush(gs, hs, x) /\ MayPush(os, os, x)
  BY <1>1 DEF MayPush
<1>3. ~(DOMAIN os = 1..(Len(os) + 1))
  <2>1. DOMAIN os = 1..Len(os) /\ Len(os) \in Nat
    OBVIOUS
  <2>2. Len(os) + 1 \in 1..(Len(os) + 1) /\ Len(os) + 1 \notin 1..Len(os)
    BY <2>1
  <2> QED BY <2>1, <2>2
<1> QED BY <1>1, <1>2, <1>3, StackedPushes

LEMMA StackedPops ==
  ASSUME NEW ns, NEW gs, NEW os, Tree(ns), Stacks(ns, gs, os), Stacked(ns, gs, os), Len(os) > 1,
         NEW h \in Nat, h >= 1, h = Len(gs) - (IF ns[os[Len(os)]].kind = "else" THEN 2 ELSE 1)
  PROVE  Stacked(ns, SubSeq(gs, 1, h), SubSeq(os, 1, Len(os) - 1))
<1>1. PICK hs : hs = SubSeq(gs, 1, h)
  OBVIOUS
<1>2. PICK ps : ps = SubSeq(os, 1, Len(os) - 1)
  OBVIOUS
<1>3. PICK K : K = Len(os)
  OBVIOUS
<1>4. PICK L : L = Len(gs)
  OBVIOUS
<1>5. /\ gs \in Seq(DOMAIN ns) /\ os \in Seq(DOMAIN ns) /\ L \in Nat /\ K \in Nat /\ K > 1
      /\ DOMAIN gs = 1..L /\ DOMAIN os = 1..K
  BY <1>3, <1>4 DEF Stacks
<1>6. h < L /\ (ns[os[K]].kind = "else" => h + 2 = L) /\ (ns[os[K]].kind # "else" => h + 1 = L)
  BY <1>3, <1>4, <1>5
<1>7. /\ DOMAIN hs = 1..h /\ \A i \in 1..h : hs[i] = gs[i] /\ i \in 1..L
      /\ DOMAIN ps = 1..(K - 1) /\ \A i \in 1..(K - 1) : ps[i] = os[i] /\ i \in 1..K
  BY <1>1, <1>2, <1>3, <1>4, <1>5, <1>6
<1>20. /\ gs[1] = 1 /\ \A i \in 1..L : i # 1 => ns[gs[i]].parent = gs[i - 1]
       /\ \A i, j \in 1..K : \A k, l \in 1..L : i < j /\ gs[k] = os[i] /\ gs[l] = os[j] => k < l
  BY <1>5 DEF Stacked
<1>8. hs[1] = 1 /\ \A i \in DOMAIN hs : i # 1 => ns[hs[i]].parent = hs[i - 1]
  <2>1. 1 \in 1..h /\ \A i \in 1..h : i # 1 => i - 1 \in 1..h
    OBVIOUS
  <2> QED BY <1>7, <1>20, <2>1
<1>9. ASSUME NEW i \in 1..(K - 1) PROVE IsOn(hs, os[i])
  <2>1. PICK a \in 1..L : gs[a] = os[i]
    BY <1>5, <1>7 DEF Stacked, IsOn
  <2>2. PICK b \in 1..L : gs[b] = os[K]
    BY <1>5 DEF Stacked, IsOn
  <2>3. a < b
    <3>1. i \in 1..K /\ K \in 1..K /\ i < K
      BY <1>5
    <3> QED BY <1>20, <2>1, <2>2, <3>1
  <2>4. ASSUME ns[os[K]].kind = "else", b = L PROVE a # L - 1
    <3>1. L # 1 /\ L \in DOMAIN gs
      BY <1>5, <2>1, <2>2, <2>3, <2>4
    <3>2. ns[os[K]].parent = gs[L - 1] /\ os[K] \in DOMAIN ns
      BY <1>5, <2>2, <2>4, <3>1 DEF Stacked
    <3>3. ns[gs[L - 1]].kind = "branches"
      BY <2>4, <3>2 DEF Tree
    <3>4. ns[os[i]].kind # "branches"
      <4>1. os[1] = 1 /\ ns[1].kind = "pipeline" /\ (i # 1 => ns[os[i]].kind \in Block)
        BY <1>5, <1>7 DEF Stacks, Tree
      <4>2. "branches" \notin Block
        BY DEF Block, Condition
      <4>3. CASE i = 1
        BY <4>1, <4>3
      <4>4. CASE i # 1
        BY <4>1, <4>2, <4>4
      <4> QED BY <4>3, <4>4
    <3> QED BY <2>1, <3>3, <3>4
  <2>5. a \in 1..h
    BY <1>5, <1>6, <2>3, <2>4
  <2> QED BY <1>7, <2>1, <2>5 DEF IsOn
<1>10. \A i \in DOMAIN ps : IsOn(hs, ps[i])
  BY <1>7, <1>9
<1>11. ASSUME NEW i \in 1..(K - 1), NEW j \in 1..(K - 1), NEW k \in 1..h, NEW l \in 1..h,
              i < j, hs[k] = ps[i], hs[l] = ps[j]
       PROVE  k < l
  <2>1. i \in 1..K /\ j \in 1..K /\ k \in 1..L /\ l \in 1..L /\ gs[k] = os[i] /\ gs[l] = os[j]
    BY <1>7, <1>11
  <2> QED BY <1>11, <1>20, <2>1
<1>12. Stacked(ns, hs, ps)
  <2>1. DOMAIN hs = 1..h /\ DOMAIN ps = 1..(K - 1)
    BY <1>7
  <2>2. \A i, j \in DOMAIN ps : \A k, l \in DOMAIN hs : i < j /\ hs[k] = ps[i] /\ hs[l] = ps[j] => k < l
    BY <1>11, <2>1
  <2> QED BY <1>8, <1>10, <2>2 DEF Stacked
<1> QED BY <1>1, <1>2, <1>12

(* What is around a node in the group on top is on the stack.               *)
LEMMA StackSet ==
  ASSUME NEW gs, NEW top, NEW up, Len(gs) \in Nat, Len(gs) >= 1, top = gs[Len(gs)],
         \A i \in 1..Len(gs) : gs[i] \in Nat, \A i \in 1..Len(gs) : up[gs[i]] = Around(gs, i)
  PROVE  up[top] \cup {top} = Around(gs, Len(gs) + 1) /\ Around(gs, Len(gs) + 1) \subseteq Nat
<1>1. PICK L : L = Len(gs)
  OBVIOUS
<1>2. L \in Nat /\ L >= 1 /\ top = gs[L] /\ L \in 1..L /\ (L + 1) - 1 = L
  BY <1>1
<1>3. up[top] = {gs[j] : j \in 1..(L - 1)}
  BY <1>1, <1>2 DEF Around
<1>4. \A j \in 1..L : j \in 1..(L - 1) \/ j = L
  BY <1>2
<1>5. \A j \in 1..(L - 1) : j \in 1..L
  BY <1>2
<1> DEFINE G == {gs[j] : j \in 1..L}
<1>6. up[top] \subseteq G /\ top \in G
  <2>1. \A j \in 1..(L - 1) : gs[j] \in G
    BY <1>5
  <2>2. top \in G
    BY <1>2
  <2> HIDE DEF G
  <2> QED BY <1>3, <2>1, <2>2
<1>7. G \subseteq up[top] \cup {top}
  BY <1>2, <1>3, <1>4
<1>8. G \subseteq Nat
  BY <1>1
<1>9. Around(gs, L + 1) = G
  BY <1>2 DEF Around
<1> HIDE DEF G
<1> QED BY <1>1, <1>6, <1>7, <1>8, <1>9

LEMMA OnStack ==
  ASSUME NEW gs, NEW n, Len(gs) \in Nat, DOMAIN gs = 1..Len(gs), IsOn(gs, n)
  PROVE  n \in Around(gs, Len(gs) + 1)
<1>1. PICK i \in 1..Len(gs) : gs[i] = n
  BY DEF IsOn
<1>2. (Len(gs) + 1) - 1 = Len(gs)
  OBVIOUS
<1> QED BY <1>1, <1>2 DEF Around

LEMMA SamePart ==
  ASSUME NEW gs, NEW hs, NEW i \in Int, \A j \in 1..(i - 1) : hs[j] = gs[j]
  PROVE  Around(hs, i) = Around(gs, i)
BY DEF Around

LEMMA AroundGrows ==
  ASSUME NEW hs, NEW k \in Nat, NEW i, i = k + 2
  PROVE  Around(hs, i) = Around(hs, k + 1) \cup {hs[k + 1]}
<1>1. i - 1 = k + 1 /\ (k + 1) - 1 = k
  OBVIOUS
<1>2. \A j \in 1..(k + 1) : j \in 1..k \/ j = k + 1
  OBVIOUS
<1>3. \A j \in 1..k : j \in 1..(k + 1)
  OBVIOUS
<1>4. k + 1 \in 1..(k + 1)
  OBVIOUS
<1>5. Around(hs, i) = {hs[j] : j \in 1..(k + 1)} /\ Around(hs, k + 1) = {hs[j] : j \in 1..k}
  BY <1>1 DEF Around
<1>6. {hs[j] : j \in 1..(k + 1)} \subseteq {hs[j] : j \in 1..k} \cup {hs[k + 1]}
  BY <1>2
<1>7. {hs[j] : j \in 1..k} \cup {hs[k + 1]} \subseteq {hs[j] : j \in 1..(k + 1)}
  BY <1>3, <1>4
<1> QED BY <1>5, <1>6, <1>7

LEMMA SurroundsAdds ==
  ASSUME NEW ns, NEW ms, NEW gs, NEW hs, NEW top, NEW os, NEW k, Tree(ns), Towers(ns, gs, top), Stacked(ns, gs, os),
         NEW up, Surrounds(ns, gs, up), Adds(ns, ms, top, os, k), Notes(ns, ms), Scoped(ns, ms, top, os),
         MayPush(gs, hs, Len(ns) + 1)
  PROVE  \E new : Surrounds(ms, hs, new)
<1> DEFINE N == Len(ns) + 1
           G == Around(gs, Len(gs) + 1)
           new == [n \in DOMAIN ms |-> IF n = N THEN G ELSE up[n]]
<1>1. /\ DOMAIN ns = 1..Len(ns) /\ Len(ns) \in Nat /\ N \in Nat /\ ms[N].parent = top /\ N \notin DOMAIN ns /\ N \in DOMAIN ms
      /\ \A n \in DOMAIN ms : n \in Nat /\ (n = N \/ n \in DOMAIN ns)
      /\ \A n \in DOMAIN ns : n \in DOMAIN ms /\ ns[n].parent \in {None} \cup DOMAIN ns /\ ms[n].reads = ns[n].reads
      /\ \A n \in DOMAIN ns : ms[n].parent # None => ms[n].parent = ns[n].parent
      /\ 1 \in DOMAIN ns /\ Heard(ns, ms[N].reads, top, os)
  BY DEF Tree, Adds, Notes, Scoped, None
<1>2. /\ Len(gs) \in Nat /\ Len(gs) >= 1 /\ DOMAIN gs = 1..Len(gs) /\ top = gs[Len(gs)] /\ top \in DOMAIN ns /\ top # None
      /\ \A i \in 1..Len(gs) : gs[i] \in DOMAIN ns /\ gs[i] \in Nat
  BY <1>1 DEF Towers
<1>3. MayPush(gs, hs, N)
  OBVIOUS
<1> HIDE DEF N
<1>4. up \in [DOMAIN ns -> SUBSET Nat] /\ up[1] = {} /\ \A i \in 1..Len(gs) : up[gs[i]] = Around(gs, i)
  BY <1>2 DEF Surrounds
<1>5. up[top] \cup {top} = G /\ G \subseteq Nat
  <2>1. Len(gs) \in Nat /\ Len(gs) >= 1 /\ top = gs[Len(gs)]
    BY <1>2
  <2>2. \A i \in 1..Len(gs) : gs[i] \in Nat
    BY <1>2
  <2>3. \A i \in 1..Len(gs) : up[gs[i]] = Around(gs, i)
    BY <1>4
  <2> QED BY <2>1, <2>2, <2>3, StackSet
<1> HIDE DEF G
<1>6. new \in [DOMAIN ms -> SUBSET Nat] /\ new[1] = {}
  BY <1>1, <1>4, <1>5
<1>7. ASSUME NEW n \in DOMAIN ms, ms[n].parent # None
      PROVE  /\ new[n] \subseteq new[ms[n].parent] \cup {ms[n].parent}
             /\ \A r \in ms[n].reads : r.loop # None => r.loop \in new[n]
  <2>1. CASE n = N
    <3>1. new[n] = G /\ new[top] = up[top]
      BY <1>1, <1>2, <2>1
    <3>2. ASSUME NEW r \in ms[N].reads, r.loop # None PROVE r.loop \in G
      <4>1. CASE IsOn(os, r.loop)
        <5>1. IsOn(gs, r.loop)
          BY <4>1 DEF Stacked, IsOn
        <5> QED BY <1>2, <5>1, OnStack DEF G
      <4>2. CASE \E l \in DOMAIN ns : ns[l].parent = top /\ r \in ns[l].reads
        BY <1>2, <1>5, <3>2, <4>2 DEF Surrounds
      <4> QED BY <1>1, <3>2, <4>1, <4>2 DEF Heard
    <3> QED BY <1>1, <1>5, <2>1, <3>1, <3>2
  <2>2. CASE n \in DOMAIN ns
    <3>1. /\ ms[n].parent = ns[n].parent /\ ns[n].parent \in DOMAIN ns /\ ns[n].parent # None
          /\ new[n] = up[n] /\ new[ns[n].parent] = up[ns[n].parent] /\ ms[n].reads = ns[n].reads
      BY <1>1, <1>7, <2>2
    <3> QED BY <2>2, <3>1 DEF Surrounds
  <2> QED BY <1>1, <2>1, <2>2
<1>8. ASSUME NEW i \in DOMAIN hs PROVE new[hs[i]] = Around(hs, i)
  <2>1. \A j \in 1..(i - 1) : j \in 1..Len(gs) /\ hs[j] = gs[j]
    BY <1>2, <1>3 DEF MayPush
  <2>2. CASE i \in 1..Len(gs)
    <3>1. hs[i] = gs[i] /\ new[gs[i]] = up[gs[i]]
      BY <1>1, <1>2, <1>3, <2>2 DEF MayPush
    <3>2. new[hs[i]] = Around(gs, i)
      BY <1>4, <2>2, <3>1
    <3>3. i \in Int
      BY <2>2
    <3>4. Around(hs, i) = Around(gs, i)
      BY <2>1, <3>3, SamePart
    <3> QED BY <3>2, <3>4
  <2>3. CASE i = Len(gs) + 1
    <3>1. hs[i] = N /\ new[N] = G /\ i \in Int
      BY <1>1, <1>2, <1>3, <2>3 DEF MayPush
    <3>2. Around(hs, i) = Around(gs, i)
      BY <2>1, <3>1, SamePart
    <3> QED BY <2>3, <3>1, <3>2 DEF G
  <2>4. i \in 1..Len(gs) \/ i = Len(gs) + 1
    BY <1>2, <1>3 DEF MayPush
  <2> QED BY <2>2, <2>3, <2>4
<1> HIDE DEF new
<1>9. Surrounds(ms, hs, new)
  BY <1>6, <1>7, <1>8 DEF Surrounds
<1> QED BY <1>9

LEMMA SurroundsWraps ==
  ASSUME NEW ns, NEW ms, NEW gs, NEW hs, NEW top, NEW os, NEW l, NEW k, Tree(ns), Towers(ns, gs, top), Stacked(ns, gs, os),
         NEW up, Surrounds(ns, gs, up), Wraps(ns, ms, top, os, l, k), Notes(ns, ms), Scoped(ns, ms, top, os),
         ms[Len(ns) + 1].reads = {}, DOMAIN hs = 1..(Len(gs) + 2), \A i \in 1..Len(gs) : hs[i] = gs[i],
         hs[Len(gs) + 1] = Len(ns) + 1, hs[Len(gs) + 2] = Len(ns) + 2
  PROVE  \E new : Surrounds(ms, hs, new)
<1> DEFINE N == Len(ns) + 1
           M == Len(ns) + 2
           G == Around(gs, Len(gs) + 1)
           new == [n \in DOMAIN ms |-> IF n = N THEN G ELSE IF n = M THEN G \cup {N} ELSE up[n]]
<1>1. /\ DOMAIN ns = 1..Len(ns) /\ Len(ns) \in Nat /\ N \in Nat /\ M \in Nat /\ N # M
      /\ N \notin DOMAIN ns /\ M \notin DOMAIN ns /\ N \in DOMAIN ms /\ M \in DOMAIN ms
      /\ ms[N].parent = top /\ ms[M].parent = N /\ ms[l].parent = N /\ l \in DOMAIN ns /\ ns[l].parent = top
      /\ \A n \in DOMAIN ms : n \in Nat /\ (n = N \/ n = M \/ n \in DOMAIN ns)
      /\ \A n \in DOMAIN ns : n \in DOMAIN ms /\ ns[n].parent \in {None} \cup DOMAIN ns /\ ms[n].reads = ns[n].reads
      /\ \A n \in DOMAIN ns : n # l => ms[n].parent = ns[n].parent
      /\ 1 \in DOMAIN ns /\ Heard(ns, ms[M].reads, top, os) /\ ms[N].reads = {}
  <2>1. DOMAIN ns = 1..Len(ns) /\ Len(ns) \in Nat /\ 1 \in DOMAIN ns
    BY DEF Tree
  <2>2. /\ DOMAIN ms = 1..(Len(ns) + 2)
        /\ ms[N].parent = top /\ ms[M].parent = N /\ l \in DOMAIN ns /\ ns[l].parent = top
        /\ \A n \in DOMAIN ns : ms[n].parent = IF n = l THEN N ELSE ns[n].parent
    BY DEF Wraps
  <2>3. N \in Nat /\ M \in Nat /\ N # M /\ N \notin DOMAIN ns /\ M \notin DOMAIN ns /\ N \in DOMAIN ms /\ M \in DOMAIN ms
    BY <2>1, <2>2
  <2>4. /\ \A n \in DOMAIN ms : n \in Nat /\ (n = N \/ n = M \/ n \in DOMAIN ns)
        /\ \A n \in DOMAIN ns : n \in DOMAIN ms
    BY <2>1, <2>2
  <2>5. \A n \in DOMAIN ns : ns[n].parent \in {None} \cup DOMAIN ns /\ ms[n].reads = ns[n].reads
    BY DEF Tree, Notes
  <2>6. Heard(ns, ms[M].reads, top, os)
    BY <2>3 DEF Scoped
  <2> QED BY <2>1, <2>2, <2>3, <2>4, <2>5, <2>6
<1>2. /\ Len(gs) \in Nat /\ Len(gs) >= 1 /\ DOMAIN gs = 1..Len(gs) /\ top = gs[Len(gs)] /\ top \in DOMAIN ns /\ top # None
      /\ \A i \in 1..Len(gs) : gs[i] \in DOMAIN ns /\ gs[i] \in Nat
  BY <1>1 DEF Towers
<1>3. hs[Len(gs) + 1] = N /\ hs[Len(gs) + 2] = M
  OBVIOUS
<1> HIDE DEF N, M
<1>4. up \in [DOMAIN ns -> SUBSET Nat] /\ up[1] = {} /\ \A i \in 1..Len(gs) : up[gs[i]] = Around(gs, i)
  BY <1>2 DEF Surrounds
<1>5. up[top] \cup {top} = G /\ G \subseteq Nat
  <2>1. Len(gs) \in Nat /\ Len(gs) >= 1 /\ top = gs[Len(gs)]
    BY <1>2
  <2>2. \A i \in 1..Len(gs) : gs[i] \in Nat
    BY <1>2
  <2>3. \A i \in 1..Len(gs) : up[gs[i]] = Around(gs, i)
    BY <1>4
  <2> QED BY <2>1, <2>2, <2>3, StackSet
<1> HIDE DEF G
<1>6. new \in [DOMAIN ms -> SUBSET Nat] /\ new[1] = {}
  BY <1>1, <1>4, <1>5
<1>7. ASSUME NEW n \in DOMAIN ms, ms[n].parent # None
      PROVE  /\ new[n] \subseteq new[ms[n].parent] \cup {ms[n].parent}
             /\ \A r \in ms[n].reads : r.loop # None => r.loop \in new[n]
  <2>1. CASE n = N
    <3>1. new[n] = G /\ new[top] = up[top]
      BY <1>1, <1>2, <2>1
    <3> QED BY <1>1, <1>5, <2>1, <3>1
  <2>2. CASE n = M
    <3>1. new[n] = G \cup {N} /\ new[N] = G
      BY <1>1, <1>2, <2>2
    <3>2. ASSUME NEW r \in ms[M].reads, r.loop # None PROVE r.loop \in G
      <4>1. CASE IsOn(os, r.loop)
        <5>1. IsOn(gs, r.loop)
          BY <4>1 DEF Stacked, IsOn
        <5> QED BY <1>2, <5>1, OnStack DEF G
      <4>2. CASE \E m \in DOMAIN ns : ns[m].parent = top /\ r \in ns[m].reads
        BY <1>2, <1>5, <3>2, <4>2 DEF Surrounds
      <4> QED BY <1>1, <3>2, <4>1, <4>2 DEF Heard
    <3> QED BY <1>1, <2>2, <3>1, <3>2
  <2>3. CASE n = l
    <3>1. new[n] = up[n] /\ new[N] = G /\ n \in DOMAIN ns /\ ns[n].parent = top /\ ms[n].reads = ns[n].reads
      BY <1>1, <2>3
    <3>2. up[n] \subseteq G /\ \A r \in ns[n].reads : r.loop # None => r.loop \in up[n]
      BY <1>2, <1>5, <3>1 DEF Surrounds
    <3> QED BY <1>1, <2>3, <3>1, <3>2
  <2>4. CASE n \in DOMAIN ns /\ n # l
    <3>1. /\ ms[n].parent = ns[n].parent /\ ns[n].parent \in DOMAIN ns /\ ns[n].parent # None
          /\ new[n] = up[n] /\ new[ns[n].parent] = up[ns[n].parent] /\ ms[n].reads = ns[n].reads
      BY <1>1, <1>7, <2>4
    <3> QED BY <2>4, <3>1 DEF Surrounds
  <2> QED BY <1>1, <2>1, <2>2, <2>3, <2>4
<1>8. ASSUME NEW i \in DOMAIN hs PROVE new[hs[i]] = Around(hs, i)
  <2>1. CASE i \in 1..Len(gs)
    <3>1. hs[i] = gs[i] /\ new[gs[i]] = up[gs[i]] /\ \A j \in 1..(i - 1) : j \in 1..Len(gs) /\ hs[j] = gs[j]
      BY <1>1, <1>2, <2>1
    <3>2. new[hs[i]] = Around(gs, i)
      BY <1>4, <2>1, <3>1
    <3>3. Around(hs, i) = Around(gs, i)
      <4>1. i \in Int
        BY <2>1
      <4> QED BY <3>1, <4>1, SamePart
    <3> QED BY <3>2, <3>3
  <2>2. CASE i = Len(gs) + 1
    <3>1. hs[i] = N /\ new[N] = G /\ i \in Int /\ \A j \in 1..(i - 1) : hs[j] = gs[j]
      BY <1>1, <1>2, <1>3, <2>2
    <3>2. Around(hs, i) = Around(gs, i)
      BY <3>1, SamePart
    <3> QED BY <2>2, <3>1, <3>2 DEF G
  <2>3. CASE i = Len(gs) + 2
    <3>1. hs[i] = M /\ new[M] = G \cup {N}
      BY <1>1, <1>2, <1>3, <2>3
    <3>2. Around(hs, Len(gs) + 1) = G
      <4>1. Len(gs) + 1 \in Int /\ \A j \in 1..((Len(gs) + 1) - 1) : hs[j] = gs[j]
        BY <1>2
      <4> QED BY <4>1, SamePart DEF G
    <3>3. Around(hs, i) = Around(hs, Len(gs) + 1) \cup {hs[Len(gs) + 1]}
      BY <1>2, <2>3, AroundGrows
    <3> QED BY <1>3, <3>1, <3>2, <3>3
  <2>4. i \in 1..Len(gs) \/ i = Len(gs) + 1 \/ i = Len(gs) + 2
    BY <1>2
  <2> QED BY <2>1, <2>2, <2>3, <2>4
<1> HIDE DEF new
<1>9. Surrounds(ms, hs, new)
  BY <1>6, <1>7, <1>8 DEF Surrounds
<1> QED BY <1>9

(* Of a shorter stack the same holds.                                       *)
LEMMA NestedPops ==
  ASSUME NEW ns, NEW gs, NEW os, Tree(ns), Stacks(ns, gs, os), Nested(ns, gs, os), Len(os) > 1,
         NEW h \in Nat, h >= 1, h = Len(gs) - (IF ns[os[Len(os)]].kind = "else" THEN 2 ELSE 1)
  PROVE  Nested(ns, SubSeq(gs, 1, h), SubSeq(os, 1, Len(os) - 1))
<1>1. PICK hs : hs = SubSeq(gs, 1, h)
  OBVIOUS
<1>2. PICK c \in {1, 2} : c = IF ns[os[Len(os)]].kind = "else" THEN 2 ELSE 1
  OBVIOUS
<1>3. PICK L : L = Len(gs)
  OBVIOUS
<1>4. gs \in Seq(DOMAIN ns) /\ L \in Nat /\ DOMAIN gs = 1..L /\ h = L - c
  BY <1>2, <1>3 DEF Stacks
<1>5. DOMAIN hs = 1..h /\ \A i \in 1..h : hs[i] = gs[i] /\ i \in DOMAIN gs
  BY <1>1, <1>2, <1>3, <1>4
<1>6. Stacked(ns, hs, SubSeq(os, 1, Len(os) - 1))
  BY <1>1, StackedPops DEF Nested
<1>7. Newest(ns, hs)
  <2>1. \A i \in 1..h : i # 1 => i - 1 \in 1..h
    OBVIOUS
  <2> QED BY <1>5, <2>1 DEF Nested, Newest
<1>8. ASSUME NEW up, Surrounds(ns, gs, up) PROVE Surrounds(ns, hs, up)
  <2>1. ASSUME NEW i \in DOMAIN hs PROVE up[hs[i]] = Around(hs, i)
    <3>1. \A j \in 1..(i - 1) : j \in 1..h
      BY <1>5
    <3>2. up[gs[i]] = Around(gs, i)
      BY <1>5, <1>8 DEF Surrounds
    <3>3. i - 1 \in Int /\ hs[i] = gs[i] /\ \A j \in 1..(i - 1) : hs[j] = gs[j]
      BY <1>5, <3>1
    <3>4. Around(hs, i) = Around(gs, i)
      <4>1. i \in Int
        BY <1>5
      <4> QED BY <3>3, <4>1, SamePart
    <3> QED BY <3>2, <3>3, <3>4
  <2> QED BY <1>8, <2>1 DEF Surrounds
<1> QED BY <1>1, <1>6, <1>7, <1>8 DEF Nested

LEMMA NestedAdds ==
  ASSUME NEW ns, NEW ms, NEW gs, NEW hs, NEW top, NEW os, NEW ps, NEW k, Tree(ns), Stacks(ns, gs, os),
         Towers(ns, gs, top), Nested(ns, gs, os), Adds(ns, ms, top, os, k), Notes(ns, ms), Scoped(ns, ms, top, os),
         MayPush(gs, hs, Len(ns) + 1), MayPush(os, ps, Len(ns) + 1),
         DOMAIN ps = 1..(Len(os) + 1) => DOMAIN hs = 1..(Len(gs) + 1)
  PROVE  Nested(ms, hs, ps)
<1>1. PICK N : N = Len(ns) + 1
  OBVIOUS
<1>2. PICK D : D = DOMAIN ns
  OBVIOUS
<1>3. /\ N \notin D /\ ms[N].parent = gs[Len(gs)] /\ gs \in Seq(D) /\ os \in Seq(D) /\ Len(gs) >= 1
      /\ \A i \in DOMAIN gs : i # 1 => ms[gs[i]].parent = ns[gs[i]].parent
  <2>1. N \notin D /\ ms[N].parent = gs[Len(gs)] /\ gs \in Seq(D) /\ os \in Seq(D) /\ Len(gs) >= 1
    BY <1>1, <1>2 DEF Tree, Stacks, Towers, Adds
  <2>2. \A i \in DOMAIN gs : gs[i] \in D /\ ns[gs[i]].kind # "task"
    BY <1>2 DEF Towers
  <2> QED BY <1>2, <2>1, <2>2 DEF Adds
<1>4. Stacked(ms, hs, ps)
  <2>1. Stacked(ns, gs, os) /\ MayPush(gs, hs, N) /\ MayPush(os, ps, N)
    BY <1>1 DEF Nested
  <2> QED BY <1>3, <2>1, StackedPushes
<1>5. Newest(ms, hs)
  BY NewestAdds DEF Nested
<1>6. \E last : Spans(ms, last)
  <2>1. PICK last : Spans(ns, last)
    BY DEF Nested
  <2> QED BY <2>1, SpansAdds DEF Nested
<1>7. \E up : Surrounds(ms, hs, up)
  <2>1. PICK up : Surrounds(ns, gs, up)
    BY DEF Nested
  <2> QED BY <2>1, SurroundsAdds DEF Nested
<1> QED BY <1>4, <1>5, <1>6, <1>7 DEF Nested

LEMMA NestedWraps ==
  ASSUME NEW ns, NEW ms, NEW gs, NEW top, NEW os, NEW l, NEW k, Tree(ns), Stacks(ns, gs, os),
         Towers(ns, gs, top), Nested(ns, gs, os), Wraps(ns, ms, top, os, l, k), Notes(ns, ms), Scoped(ns, ms, top, os),
         ms[Len(ns) + 1].reads = {}
  PROVE  Nested(ms, gs \o <<Len(ns) + 1, Len(ns) + 2>>, Append(os, Len(ns) + 2))
<1>1. PICK N : N = Len(ns) + 1
  OBVIOUS
<1>2. PICK M : M = Len(ns) + 2
  OBVIOUS
<1>3. PICK D : D = DOMAIN ns
  OBVIOUS
<1>4. PICK hs : hs = gs \o <<N, M>>
  OBVIOUS
<1>5. PICK fs : fs = Append(gs, N)
  OBVIOUS
<1>6. PICK ps : ps = Append(os, M)
  OBVIOUS
<1>7. /\ N \notin D /\ M \notin D \cup {N} /\ ms[N].parent = gs[Len(gs)] /\ ms[M].parent = N
      /\ gs \in Seq(D) /\ os \in Seq(D) /\ Len(gs) \in Nat /\ Len(gs) >= 1 /\ DOMAIN gs = 1..Len(gs)
      /\ Len(os) \in Nat /\ DOMAIN os = 1..Len(os)
      /\ \A i \in DOMAIN gs : i # 1 => ms[gs[i]].parent = ns[gs[i]].parent
  <2>1. /\ N \notin D /\ M \notin D \cup {N} /\ ms[N].parent = gs[Len(gs)] /\ ms[M].parent = N
        /\ gs \in Seq(D) /\ os \in Seq(D) /\ Len(gs) \in Nat /\ Len(gs) >= 1 /\ DOMAIN gs = 1..Len(gs)
        /\ Len(os) \in Nat /\ DOMAIN os = 1..Len(os)
    BY <1>1, <1>2, <1>3 DEF Tree, Stacks, Towers, Wraps
  <2>2. ~IsOn(gs, l)
    <3>1. ns[l].parent = top
      BY DEF Wraps
    <3> QED BY <3>1, InTopIsOff
  <2>3. \A i \in DOMAIN gs : gs[i] \in D /\ gs[i] # l
    BY <1>3, <2>1, <2>2 DEF IsOn
  <2> QED BY <1>3, <2>1, <2>3 DEF Wraps
<1>8. /\ fs \in Seq(D \cup {N}) /\ os \in Seq(D \cup {N}) /\ Len(fs) = Len(gs) + 1 /\ DOMAIN fs = 1..(Len(gs) + 1)
      /\ fs[Len(gs) + 1] = N /\ \A i \in 1..Len(gs) : fs[i] = gs[i]
  BY <1>5, <1>7
<1>9. /\ DOMAIN hs = 1..(Len(gs) + 2) /\ hs[Len(gs) + 1] = N /\ hs[Len(gs) + 2] = M
      /\ \A i \in 1..Len(gs) : hs[i] = gs[i]
  BY <1>4, <1>7
<1>10. /\ DOMAIN ps = 1..(Len(os) + 1) /\ ps[Len(os) + 1] = M /\ \A i \in 1..Len(os) : ps[i] = os[i]
  BY <1>6, <1>7
<1>11. Stacked(ms, fs, os)
  <2>1. Stacked(ns, gs, os)
    BY DEF Nested
  <2> QED BY <1>5, <1>7, <2>1, StackedGroup
<1>12. Stacked(ms, hs, ps)
  <2>1. MayPush(fs, hs, M)
    <3>1. \A i \in 1..(Len(gs) + 1) : i \in 1..Len(gs) \/ i = Len(gs) + 1
      BY <1>7
    <3>2. (Len(gs) + 1) + 1 = Len(gs) + 2
      BY <1>7
    <3> QED BY <1>8, <1>9, <3>1, <3>2 DEF MayPush
  <2>2. MayPush(os, ps, M)
    BY <1>10 DEF MayPush
  <2>3. ms[M].parent = fs[Len(fs)] /\ Len(fs) >= 1
    BY <1>7, <1>8
  <2>4. DOMAIN hs = 1..(Len(fs) + 1)
    <3>1. (Len(gs) + 1) + 1 = Len(gs) + 2
      BY <1>7
    <3> QED BY <1>8, <1>9, <3>1
  <2>5. M \notin D \cup {N}
    BY <1>7
  <2> QED BY <1>8, <1>11, <2>1, <2>2, <2>3, <2>4, <2>5, StackedPushes
<1>13. Newest(ms, hs)
  BY <1>1, <1>2, <1>9, NewestWraps DEF Nested
<1>14. \E last : Spans(ms, last)
  <2>1. PICK last : Spans(ns, last)
    BY DEF Nested
  <2> QED BY <2>1, SpansWraps DEF Nested
<1>15. \E up : Surrounds(ms, hs, up)
  <2>1. PICK up : Surrounds(ns, gs, up)
    BY DEF Nested
  <2> QED BY <1>1, <1>2, <1>9, <2>1, SurroundsWraps DEF Nested
<1>16. Nested(ms, hs, ps)
  BY <1>12, <1>13, <1>14, <1>15 DEF Nested
<1> QED BY <1>1, <1>2, <1>4, <1>6, <1>16

LEMMA SoundIsDeep ==
  ASSUME NEW ns, NEW gs, NEW os, Sound(ns, gs, os)
  PROVE  Len(gs) >= 1
<1>1. Tree(ns) /\ Stacks(ns, gs, os) /\ Deep(ns, gs, os)
  BY DEF Sound
<1>2. Len(gs) \in Nat /\ Len(os) \in Nat /\ Len(os) >= 1
  BY <1>1 DEF Stacks
<1>3. Cardinality(Unended(ns, os)) \in Nat
  BY <1>1, UnendedIsFinite
<1> QED BY <1>1, <1>2, <1>3 DEF Deep

LEMMA NestedDated ==
  ASSUME NEW ns, NEW ms, NEW gs, NEW os, Tree(ns), Stacks(ns, gs, os), Nested(ns, gs, os), Dated(ns, ms)
  PROVE  Nested(ms, gs, os)
<1>1. /\ DOMAIN ms = DOMAIN ns /\ Len(ms) = Len(ns)
      /\ \A n \in DOMAIN ns : /\ ms[n].kind = ns[n].kind /\ ms[n].parent = ns[n].parent
                              /\ ms[n].reads = ns[n].reads /\ ns[n].parent \in {None} \cup DOMAIN ns
      /\ \A i \in DOMAIN gs : gs[i] \in DOMAIN ns
  BY DEF Dated, Tree, Stacks
<1>2. Stacked(ms, gs, os)
  BY <1>1 DEF Nested, Stacked
<1>3. Newest(ms, gs)
  BY <1>1 DEF Nested, Newest, Plain
<1>4. \E last : Spans(ms, last)
  <2>1. PICK last : Spans(ns, last)
    BY DEF Nested
  <2>2. Spans(ms, last)
    BY <1>1, <2>1 DEF Spans, Plain
  <2> QED BY <2>2
<1>5. \E up : Surrounds(ms, gs, up)
  <2>1. PICK up : Surrounds(ns, gs, up)
    BY DEF Nested
  <2>2. Surrounds(ms, gs, up)
    BY <1>1, <2>1 DEF Surrounds
  <2> QED BY <2>2
<1> QED BY <1>2, <1>3, <1>4, <1>5 DEF Nested

LEMMA NestedStays ==
  ASSUME IInv, IInv', Earlier(nodes), Nested(nodes, groups, open), Next
  PROVE  Nested(nodes', groups', open')
<1>1. /\ Tree(nodes) /\ Stacks(nodes, groups, open) /\ open \in Seq(Node) /\ groups \in Seq(Node)
      /\ Top \in Node /\ Top \in DOMAIN nodes /\ Len(groups) \in Nat /\ Len(groups) >= 1 /\ Len(open) \in Nat
  BY InvHolds DEF Node
<1>2. PICK ms : ms = nodes'
  OBVIOUS
<1>3. PICK gs : gs = groups
  OBVIOUS
<1>4. PICK os : os = open
  OBVIOUS
<1>5. PICK top : top = Top
  OBVIOUS
<1>6. PICK N : N = Len(nodes) + 1
  OBVIOUS
<1>7. Towers(nodes, gs, top) /\ Stacks(nodes, gs, os) /\ Nested(nodes, gs, os)
  <2>1. Stacked(nodes, gs, os) /\ Stacks(nodes, gs, os) /\ Nested(nodes, gs, os)
    BY <1>1, <1>3, <1>4 DEF Nested
  <2>2. top = gs[Len(gs)] /\ Len(gs) >= 1
    BY <1>1, <1>3, <1>5 DEF Top
  <2> QED BY <1>1, <2>1, <2>2, TowersHold
<1>8. ASSUME NEW k, NEW hs, NEW ps, Adds(nodes, ms, top, os, k), Notes(nodes, ms), Scoped(nodes, ms, top, os),
             MayPush(gs, hs, N), MayPush(os, ps, N), DOMAIN ps = 1..(Len(os) + 1) => DOMAIN hs = 1..(Len(gs) + 1)
      PROVE  Nested(ms, hs, ps)
  BY <1>1, <1>6, <1>7, <1>8, NestedAdds
<1>9. CASE add_task
  <2>1. Adds(nodes, ms, top, os, "task") /\ groups' = gs /\ open' = os
    BY <1>1, <1>2, <1>3, <1>4, <1>5, <1>9, TaskStep
  <2>2. Notes(nodes, ms) /\ Scoped(nodes, ms, top, os)
    BY <1>1, <1>2, <1>4, <1>5, <1>9, StepNotes
  <2>3. MayPush(gs, gs, N) /\ MayPush(os, os, N) /\ ~(DOMAIN os = 1..(Len(os) + 1))
    <3>1. DOMAIN gs = 1..Len(gs) /\ DOMAIN os = 1..Len(os) /\ Len(os) \in Nat /\ Len(gs) \in Nat
      BY <1>1, <1>3, <1>4
    <3>2. Len(gs) + 1 \notin 1..Len(gs) /\ Len(os) + 1 \notin 1..Len(os) /\ Len(os) + 1 \in 1..(Len(os) + 1)
      BY <3>1
    <3> QED BY <3>1, <3>2 DEF MayPush
  <2>4. Nested(ms, gs, os)
    BY <1>8, <2>1, <2>2, <2>3
  <2> QED BY <1>2, <2>1, <2>4
<1>10. ASSUME NEW k, Enters(k), Notes(nodes, ms), Scoped(nodes, ms, top, os)
       PROVE  Nested(nodes', groups', open')
  <2>1. Adds(nodes, ms, top, os, k) /\ groups' = Append(gs, N) /\ open' = Append(os, N)
    BY <1>2, <1>3, <1>4, <1>5, <1>6, <1>10 DEF Enters
  <2>2. MayPush(gs, Append(gs, N), N) /\ DOMAIN Append(gs, N) = 1..(Len(gs) + 1)
    BY <1>1, <1>3 DEF MayPush
  <2>3. MayPush(os, Append(os, N), N)
    BY <1>1, <1>4 DEF MayPush
  <2>4. Nested(ms, Append(gs, N), Append(os, N))
    BY <1>8, <1>10, <2>1, <2>2, <2>3
  <2> QED BY <1>2, <2>1, <2>4
<1>11. CASE ParallelFor \/ If \/ ExitHandler
  <2>1. PICK k \in Block : Enters(k)
    BY <1>1, <1>11, BlockStep
  <2>2. Notes(nodes, ms) /\ Scoped(nodes, ms, top, os)
    BY <1>1, <1>2, <1>4, <1>5, <1>11, StepNotes
  <2> QED BY <1>10, <2>1, <2>2
<1>12. ASSUME NEW k \in {"elif", "else"}, NEW rs \in SUBSET ReadType, Branch(k, rs), Named(nodes, rs),
              Heard(nodes, rs, Top, open), \A r \in rs : r.how = "value"
       PROVE  Nested(nodes', groups', open')
  <2>1. Enters(k) \/ WrapsIf(LastGroup, k)
    BY <1>1, <1>12, BranchStep
  <2>2. Notes(nodes, ms) /\ Scoped(nodes, ms, top, os)
    BY <1>1, <1>2, <1>4, <1>5, <1>12, BranchNotes
  <2>3. CASE Enters(k)
    BY <1>10, <2>2, <2>3
  <2>4. CASE WrapsIf(LastGroup, k)
    <3>1. PICK l : l = LastGroup
      OBVIOUS
    <3>2. /\ Wraps(nodes, ms, top, os, l, k)
          /\ groups' = gs \o <<Len(nodes) + 1, Len(nodes) + 2>> /\ open' = Append(os, Len(nodes) + 2)
      BY <1>2, <1>3, <1>4, <1>5, <2>4, <3>1 DEF WrapsIf
    <3>3. ms[Len(nodes) + 1].reads = {}
      <4>1. N \in DOMAIN ms \ DOMAIN nodes /\ ms[N].kind = "branches"
        BY <1>1, <1>6, <3>2 DEF Tree, Wraps
      <4> QED BY <1>6, <2>2, <4>1 DEF Notes, Fits
    <3>4. Nested(ms, gs \o <<Len(nodes) + 1, Len(nodes) + 2>>, Append(os, Len(nodes) + 2))
      BY <1>1, <1>7, <2>2, <3>2, <3>3, NestedWraps
    <3> QED BY <1>2, <3>2, <3>4
  <2> QED BY <2>1, <2>3, <2>4
<1>13. CASE Elif
  <2>1. PICK r \in Values : Branch("elif", {r})
    BY <1>13 DEF Elif
  <2>2. {r} \in SUBSET ReadType
    BY <1>1, <2>1, ReadTypes DEF Tree
  <2>3. Named(nodes, {r}) /\ Heard(nodes, {r}, Top, open) /\ r.how = "value"
    BY <1>1, <2>1, ValuesAreNamed DEF Named, Heard
  <2> QED BY <1>12, <2>1, <2>2, <2>3
<1>14. CASE Else
  <2>1. {} \in SUBSET ReadType /\ "else" \in {"elif", "else"} /\ Branch("else", {}) /\ Named(nodes, {})
        /\ Heard(nodes, {}, Top, open)
    BY <1>14 DEF Else, Named, Heard
  <2> QED BY <1>12, <2>1
<1>15. CASE Exit
  <2>1. PICK c \in {1, 2} : c = IF nodes[os[Len(os)]].kind = "else" THEN 2 ELSE 1
    OBVIOUS
  <2>2. PICK h : h = Len(gs) - c
    OBVIOUS
  <2>3. /\ nodes' = nodes /\ groups' = SubSeq(gs, 1, h) /\ open' = SubSeq(os, 1, Len(os) - 1) /\ Len(os) > 1
    BY <1>3, <1>4, <1>15, <2>1, <2>2 DEF Exit, Kind
  <2>4. h \in Nat /\ h >= 1
    <3>1. Len(groups') >= 1
      <4>1. Sound(nodes', groups', open')
        BY DEF IInv
      <4> QED BY <4>1, SoundIsDeep
    <3>2. h \in Int /\ gs \in Seq(Node)
      BY <1>1, <1>3, <2>1, <2>2
    <3> QED BY <2>3, <3>1, <3>2
  <2>5. h = Len(gs) - (IF nodes[os[Len(os)]].kind = "else" THEN 2 ELSE 1)
    BY <2>1, <2>2
  <2>6. Nested(nodes, SubSeq(gs, 1, h), SubSeq(os, 1, Len(os) - 1))
    BY <1>1, <1>7, <2>3, <2>4, <2>5, NestedPops
  <2> QED BY <2>3, <2>6
<1>16. CASE create_pipeline_spec
  BY <1>16 DEF create_pipeline_spec
<1>17. CASE after
  BY <1>1, <1>17, AfterStep, NestedDated
<1> QED BY <1>9, <1>11, <1>13, <1>14, <1>15, <1>16, <1>17 DEF Next

LEMMA NestedInit ==
  ASSUME Init
  PROVE  Nested(nodes, groups, open)
<1>1. PICK x : x = [kind |-> "pipeline", parent |-> None, reads |-> {}, after |-> {}, within |-> {}]
  OBVIOUS
<1>2. x.kind = "pipeline" /\ x.parent = None /\ x.reads = {}
  BY <1>1
<1>3. PICK ns : ns = <<x>>
  OBVIOUS
<1>4. PICK gs : gs = <<1>>
  OBVIOUS
<1>5. nodes = ns /\ groups = gs /\ open = gs
  BY <1>1, <1>3, <1>4 DEF Init
<1>6. DOMAIN ns = {1} /\ ns[1] = x /\ Len(ns) = 1
  BY <1>3
<1>7. DOMAIN gs = {1} /\ gs[1] = 1 /\ Len(gs) = 1
  BY <1>4
<1>8. Stacked(ns, gs, gs)
  BY <1>7 DEF Stacked, IsOn
<1>9. Newest(ns, gs)
  BY <1>7 DEF Newest
<1>10. Spans(ns, [n \in {1} |-> 1])
  BY <1>2, <1>6 DEF Spans, None
<1>11. Surrounds(ns, gs, [n \in {1} |-> {}])
  <2>1. Around(gs, 1) = {}
    BY DEF Around
  <2> QED BY <1>2, <1>6, <1>7, <2>1 DEF Surrounds
<1> QED BY <1>5, <1>8, <1>9, <1>10, <1>11 DEF Nested

Wired == IInv /\ Earlier(nodes) /\ Nested(nodes, groups, open) /\ (Compiled => Accepted)

LEMMA WiringIsSound == Spec => []Wired
<1>1. Init => Earlier(nodes) /\ ~Compiled
  <2> SUFFICES ASSUME Init PROVE Earlier(nodes) /\ ~Compiled
    OBVIOUS
  <2>1. PICK x : x = [kind |-> "pipeline", parent |-> None, reads |-> {}, after |-> {}, within |-> {}]
    OBVIOUS
  <2>2. x.kind = "pipeline" /\ x.parent = None /\ x.reads = {}
    BY <2>1
  <2>3. nodes = <<x>> /\ DOMAIN nodes = {1} /\ nodes[1] = x
    BY <2>1 DEF Init
  <2>4. Earlier(nodes)
    BY <2>2, <2>3 DEF Earlier, Named, Fits
  <2> QED BY <2>4 DEF Init, Compiled
<1>2. Wired /\ [Next]_vars => Wired'
  <2> SUFFICES ASSUME Wired, [Next]_vars, IInv' PROVE Wired'
    <3>1. IInv /\ [Next]_vars => IInv'
      BY InvIsInductive
    <3> QED BY <3>1 DEF Wired
  <2>1. IInv /\ Earlier(nodes) /\ Nested(nodes, groups, open) /\ (Compiled => Accepted)
    BY DEF Wired
  <2>2. Earlier(nodes)'
    <3>1. CASE Next
      BY <2>1, <3>1, EarlierStays
    <3>2. CASE UNCHANGED vars
      BY <2>1, <3>2 DEF vars
    <3> QED BY <3>1, <3>2
  <2>4. Nested(nodes, groups, open)'
    <3>1. CASE Next
      BY <2>1, <3>1, NestedStays
    <3>2. CASE UNCHANGED vars
      BY <2>1, <3>2 DEF vars
    <3> QED BY <3>1, <3>2
  <2>3. Compiled' => Accepted'
    <3>1. CASE create_pipeline_spec
      <4>1. Compiled' => Accepted
        BY <3>1 DEF create_pipeline_spec, Compiled, Rejected, Accepted
      <4> QED BY <3>1, <4>1, AcceptedStays DEF create_pipeline_spec
    <3>2. CASE UNCHANGED vars
      BY <2>1, <3>2, AcceptedStays DEF vars, Compiled
    <3>3. CASE add_task \/ after \/ ParallelFor \/ If \/ Elif \/ Else \/ ExitHandler \/ Exit
      <4>1. phase = "writing" /\ phase' = phase
        BY <3>3 DEF add_task, ParallelFor, If, Elif, Else, Branch, ExitHandler, Exit, CanAddTask, CanAddPart,
                        after
      <4> QED BY <4>1 DEF Compiled
    <3> QED BY <3>1, <3>2, <3>3 DEF Next
  <2> QED BY <2>2, <2>3, <2>4 DEF Wired
<1>3. Init => Wired
  BY <1>1, InitIsSound, NestedInit DEF Wired
<1> QED BY <1>2, <1>3, PTL DEF Spec

-----------------------------------------------------------------------------
(* Paths and where they part. *)

(* Of any nodes, one is not below another of them.                          *)
LEMMA Uppermost ==
  ASSUME Ranked(nodes), NEW W \in SUBSET Node, W # {}
  PROVE  \E n \in W : nodes[n].parent # None => nodes[n].parent \notin W
<1>1. PICK b \in Nat : \E rank : Ranks(nodes, b, rank)
  BY DEF Ranked
<1>2. PICK rank : Ranks(nodes, b, rank)
  BY <1>1
<1>3. /\ \A n \in Node : rank[n] \in Nat
      /\ \A n \in Node : nodes[n].parent # None => rank[nodes[n].parent] < rank[n]
  BY <1>1, <1>2 DEF Ranks, Node
<1>4. {rank[n] : n \in W} \subseteq Nat /\ {rank[n] : n \in W} # {}
  BY <1>3
<1>5. PICK x \in {rank[n] : n \in W} : \A y \in {rank[n] : n \in W} : x <= y
  BY <1>4, LeastOf
<1>6. PICK n \in W : rank[n] = x
  BY <1>5
<1>7. ASSUME nodes[n].parent # None, nodes[n].parent \in W PROVE FALSE
  <2>1. rank[n] <= rank[nodes[n].parent]
    BY <1>5, <1>6, <1>7
  <2>2. rank[nodes[n].parent] < rank[n] /\ rank[nodes[n].parent] \in Nat /\ rank[n] \in Nat
    BY <1>3, <1>7
  <2> QED BY <2>1, <2>2
<1> QED BY <1>7

(* A path leads to its node through nodes that have children, and begins    *)
(* with the paths of those; all but the groups of branches are earlier.     *)
Leads(n) ==
  LET p == Path[n] IN
  /\ p \in Seq(Node) /\ Len(p) >= 1 /\ p[Len(p)] = n
  /\ \A i \in 1..Len(p) : /\ Len(Path[p[i]]) = i /\ \A j \in 1..i : Path[p[i]][j] = p[j]
                          /\ i < Len(p) => Kind(p[i]) # "task"
                          /\ Kind(p[i]) # "branches" => /\ p[i] <= n
                                                        /\ i < Len(p) => p[i] <= nodes[n].parent

LEMMA PathsLead ==
  ASSUME Tree(nodes), Ranked(nodes), Earlier(nodes)
  PROVE  \A n \in Node : Leads(n)
<1> DEFINE W == {n \in Node : ~Leads(n)}
<1>1. SUFFICES ASSUME W # {} PROVE FALSE
  OBVIOUS
<1>2. W \in SUBSET Node
  OBVIOUS
<1>3. PICK n \in W : nodes[n].parent # None => nodes[n].parent \notin W
  <2> HIDE DEF W
  <2> QED BY <1>1, <1>2, Uppermost
<1> HIDE DEF W
<1>4. n \in Node /\ n \in Nat /\ ~Leads(n) /\ Node \subseteq Nat
  BY <1>3 DEF Node, Tree, W
<1>5. CASE nodes[n].parent = None
  <2>1. PICK p : p = <<n>>
    OBVIOUS
  <2>2. Path[n] = p
    BY <1>4, <1>5, <2>1, PathsExist
  <2>3. p \in Seq(Node) /\ Len(p) = 1 /\ p[1] = n
    BY <1>4, <2>1
  <2>5. \A i \in 1..1 : i = 1
    OBVIOUS
  <2>6. Len(Path[p[1]]) = 1 /\ (\A j \in 1..1 : Path[p[1]][j] = p[j]) /\ ~(1 < 1) /\ p[1] <= n
    BY <1>4, <2>2, <2>3
  <2>7. Leads(n)
    BY <2>2, <2>3, <2>5, <2>6 DEF Leads
  <2> QED BY <1>4, <2>7
<1>6. CASE nodes[n].parent # None
  <2>1. PICK m : m = nodes[n].parent
    OBVIOUS
  <2>2. /\ m \in Node /\ m \in Nat /\ Leads(m) /\ Kind(m) # "task"
        /\ m < n \/ (Kind(m) = "branches" /\ nodes[m].parent < n)
    BY <1>3, <1>4, <1>6, <2>1 DEF Tree, Earlier, Node, Kind, W
  <2>3. PICK q : q = Path[m]
    OBVIOUS
  <2>4. PICK L : L = Len(q)
    OBVIOUS
  <2>5. /\ q \in Seq(Node) /\ L \in Nat /\ L >= 1 /\ q[L] = m /\ DOMAIN q = 1..L
        /\ \A i \in 1..L : /\ Len(Path[q[i]]) = i /\ \A j \in 1..i : Path[q[i]][j] = q[j]
                           /\ i < L => Kind(q[i]) # "task"
                           /\ Kind(q[i]) # "branches" => /\ q[i] <= m
                                                         /\ i < L => q[i] <= nodes[m].parent
    BY <2>2, <2>3, <2>4 DEF Leads
  <2>6. PICK p : p = Append(q, n)
    OBVIOUS
  <2>7. Path[n] = p
    BY <1>4, <1>6, <2>1, <2>3, <2>6, PathsExist
  <2>8. /\ p \in Seq(Node) /\ Len(p) = L + 1 /\ p[L + 1] = n
        /\ \A i \in 1..L : p[i] = q[i]
    BY <1>4, <2>4, <2>5, <2>6
  <2>9. \A i \in 1..(L + 1) : (i \in 1..L) \/ i = L + 1
    BY <2>5
  <2>10. \A i \in 1..L : q[i] \in Node
    BY <2>5
  <2>11. \A i \in 1..L : q[i] \in Nat
    BY <1>4, <2>10
  <2>12. \A i \in 1..L : Kind(q[i]) # "branches" => q[i] <= n
    <3>1. CASE m < n
      BY <1>4, <2>2, <2>5, <2>11, <3>1
    <3>2. CASE Kind(m) = "branches" /\ nodes[m].parent < n
      <4>1. SUFFICES ASSUME NEW i \in 1..L, Kind(q[i]) # "branches" PROVE q[i] <= n
        OBVIOUS
      <4>2. i < L
        BY <2>5, <3>2, <4>1
      <4>3. q[i] <= nodes[m].parent /\ q[i] \in Nat
        BY <2>5, <2>11, <4>1, <4>2
      <4>4. nodes[m].parent \in Nat
        <5>1. nodes[m].parent \in {None} \cup Node /\ None \in Nat
          BY <2>2 DEF Tree, Node, None
        <5> QED BY <1>4, <5>1
      <4> QED BY <1>4, <3>2, <4>3, <4>4
    <3> QED BY <2>2, <3>1, <3>2
  <2>13. Leads(n)
    <3>1. \A i \in 1..L : i < L + 1 => Kind(p[i]) # "task"
      BY <2>2, <2>5, <2>8
    <3>2. \A i \in 1..L : Len(Path[p[i]]) = i /\ \A j \in 1..i : Path[p[i]][j] = p[j]
      <4>1. \A i \in 1..L : \A j \in 1..i : j \in 1..L
        BY <2>5
      <4> QED BY <2>5, <2>8, <4>1
    <3>3. Len(Path[p[L + 1]]) = L + 1 /\ \A j \in 1..(L + 1) : Path[p[L + 1]][j] = p[j]
      BY <2>7, <2>8
    <3>4. \A i \in 1..L : Kind(p[i]) # "branches" => p[i] <= n /\ p[i] <= nodes[n].parent
      BY <2>1, <2>5, <2>8, <2>12
    <3> QED BY <1>4, <2>5, <2>7, <2>8, <2>9, <3>1, <3>2, <3>3, <3>4 DEF Leads
  <2> QED BY <1>4, <2>13
<1> QED BY <1>5, <1>6

(* Up a path the parents are.                                               *)
LEMMA PathClimbs ==
  ASSUME Tree(nodes), Ranked(nodes), \A n \in Node : Leads(n), NEW n \in Node, NEW i \in 1..Len(Path[n])
  PROVE  /\ Path[n][i] \in Node
         /\ nodes[Path[n][i]].parent = IF i = 1 THEN None ELSE Path[n][i - 1]
<1>1. PICK p : p = Path[n]
  OBVIOUS
<1>2. PICK m : m = p[i]
  OBVIOUS
<1>3. /\ p \in Seq(Node) /\ Len(p) \in Nat /\ i \in Nat /\ m \in Node
      /\ Len(Path[m]) = i /\ \A j \in 1..i : Path[m][j] = p[j]
  BY <1>1, <1>2 DEF Leads
<1>4. Path[m] = IF nodes[m].parent = None THEN <<m>> ELSE Append(Path[nodes[m].parent], m)
  BY <1>3, PathsExist
<1>5. CASE nodes[m].parent = None
  <2>1. i = 1
    BY <1>3, <1>4, <1>5
  <2> QED BY <1>1, <1>2, <1>3, <1>5, <2>1
<1>6. CASE nodes[m].parent # None
  <2>1. PICK g : g = nodes[m].parent
    OBVIOUS
  <2>2. g \in Node
    BY <1>3, <1>6, <2>1 DEF Tree, Node
  <2>3. PICK q : q = Path[g]
    OBVIOUS
  <2>4. q \in Seq(Node) /\ Len(q) \in Nat /\ Len(q) >= 1 /\ q[Len(q)] = g
    BY <2>2, <2>3 DEF Leads
  <2>5. Path[m] = Append(q, m)
    BY <1>4, <1>6, <2>1, <2>3
  <2>6. i = Len(q) + 1 /\ Path[m][i - 1] = g
    BY <1>3, <2>4, <2>5
  <2>7. p[i - 1] = g /\ i # 1
    <3>1. i - 1 \in 1..i /\ i # 1
      BY <1>3, <2>4, <2>6
    <3> QED BY <1>3, <2>6, <3>1
  <2> QED BY <1>1, <1>2, <1>3, <2>1, <2>7
<1> QED BY <1>5, <1>6

(* What is in the tree is below the pipeline.                               *)
LEMMA PathsStart ==
  ASSUME Tree(nodes), Ranked(nodes), \A n \in Node : Leads(n), NEW n \in InTree
  PROVE  /\ n \in Node /\ Path[n][1] = 1 /\ Len(Path[n]) \in Nat /\ Len(Path[n]) >= 1
         /\ \A i \in 1..Len(Path[n]) : Path[n][i] \in InTree /\ (i # 1 => nodes[Path[n][i]].parent # None)
<1>1. n \in Node
  BY DEF InTree
<1>2. PICK p : p = Path[n]
  OBVIOUS
<1>3. /\ p \in Seq(Node) /\ Len(p) \in Nat /\ Len(p) >= 1 /\ p[Len(p)] = n
      /\ \A i \in 1..Len(p) : i < Len(p) => Kind(p[i]) # "task"
  BY <1>1, <1>2 DEF Leads
<1>4. \A i \in 1..Len(p) : /\ p[i] \in Node /\ (i # 1 => i - 1 \in 1..Len(p))
                           /\ nodes[p[i]].parent = IF i = 1 THEN None ELSE p[i - 1]
  BY <1>1, <1>2, <1>3, PathClimbs
<1>5. p[1] = 1
  <2>1. p[1] \in Node /\ nodes[p[1]].parent = None /\ (1 < Len(p) => nodes[p[1]].kind # "task")
    BY <1>3, <1>4 DEF Kind
  <2>2. CASE 1 < Len(p)
    BY <2>1, <2>2 DEF Tree, Node
  <2>3. CASE ~(1 < Len(p))
    <3>1. n = p[1]
      BY <1>3, <2>3
    <3> QED BY <2>1, <3>1 DEF InTree
  <2> QED BY <2>2, <2>3
<1>6. None \notin Node
  BY DEF Tree, Node, None
<1>7. \A i \in 1..Len(p) : i # 1 => nodes[p[i]].parent # None
  BY <1>4, <1>6
<1>8. \A i \in 1..Len(p) : p[i] \in InTree
  BY <1>4, <1>5, <1>7 DEF InTree
<1> QED BY <1>1, <1>2, <1>3, <1>5, <1>7, <1>8

(* Two paths have their first k nodes in common and no other.               *)
Fork(a, b, k) ==
  LET p == Path[a]  q == Path[b] IN
  /\ k <= Len(p) /\ k <= Len(q) /\ \A i \in 1..k : p[i] = q[i]
  /\ \A i \in 1..Len(p), j \in 1..Len(q) : p[i] = q[j] => i = j /\ i <= k
  /\ Uncommon(a, b) = SubSeq(p, k + 1, Len(p)) /\ Uncommon(b, a) = SubSeq(q, k + 1, Len(q))

LEMMA PathsFork ==
  ASSUME \A n \in Node : Leads(n), NEW a \in Node, NEW b \in Node
  PROVE  \E k \in Nat : Fork(a, b, k)
<1>1. PICK p : p = Path[a]
  OBVIOUS
<1>2. PICK q : q = Path[b]
  OBVIOUS
<1>3. PICK L : L = Len(p)
  OBVIOUS
<1>3a. PICK M : M = Len(q)
  OBVIOUS
<1>4. /\ p \in Seq(Node) /\ L \in Nat /\ DOMAIN p = 1..L
      /\ \A i \in 1..L : Len(Path[p[i]]) = i /\ \A j \in 1..i : Path[p[i]][j] = p[j]
  BY <1>1, <1>3 DEF Leads
<1>5. /\ q \in Seq(Node) /\ M \in Nat /\ DOMAIN q = 1..M
      /\ \A i \in 1..M : Len(Path[q[i]]) = i /\ \A j \in 1..i : Path[q[i]][j] = q[j]
  BY <1>2, <1>3a DEF Leads
<1> DEFINE C == {i \in DOMAIN p : i \in DOMAIN q /\ p[i] = q[i]}
<1>6. PICK k \in 0..L : C = 1..k
  <2>1. CASE C = {}
    <3>1. C = 1..0 /\ 0 \in 0..L
      BY <1>4, <2>1
    <3> QED BY <3>1
  <2>2. CASE C # {}
    <3>1. PICK k \in C : \A y \in C : y <= k
      <4>1. C \subseteq 1..L
        BY <1>4
      <4> HIDE DEF C
      <4> QED BY <1>4, <2>2, <4>1, LargestOf
    <3>2. k \in 1..L /\ k \in 1..M /\ p[k] = q[k]
      BY <1>4, <1>5
    <3>3. ASSUME NEW j \in 1..k PROVE j \in C
      <4>1. Path[p[k]][j] = p[j] /\ Path[q[k]][j] = q[j]
        BY <1>4, <1>5, <3>2
      <4>2. j \in 1..L /\ j \in 1..M
        BY <1>4, <1>5, <3>2
      <4> QED BY <1>4, <1>5, <3>2, <4>1, <4>2
    <3>4. \A y \in C : y \in 1..L
      BY <1>4
    <3> HIDE DEF C
    <3>5. \A y \in C : y \in 1..k
      BY <3>1, <3>2, <3>4, <1>4
    <3>6. k \in 0..L
      BY <1>4, <3>2
    <3> QED BY <3>3, <3>5, <3>6
  <2> QED BY <2>1, <2>2
<1>7. Cardinality(C) = k
  <2>1. 1 \in Int /\ k \in Int /\ k \in Nat
    BY <1>4
  <2>2. Cardinality(1..k) = IF 1 > k THEN 0 ELSE k - 1 + 1
    BY <2>1, FS_Interval
  <2>3. Cardinality(1..k) = k
    BY <2>1, <2>2
  <2> HIDE DEF C
  <2> QED BY <1>6, <2>3
<1>8. Uncommon(a, b) = SubSeq(p, k + 1, L)
  BY <1>1, <1>2, <1>3, <1>7 DEF Uncommon
<1>9. Uncommon(b, a) = SubSeq(q, k + 1, M)
  <2>1. {i \in DOMAIN q : i \in DOMAIN p /\ q[i] = p[i]} = C
    BY <1>4, <1>5
  <2> HIDE DEF C
  <2> QED BY <1>1, <1>2, <1>3a, <1>7, <2>1 DEF Uncommon
<1>10. \A i \in 1..k : i \in 1..L /\ i \in 1..M /\ p[i] = q[i]
  BY <1>4, <1>5, <1>6
<1>11. k \in Nat /\ k <= L /\ k <= M
  <2>1. k \in Nat
    BY <1>4
  <2>2. k = 0 \/ k \in 1..k
    BY <2>1
  <2> QED BY <1>5, <1>10, <2>1, <2>2
<1>12. ASSUME NEW i \in 1..L, NEW j \in 1..M, p[i] = q[j]
       PROVE  i = j /\ i <= k
  <2>1. i = j
    BY <1>4, <1>5, <1>12
  <2>2. i \in C
    BY <1>4, <1>5, <1>12, <2>1
  <2> HIDE DEF C
  <2> QED BY <1>6, <2>1, <2>2
<1> HIDE DEF C
<1> QED BY <1>1, <1>2, <1>3, <1>3a, <1>8, <1>9, <1>10, <1>11, <1>12 DEF Fork

(* Two paths have their beginning in common: the rest of the first one      *)
(* begins at or above any of its nodes that is not on the second one.       *)
LEMMA PathsPart ==
  ASSUME \A n \in Node : Leads(n), NEW a \in Node, NEW b \in Node
  PROVE  \E k \in Nat :
           /\ Uncommon(a, b) # <<>> => k < Len(Path[a])
           /\ k < Len(Path[a]) => Uncommon(a, b)[1] = Path[a][k + 1]
           /\ \A i \in 1..Len(Path[a]) : ~IsOn(Path[b], Path[a][i]) => k < i
<1>1. PICK p : p = Path[a]
  OBVIOUS
<1>2. PICK q : q = Path[b]
  OBVIOUS
<1>3. PICK L : L = Len(p)
  OBVIOUS
<1>4. p \in Seq(Node) /\ L \in Nat /\ q \in Seq(Node) /\ Len(q) \in Nat /\ DOMAIN q = 1..Len(q)
  BY <1>1, <1>2, <1>3 DEF Leads
<1>5. PICK k \in Nat : Fork(a, b, k)
  BY PathsFork
<1>6. k <= L /\ k <= Len(q) /\ (\A i \in 1..k : p[i] = q[i]) /\ Uncommon(a, b) = SubSeq(p, k + 1, L)
  BY <1>1, <1>2, <1>3, <1>5 DEF Fork
<1>7. k < L => SubSeq(p, k + 1, L)[1] = p[k + 1]
  BY <1>3, <1>4, <1>6
<1>8. ~(k < L) => SubSeq(p, k + 1, L) = <<>>
  BY <1>3, <1>4, <1>6
<1>9. ASSUME NEW i \in 1..L, ~IsOn(q, p[i]) PROVE k < i
  <2>1. ~(i \in 1..k)
    BY <1>4, <1>6, <1>9 DEF IsOn
  <2> QED BY <1>4, <2>1
<1> QED BY <1>1, <1>2, <1>3, <1>6, <1>7, <1>8, <1>9

(* Two nodes in the tree have the pipeline in common, and where their paths *)
(* part, they are beside each other.                                        *)
LEMMA ForkInTree ==
  ASSUME Tree(nodes), Ranked(nodes), \A n \in Node : Leads(n),
         NEW a \in InTree, NEW b \in InTree, NEW k \in Nat, Fork(a, b, k)
  PROVE  /\ k >= 1 /\ DOMAIN Uncommon(a, b) = 1..(Len(Path[a]) - k) /\ Len(Uncommon(a, b)) = Len(Path[a]) - k
         /\ \A i \in 1..(Len(Path[a]) - k) :
              Uncommon(a, b)[i] = Path[a][k + i] /\ k + i \in 1..Len(Path[a]) /\ Uncommon(a, b)[i] \in InTree
         /\ k < Len(Path[a]) /\ k < Len(Path[b]) =>
              /\ Path[a][k + 1] # Path[b][k + 1]
              /\ nodes[Path[a][k + 1]].parent = nodes[Path[b][k + 1]].parent
              /\ nodes[Path[a][k + 1]].parent = Path[a][k] /\ Path[a][k] # None
<1>1. PICK p : p = Path[a]
  OBVIOUS
<1>2. PICK q : q = Path[b]
  OBVIOUS
<1>3. /\ a \in Node /\ p[1] = 1 /\ p \in Seq(Node) /\ Len(p) \in Nat /\ Len(p) >= 1
      /\ \A i \in 1..Len(p) : p[i] \in InTree /\ (i # 1 => nodes[p[i]].parent # None)
  BY <1>1, PathsStart DEF Leads
<1>4. /\ b \in Node /\ q[1] = 1 /\ q \in Seq(Node) /\ Len(q) \in Nat /\ Len(q) >= 1
  BY <1>2, PathsStart DEF Leads
<1>5. /\ k <= Len(p) /\ k <= Len(q) /\ (\A i \in 1..k : p[i] = q[i]) /\ Uncommon(a, b) = SubSeq(p, k + 1, Len(p))
      /\ \A i \in 1..Len(p), j \in 1..Len(q) : p[i] = q[j] => i = j /\ i <= k
  BY <1>1, <1>2 DEF Fork
<1>6. k >= 1
  <2>1. 1 \in 1..Len(p) /\ 1 \in 1..Len(q)
    BY <1>3, <1>4
  <2> QED BY <1>3, <1>4, <1>5, <2>1
<1>7. /\ DOMAIN Uncommon(a, b) = 1..(Len(p) - k) /\ Len(Uncommon(a, b)) = Len(p) - k
      /\ \A i \in 1..(Len(p) - k) : Uncommon(a, b)[i] = p[k + i] /\ k + i \in 1..Len(p)
  <2>1. PICK u : u = SubSeq(p, k + 1, Len(p))
    OBVIOUS
  <2>2. DOMAIN u = 1..(Len(p) - k) /\ Len(u) = Len(p) - k
    BY <1>3, <1>5, <2>1
  <2>3. ASSUME NEW i \in 1..(Len(p) - k) PROVE u[i] = p[k + i] /\ k + i \in 1..Len(p)
    BY <1>3, <1>5, <2>1
  <2> QED BY <1>5, <2>1, <2>2, <2>3
<1>8. ASSUME k < Len(p), k < Len(q)
      PROVE  /\ p[k + 1] # q[k + 1] /\ nodes[p[k + 1]].parent = nodes[q[k + 1]].parent
             /\ nodes[p[k + 1]].parent = p[k] /\ p[k] # None
  <2>1. k + 1 \in 1..Len(p) /\ k + 1 \in 1..Len(q) /\ k + 1 # 1 /\ (k + 1) - 1 = k /\ k \in 1..k /\ ~(k + 1 <= k)
    BY <1>3, <1>4, <1>6, <1>8
  <2>2. nodes[p[k + 1]].parent = p[k] /\ nodes[q[k + 1]].parent = q[k]
    BY <1>1, <1>2, <1>3, <1>4, <2>1, PathClimbs
  <2>3. p[k + 1] # q[k + 1] /\ p[k] = q[k] /\ nodes[p[k + 1]].parent # None
    BY <1>3, <1>5, <2>1
  <2> QED BY <2>2, <2>3
<1> QED BY <1>1, <1>2, <1>3, <1>6, <1>7, <1>8

(* Where t waits for u, so does every n around t that is not around u: a    *)
(* group around n, or n itself, is made to wait.                            *)
LEMMA DependencyHolds ==
  ASSUME Tree(nodes), \A n \in Node : Leads(n), NEW t \in Tasks, NEW u \in Node, u \in Upstream(t),
         ~DependencyIllegal(t, u), NEW n \in Node, IsOn(Path[t], n), ~IsOn(Path[u], n)
  PROVE  \E i \in DOMAIN Path[n], j \in DOMAIN Path[u] : <<Path[n][i], Path[u][j]>> \in dependencies
<1>1. t \in Node
  BY DEF Tasks, InTree
<1>2. PICK p : p = Path[t]
  OBVIOUS
<1>3. PICK q : q = Path[u]
  OBVIOUS
<1>4. PICK r : r = Path[n]
  OBVIOUS
<1>5. /\ p \in Seq(Node) /\ Len(p) \in Nat /\ DOMAIN p = 1..Len(p)
      /\ \A i \in 1..Len(p) : Len(Path[p[i]]) = i /\ \A j \in 1..i : Path[p[i]][j] = p[j]
      /\ q \in Seq(Node) /\ Len(q) \in Nat /\ DOMAIN q = 1..Len(q)
      /\ r \in Seq(Node) /\ DOMAIN r = 1..Len(r)
  BY <1>1, <1>2, <1>3, <1>4 DEF Leads
<1>6. PICK i \in 1..Len(p) : p[i] = n
  BY <1>2, <1>5 DEF IsOn
<1>7. PICK k \in Nat : k < i /\ (k < Len(p) => Uncommon(t, u)[1] = p[k + 1])
  <2>1. ~IsOn(q, p[i])
    BY <1>3, <1>6
  <2> QED BY <1>1, <1>2, <1>3, <2>1, PathsPart
<1>8. PICK l \in Nat : l < Len(q) /\ Uncommon(u, t)[1] = q[l + 1]
  <2>1. Uncommon(u, t) # <<>>
    BY DEF DependencyIllegal
  <2> QED BY <1>1, <1>3, <2>1, PathsPart
<1>9. /\ k + 1 \in 1..i /\ k < Len(p) /\ i \in Nat
  BY <1>5, <1>7
<1>10. k + 1 \in DOMAIN r /\ r[k + 1] = p[k + 1]
  BY <1>4, <1>5, <1>6, <1>9
<1>11. l + 1 \in DOMAIN q
  BY <1>5, <1>8
<1>12. <<Uncommon(t, u)[1], Uncommon(u, t)[1]>> \in dependencies
  <2>1. <<t, u>> \in {t} \X Upstream(t) /\ <<t, u>>[1] = t /\ <<t, u>>[2] = u
    OBVIOUS
  <2>2. <<t, u>> \in UNION {{s} \X Upstream(s) : s \in Tasks}
    BY <2>1
  <2> QED BY <2>1, <2>2 DEF dependencies
<1>13. <<r[k + 1], q[l + 1]>> \in dependencies
  BY <1>7, <1>8, <1>9, <1>10, <1>12
<1> QED BY <1>3, <1>4, <1>10, <1>11, <1>13

LEMMA NotAround ==
  ASSUME NEW n \in Node, NEW u \in Node, Node \subseteq Nat, Leads(u), Kind(n) # "branches", n # u,
         Kind(n) = "task" \/ u < n
  PROVE  ~IsOn(Path[u], n)
<1>1. PICK q : q = Path[u]
  OBVIOUS
<1>2. SUFFICES ASSUME NEW i \in DOMAIN q, q[i] = n PROVE FALSE
  BY <1>1 DEF IsOn
<1>3. /\ q \in Seq(Node) /\ Len(q) \in Nat /\ i \in 1..Len(q) /\ q[Len(q)] = u
      /\ i < Len(q) => Kind(q[i]) # "task"
      /\ Kind(q[i]) # "branches" => q[i] <= u
  BY <1>1, <1>2 DEF Leads
<1>4. i < Len(q) /\ n <= u
  BY <1>2, <1>3
<1>5. ~(n <= u) \/ Kind(n) = "task"
  <2>1. n \in Nat /\ u \in Nat
    OBVIOUS
  <2> QED BY <2>1
<1> QED BY <1>2, <1>3, <1>4, <1>5

(* No task is upstream of itself: its path has nothing that is uncommon.    *)
LEMMA NobodyAwaitsItself ==
  ASSUME \A n \in Node : Leads(n), Accepted, NEW t \in Tasks, t \in Node, NEW u \in Upstream(t)
  PROVE  u # t
<1>1. SUFFICES ASSUME u = t PROVE DependencyIllegal(t, u)
  BY DEF Accepted
<1>2. PICK p : p = Path[t]
  OBVIOUS
<1>3. p \in Seq(Node) /\ DOMAIN p = 1..Len(p) /\ Len(p) \in Nat
  BY <1>2 DEF Leads
<1>4. {i \in DOMAIN p : i \in DOMAIN p /\ p[i] = p[i]} = 1..Len(p)
  BY <1>3
<1>5. Cardinality(1..Len(p)) = Len(p)
  BY <1>3, FS_Interval
<1>6. Uncommon(t, t) = SubSeq(p, Len(p) + 1, Len(p))
  BY <1>2, <1>4, <1>5 DEF Uncommon
<1>7. SubSeq(p, Len(p) + 1, Len(p)) = <<>>
  BY <1>3
<1> QED BY <1>1, <1>6, <1>7 DEF DependencyIllegal

(* A task waits for everything upstream of it.                              *)
LEMMA TaskWaits ==
  ASSUME Tree(nodes), \A n \in Node : Leads(n), Accepted,
         NEW t \in Tasks, NEW u \in Node, u \in Upstream(t), u # t
  PROVE  StartsAfter(t, u, WaitsFor)
<1>1. t \in Node /\ Kind(t) = "task" /\ Node \subseteq Nat
  BY DEF Tasks, InTree, Tree, Node
<1>2. IsOn(Path[t], t)
  BY <1>1 DEF Leads, IsOn
<1>3. ~IsOn(Path[u], t)
  BY <1>1, NotAround
<1>4. ~DependencyIllegal(t, u)
  BY DEF Accepted
<1>5. \E i \in DOMAIN Path[t], j \in DOMAIN Path[u] : <<Path[t][i], Path[u][j]>> \in dependencies
  BY <1>1, <1>2, <1>3, <1>4, DependencyHolds
<1> QED BY <1>5 DEF StartsAfter, WaitsFor

(* What n reads is the output of a task that was written before n.          *)
LEMMA OutputsAreEarlier ==
  ASSUME Tree(nodes), Earlier(nodes), NEW n \in Node, NEW r \in nodes[n].reads, r.ch.src = "task"
  PROVE  /\ r \in ReadType /\ r.ch.of \in Node /\ r.ch.of < n /\ r.ch.of # None /\ r.ch.fan = None
         /\ Producer(r.ch) = r.ch.of /\ n \in Nat /\ Node \subseteq Nat
<1>1. Node \subseteq Nat /\ None \notin Node /\ nodes[n] \in NodeType
  BY DEF Tree, Node, None
<1>2. r \in ReadType
  BY <1>1 DEF NodeType
<1>3. r.ch.of \in Node /\ r.ch.of < n /\ r.ch.fan = None
  BY DEF Earlier, Named, Node, IsTask
<1> QED BY <1>1, <1>2, <1>3 DEF Producer

LEMMA TaskWaitsForOutputs ==
  ASSUME Tree(nodes), Earlier(nodes), \A n \in Node : Leads(n), Accepted,
         NEW t \in Tasks, NEW r \in nodes[t].reads, r.ch.src = "task"
  PROVE  StartsAfter(t, r.ch.of, WaitsFor)
<1>1. t \in Node /\ Kind(t) = "task"
  BY DEF Tasks, InTree
<1>2. /\ r \in ReadType /\ r.ch.of \in Node /\ r.ch.of < t /\ r.ch.of # None /\ r.ch.fan = None
      /\ Producer(r.ch) = r.ch.of /\ t \in Nat /\ Node \subseteq Nat
  BY <1>1, OutputsAreEarlier
<1>3. PICK u : u = r.ch.of
  OBVIOUS
<1>4. u \in Node /\ u # t /\ u # None
  BY <1>2, <1>3
<1>5. CASE r.how # "collected"
  <2>1. Surfaced(t, r) = r
    BY <1>5 DEF Surfaced
  <2>2. u \in Upstream(t)
    BY <1>2, <1>3, <2>1 DEF Upstream, Reads
  <2> QED BY <1>3, <1>4, <2>2, TaskWaits
<1>6. CASE r.how = "collected"
  <2>1. PICK v : v = Uncommon(u, t)[1]
    OBVIOUS
  <2>2. Uncommon(u, t) # <<>> /\ Kind(v) = "loop"
    <3>1. ~CollectedIllegal(t, r)
      BY DEF Accepted
    <3>2. ~(Len(Uncommon(u, t)) < 2) /\ Kind(Uncommon(u, t)[1]) = "loop"
      BY <1>3, <1>6, <3>1 DEF CollectedIllegal
    <3> QED BY <2>1, <3>2
  <2>3. PICK k \in Nat : k < Len(Path[u]) /\ v = Path[u][k + 1]
    BY <1>1, <1>4, <2>1, <2>2, PathsPart
  <2>4. PICK q : q = Path[u]
    OBVIOUS
  <2>5. /\ v \in Node /\ k + 1 \in DOMAIN q /\ DOMAIN q = 1..Len(q) /\ Len(q) \in Nat /\ k < Len(q)
        /\ Len(Path[v]) = k + 1 /\ (\A j \in 1..(k + 1) : Path[v][j] = q[j])
    BY <1>4, <2>3, <2>4 DEF Leads
  <2>6. DOMAIN Path[v] = 1..(k + 1)
    BY <2>5 DEF Leads
  <2>7. v # None /\ v # t
    <3>1. None \notin Node
      BY DEF Tree, Node, None
    <3> QED BY <1>1, <2>2, <2>5, <3>1
  <2>8. v \in Upstream(t)
    <3>1. Surfaced(t, r) = [r EXCEPT !.ch.fan = v]
      BY <1>3, <1>6, <2>1 DEF Surfaced
    <3>2. PICK s : s = [r EXCEPT !.ch.fan = v]
      OBVIOUS
    <3>3. s.ch.src = "task" /\ s.ch.fan = v
      BY <1>2, <3>2 DEF ReadType, ChannelType
    <3>4. s \in Reads(t) /\ Producer(s.ch) = v
      BY <2>7, <3>1, <3>2, <3>3 DEF Reads, Producer
    <3> QED BY <2>7, <3>4 DEF Upstream
  <2>9. StartsAfter(t, v, WaitsFor)
    BY <2>5, <2>7, <2>8, TaskWaits
  <2>10. PICK i \in DOMAIN Path[t], j \in DOMAIN Path[v] : <<Path[t][i], Path[v][j]>> \in WaitsFor
    BY <2>9 DEF StartsAfter
  <2>11. j \in DOMAIN q /\ Path[v][j] = q[j]
    BY <2>5, <2>6
  <2> QED BY <1>3, <2>4, <2>10, <2>11 DEF StartsAfter
<1> QED BY <1>5, <1>6

(* A condition or loop that needs an output waits for it: a task in it is   *)
(* downstream of the output.                                                *)
LEMMA NeededWaits ==
  ASSUME Tree(nodes), Earlier(nodes), \A n \in Node : Leads(n), Accepted,
         NEW n \in Node, NEW r \in nodes[n].reads, r.ch.src = "task", Kind(n) # "task", Needed(n)
  PROVE  StartsAfter(n, r.ch.of, WaitsFor)
<1>1. /\ r \in ReadType /\ r.ch.of \in Node /\ r.ch.of < n /\ r.ch.of # None /\ r.ch.fan = None
      /\ Producer(r.ch) = r.ch.of /\ n \in Nat /\ Node \subseteq Nat
  BY OutputsAreEarlier
<1>2. PICK u : u = r.ch.of
  OBVIOUS
<1>3. u \in Node /\ u # n /\ u < n /\ u # None
  BY <1>1, <1>2
<1>4. Kind(n) \in Condition \cup {"loop"} /\ (Kind(n) = "loop" => \A s \in nodes[n].reads : s = r)
  <2>1. nodes[n].kind \in Kinds /\ Fits(nodes[n].kind, nodes[n].reads)
    <3>1. nodes[n] \in NodeType
      BY DEF Tree, Node
    <3> QED BY <3>1 DEF NodeType, Earlier, Node
  <2> QED BY <2>1 DEF Kind, Kinds, Block, Fits
<1>5. PICK t \in Tasks :
        /\ n \in Above(t)
        /\ Kind(n) = "loop" => \E s \in Reads(t) : s.loop = n /\ s.how = "value"
  BY DEF Needed
<1>6. t \in Node
  BY DEF Tasks, InTree
<1>7. PICK p : p = Path[t]
  OBVIOUS
<1>8. p \in Seq(Node) /\ Len(p) \in Nat /\ DOMAIN p = 1..Len(p)
  BY <1>6, <1>7 DEF Leads
<1>9. PICK i \in 1..(Len(p) - 1) : p[i] = n
  BY <1>5, <1>7 DEF Above
<1>10. i \in DOMAIN p /\ IsOn(Path[t], n)
  BY <1>7, <1>8, <1>9 DEF IsOn
<1>11. u \in Upstream(t)
  <2>1. CASE Kind(n) \in Condition
    <3>1. i \in {j \in DOMAIN p : Kind(p[j]) \in Condition} /\ r \in nodes[p[i]].reads
      BY <1>9, <1>10, <2>1
    <3>2. r \in UNION {nodes[p[j]].reads : j \in {m \in DOMAIN p : Kind(p[m]) \in Condition}}
      BY <3>1
    <3>3. r \in ConditionReads(t)
      BY <1>7, <3>2 DEF ConditionReads
    <3> QED BY <1>1, <1>2, <3>3 DEF Upstream
  <2>2. CASE Kind(n) = "loop"
    <3>1. PICK s \in Reads(t) : s.loop = n /\ s.how = "value"
      BY <1>5, <2>2
    <3>2. PICK a \in nodes[t].reads : s = Surfaced(t, a)
      BY <3>1 DEF Reads
    <3>3. a \in ReadType
      <4>1. nodes[t] \in NodeType
        BY <1>6 DEF Tree, Node
      <4> QED BY <4>1 DEF NodeType
    <3>4. s = a
      <4>1. a.how = "collected" => s.how = "collected"
        BY <3>2, <3>3 DEF Surfaced, ReadType
      <4> QED BY <3>1, <3>2, <4>1 DEF Surfaced
    <3>5. s.ch = ItemIn(nodes, n)
      <4>1. n # None
        BY <1>3, <1>1 DEF None
      <4> QED BY <1>6, <3>1, <3>2, <3>4, <4>1 DEF Earlier, Named, Node
    <3>6. s.ch = [r.ch EXCEPT !.depth = @ + 1]
      <4>1. (CHOOSE x \in nodes[n].reads : TRUE) = r
        BY <1>4, <2>2
      <4> QED BY <3>5, <4>1 DEF ItemIn
    <3>7. s.ch.src = "task" /\ s.ch.of = u /\ s.ch.fan = None
      BY <1>1, <1>2, <3>6 DEF ReadType, ChannelType
    <3> QED BY <1>3, <3>1, <3>7 DEF Upstream, Producer
  <2> QED BY <1>4, <2>1, <2>2
<1>12. ~IsOn(Path[u], n)
  <2>1. Kind(n) # "branches"
    BY <1>4 DEF Condition
  <2> QED BY <1>1, <1>3, <2>1, NotAround
<1>13. ~DependencyIllegal(t, u)
  BY <1>11 DEF Accepted
<1>14. \E k \in DOMAIN Path[n], j \in DOMAIN Path[u] : <<Path[n][k], Path[u][j]>> \in dependencies
  BY <1>3, <1>10, <1>11, <1>12, <1>13, DependencyHolds
<1> QED BY <1>2, <1>14 DEF StartsAfter, WaitsFor

(* A group waits for the task beside it whose output it reads.              *)
LEMMA SiblingWaits ==
  ASSUME Tree(nodes), Earlier(nodes), \A n \in Node : Leads(n),
         NEW n \in InTree, NEW r \in nodes[n].reads, r.ch.src = "task", Kind(n) # "task",
         nodes[n].parent = nodes[r.ch.of].parent
  PROVE  StartsAfter(n, r.ch.of, WaitsFor)
<1>1. n \in Node
  BY DEF InTree
<1>2. r.ch.of \in Node /\ Producer(r.ch) = r.ch.of
  BY <1>1, OutputsAreEarlier
<1>3. n # 1 /\ nodes[n].parent # None
  <2>1. n # 1
    BY <1>1 DEF Tree, Earlier, Fits, Node
  <2> QED BY <2>1 DEF InTree
<1>4. r.ch.of \in Children(nodes[n].parent)
  BY <1>2, <1>3 DEF Children, InTree
<1>5. r.ch \in Arguments(n)
  BY DEF Arguments, Passed
<1>6. <<n, r.ch.of>> \in {n} \X (Children(nodes[n].parent) \cap {Producer(c) : c \in Arguments(n)})
  BY <1>2, <1>4, <1>5
<1>7. <<n, r.ch.of>> \in addImplicitDependencies
  BY <1>3, <1>6 DEF addImplicitDependencies
<1>8. IsOn(Path[n], n) /\ IsOn(Path[r.ch.of], r.ch.of)
  BY <1>1, <1>2 DEF Leads, IsOn
<1> QED BY <1>7, <1>8 DEF StartsAfter, WaitsFor, IsOn

(* A task that reads an output, or was written after a task, starts when    *)
(* that task has ended, and so does a block whose condition or list is an   *)
(* output: in every pipeline that create_pipeline_spec accepts              *)
(* (get_dependencies, addImplicitDependencies).                             *)
THEOREM ReadersStartLast == Spec => []ReadersWait
<1>1. Wired => ReadersWait
  <2>1. SUFFICES ASSUME Wired, Compiled, NEW n \in InTree
                 PROVE  /\ \A r \in nodes[n].reads :
                             /\ r.ch.src = "task"
                             /\ \/ Kind(n) = "task" \/ Needed(n)
                                \/ nodes[n].parent = nodes[r.ch.of].parent
                             => StartsAfter(n, r.ch.of, WaitsFor)
                        /\ Kind(n) = "task" => \A u \in nodes[n].after : StartsAfter(n, u, WaitsFor)
    BY DEF ReadersWait
  <2>2. Tree(nodes) /\ Ranked(nodes) /\ Earlier(nodes) /\ Accepted /\ n \in Node
    BY <2>1, InvHolds DEF Wired, InTree
  <2>3. \A m \in Node : Leads(m)
    BY <2>2, PathsLead
  <2>4. CASE Kind(n) = "task"
    <3>1. n \in Tasks
      BY <2>1, <2>4 DEF Tasks
    <3>2. ASSUME NEW u \in nodes[n].after PROVE StartsAfter(n, u, WaitsFor)
      <4>1. u \in Node
        BY <2>2, <3>1, <3>2 DEF Accepted, Known, InTree
      <4>2. u \in Upstream(n)
        BY <3>2 DEF Upstream
      <4>3. u # n
        BY <2>2, <2>3, <3>1, <4>2, NobodyAwaitsItself
      <4> QED BY <2>2, <2>3, <3>1, <4>1, <4>2, <4>3, TaskWaits
    <3> QED BY <2>2, <2>3, <2>4, <3>1, <3>2, TaskWaitsForOutputs
  <2>5. CASE Kind(n) # "task"
    BY <2>1, <2>2, <2>3, <2>5, NeededWaits, SiblingWaits
  <2> QED BY <2>4, <2>5
<1> QED BY <1>1, WiringIsSound, PTL

-----------------------------------------------------------------------------
(* Nobody waits in a circle. *)

LEMMA PathSpans ==
  ASSUME Tree(nodes), Ranked(nodes), \A n \in Node : Leads(n), NEW last, Spans(nodes, last),
         NEW n \in Node, NEW i \in 1..Len(Path[n])
  PROVE  n <= last[n] /\ last[n] \in Nat /\ last[Path[n][i]] \in Nat /\ last[n] <= last[Path[n][i]]
<1>1. PICK p : p = Path[n]
  OBVIOUS
<1>2. PICK L : L = Len(p)
  OBVIOUS
<1>3. p \in Seq(Node) /\ L \in Nat /\ L >= 1 /\ p[L] = n /\ \A j \in 1..L : p[j] \in Node
  BY <1>1, <1>2 DEF Leads
<1>4. /\ \A m \in Node : last[m] \in Nat /\ m <= last[m]
      /\ \A m \in Node : nodes[m].parent # None => last[m] <= last[nodes[m].parent]
  BY DEF Spans, Node
<1> DEFINE W == {j \in 1..L : ~(last[n] <= last[p[j]])}
<1>5. SUFFICES W = {}
  BY <1>1, <1>2, <1>3, <1>4
<1>6. SUFFICES ASSUME W # {} PROVE FALSE
  OBVIOUS
<1>7. PICK j \in W : \A y \in W : y <= j
  <2>1. W \subseteq 1..L
    OBVIOUS
  <2> HIDE DEF W
  <2> QED BY <1>3, <1>6, <2>1, LargestOf
<1>8. j \in 1..L /\ j # L
  BY <1>3, <1>4
<1>9. j + 1 \in 1..L /\ ~(j + 1 <= j) /\ j + 1 # 1 /\ (j + 1) - 1 = j
  BY <1>3, <1>8
<1>10. last[n] <= last[p[j + 1]]
  BY <1>7, <1>9
<1>11. nodes[p[j + 1]].parent = p[j]
  BY <1>1, <1>2, <1>9, PathClimbs
<1>12. p[j] # None
  BY <1>3, <1>8 DEF Tree, Node, None
<1>13. last[p[j + 1]] <= last[p[j]]
  BY <1>3, <1>4, <1>9, <1>11, <1>12
<1>14. last[n] \in Nat /\ last[p[j]] \in Nat /\ last[p[j + 1]] \in Nat
  BY <1>3, <1>4, <1>8, <1>9
<1>15. last[n] <= last[p[j]]
  BY <1>10, <1>13, <1>14
<1> QED BY <1>15

(* Of two neighbours the one with the earlier node was written first.       *)
LEMMA Beside ==
  ASSUME Tree(nodes), Ranked(nodes), \A n \in Node : Leads(n), NEW last, Spans(nodes, last),
         NEW t \in Node, NEW w \in Node, w < t,
         NEW a \in Node, NEW b \in Node, IsOn(Path[t], a), IsOn(Path[w], b), a # b,
         nodes[a].parent # None, nodes[a].parent = nodes[b].parent, Kind(a) # "branches", Kind(b) # "branches"
  PROVE  b < a
<1>1. Node \subseteq Nat /\ Node = DOMAIN nodes
  BY DEF Tree, Node
<1>2. SUFFICES ASSUME a < b PROVE FALSE
  BY <1>1
<1>3. last[a] < b
  BY <1>1, <1>2 DEF Spans, Plain, Kind
<1>4. t <= last[a] /\ last[a] \in Nat
  <2>1. PICK p : p = Path[t]
    OBVIOUS
  <2>2. p \in Seq(Node) /\ DOMAIN p = 1..Len(p)
    BY <2>1 DEF Leads
  <2>3. PICK i \in 1..Len(p) : p[i] = a
    BY <2>1, <2>2 DEF IsOn
  <2>4. t <= last[t] /\ last[t] \in Nat /\ last[a] \in Nat /\ last[t] <= last[a]
    BY <2>1, <2>3, PathSpans
  <2> QED BY <1>1, <2>4
<1>5. b <= w
  <2>1. PICK p : p = Path[w]
    OBVIOUS
  <2>2. p \in Seq(Node) /\ DOMAIN p = 1..Len(p) /\ \A i \in 1..Len(p) : Kind(p[i]) # "branches" => p[i] <= w
    BY <2>1 DEF Leads
  <2>3. PICK i \in 1..Len(p) : p[i] = b
    BY <2>1, <2>2 DEF IsOn
  <2> QED BY <2>2, <2>3
<1> QED BY <1>1, <1>3, <1>4, <1>5

(* Where an input of t or of a condition around it comes from: a task, or a *)
(* loop around a task, that was written before t.                           *)
LEMMA ProducersAreEarlier ==
  ASSUME Tree(nodes), Earlier(nodes), \A n \in Node : Leads(n), Accepted,
         NEW t \in Tasks, NEW r \in Reads(t) \cup ConditionReads(t), Producer(r.ch) # None
  PROVE  /\ Producer(r.ch) \in InTree /\ Producer(r.ch) \in Upstream(t) /\ Kind(Producer(r.ch)) # "branches"
         /\ \E w \in Node : w < t /\ IsOn(Path[w], Producer(r.ch))
<1>1. t \in Node /\ Node \subseteq Nat /\ Kind(t) = "task" /\ Known(t)
  BY DEF Tasks, InTree, Tree, Node, Accepted
<1>2. Producer(r.ch) \in Upstream(t)
  BY DEF Upstream
<1>3. r.ch.src = "task"
  BY DEF Producer
<1>4. ASSUME r.ch.fan = None, r.ch.of \in InTree, IsTask(nodes, r.ch.of), r.ch.of < t
      PROVE  /\ Producer(r.ch) \in InTree /\ Kind(Producer(r.ch)) # "branches"
             /\ \E w \in Node : w < t /\ IsOn(Path[w], Producer(r.ch))
  <2>1. PICK u : u = r.ch.of
    OBVIOUS
  <2>2. Producer(r.ch) = u /\ u \in InTree /\ u \in Node /\ Kind(u) = "task" /\ u < t
    BY <1>3, <1>4, <2>1 DEF Producer, IsTask, InTree, Kind
  <2>3. IsOn(Path[u], u)
    BY <2>2 DEF Leads, IsOn
  <2> QED BY <2>2, <2>3
<1>5. ASSUME NEW r0 \in nodes[t].reads, r = Surfaced(t, r0)
      PROVE  /\ Producer(r.ch) \in InTree /\ Kind(Producer(r.ch)) # "branches"
             /\ \E w \in Node : w < t /\ IsOn(Path[w], Producer(r.ch))
  <2>1. r0 \in ReadType
    <3>1. nodes[t] \in NodeType
      BY <1>1 DEF Tree, Node
    <3> QED BY <3>1 DEF NodeType
  <2>2. /\ r0.ch.fan = None /\ (r0.how = "collected" => r0.ch.src = "task")
        /\ r0.ch.src = "task" => IsTask(nodes, r0.ch.of) /\ r0.ch.of < t
    BY <1>1 DEF Earlier, Named, Node
  <2>3. CASE r0.how # "collected"
    <3>1. r = r0
      BY <1>5, <2>3 DEF Surfaced
    <3>2. r.ch.of \in InTree
      BY <1>1, <1>3, <3>1 DEF Known
    <3> QED BY <1>3, <1>4, <2>2, <3>1, <3>2
  <2>4. CASE r0.how = "collected"
    <3>1. PICK u : u = r0.ch.of
      OBVIOUS
    <3>2. u \in Node /\ u < t /\ r0.ch.src = "task" /\ u \in InTree
      BY <1>1, <2>2, <2>4, <3>1 DEF IsTask, Node, Known
    <3>3. PICK v : v = Uncommon(u, t)[1]
      OBVIOUS
    <3>4. Kind(v) = "loop" /\ Uncommon(u, t) # <<>>
      <4>1. ~CollectedIllegal(t, r0)
        BY DEF Accepted
      <4>2. ~(Len(Uncommon(u, t)) < 2) /\ Kind(Uncommon(u, t)[1]) = "loop"
        BY <2>4, <3>1, <4>1 DEF CollectedIllegal
      <4> QED BY <3>3, <4>2
    <3>5. PICK k \in Nat : k < Len(Path[u]) /\ v = Path[u][k + 1]
      BY <1>1, <3>2, <3>3, <3>4, PathsPart
    <3>6. PICK q : q = Path[u]
      OBVIOUS
    <3>7. v \in Node /\ k + 1 \in DOMAIN q /\ v = q[k + 1]
      BY <3>2, <3>5, <3>6 DEF Leads
    <3>8. IsOn(Path[u], v)
      BY <3>6, <3>7 DEF IsOn
    <3>9. v # None
      BY <3>7 DEF Tree, Node, None
    <3>10. Producer(r.ch) = v
      <4>1. r = [r0 EXCEPT !.ch.fan = v]
        BY <1>5, <2>4, <3>1, <3>3 DEF Surfaced
      <4>2. r.ch.src = "task" /\ r.ch.fan = v
        BY <2>1, <3>2, <4>1 DEF ReadType, ChannelType
      <4> QED BY <3>9, <4>2 DEF Producer
    <3>11. v \in InTree
      <4>1. nodes[v].kind = "loop"
        BY <3>4 DEF Kind
      <4>2. v = 1 \/ nodes[v].parent # None
        BY <3>7, <4>1 DEF Tree, Node
      <4> QED BY <3>7, <4>2 DEF InTree
    <3> QED BY <3>2, <3>4, <3>8, <3>10, <3>11
  <2> QED BY <2>3, <2>4
<1>6. CASE r \in ConditionReads(t)
  <2>1. PICK p : p = Path[t]
    OBVIOUS
  <2>2. /\ p \in Seq(Node) /\ DOMAIN p = 1..Len(p)
        /\ \A i \in 1..Len(p) : Kind(p[i]) # "branches" => p[i] <= t
    BY <1>1, <2>1 DEF Leads
  <2>3. PICK i \in DOMAIN p : Kind(p[i]) \in Condition /\ r \in nodes[p[i]].reads
    BY <1>6, <2>1 DEF ConditionReads
  <2>4. PICK g : g = p[i]
    OBVIOUS
  <2>5. g \in Node /\ g <= t /\ r \in nodes[g].reads
    BY <2>2, <2>3, <2>4 DEF Condition
  <2>6. IsTask(nodes, r.ch.of) /\ r.ch.of < g /\ r.ch.fan = None
    BY <1>3, <2>5 DEF Earlier, Named, Node
  <2>7. r.ch.of < t
    <3>1. r.ch.of \in Nat /\ g \in Nat /\ t \in Nat
      BY <1>1, <2>5, <2>6 DEF IsTask, Node
    <3> QED BY <2>5, <2>6, <3>1
  <2>8. r.ch.of \in InTree
    BY <1>1, <1>3, <1>6 DEF Known
  <2> QED BY <1>2, <1>4, <2>6, <2>7, <2>8
<1>7. CASE r \in Reads(t)
  BY <1>2, <1>5, <1>7 DEF Reads
<1> QED BY <1>2, <1>6, <1>7

(* What a task waits for is, or is around, a node written before it.        *)
LEMMA UpstreamIsEarlier ==
  ASSUME Tree(nodes), Earlier(nodes), \A n \in Node : Leads(n), Accepted, AftersGoBack,
         NEW t \in Tasks, NEW u \in Upstream(t)
  PROVE  u \in InTree /\ \E w \in Node : w < t /\ IsOn(Path[w], u)
<1>1. CASE u \in nodes[t].after
  <2>1. t \in Node /\ Kind(t) = "task" /\ Known(t)
    BY DEF Tasks, InTree, Accepted
  <2>2. u \in Node /\ u < t /\ u \in InTree
    BY <1>1, <2>1 DEF AftersGoBack, InTree, Known
  <2>3. IsOn(Path[u], u)
    BY <2>2 DEF Leads, IsOn
  <2> QED BY <2>2, <2>3
<1>2. CASE u \in {Producer(r.ch) : r \in Reads(t) \cup ConditionReads(t)} \ {None}
  <2>1. PICK r \in Reads(t) \cup ConditionReads(t) : u = Producer(r.ch)
    BY <1>2
  <2>2. Producer(r.ch) # None
    BY <1>2, <2>1
  <2> QED BY <2>1, <2>2, ProducersAreEarlier
<1> QED BY <1>1, <1>2 DEF Upstream

(* The walk down the names drops the chain from its end.                    *)
Dropped(names, chain, l, i) ==
  IF l > 0 /\ Kind(names[i - 1]) = "loop" /\ Within(chain[l].ch, Item(names[i - 1])) THEN l - 1 ELSE l

LEMMA LeftHolds ==
  ASSUME NEW names, NEW chain, DOMAIN names = 1..Len(names), Len(names) \in Nat, Len(chain) \in Nat
  PROVE  \A i \in DOMAIN names :
           /\ Left(names, chain)[i] \in 0..Len(chain)
           /\ Left(names, chain)[i] = IF i = 1 THEN Len(chain)
                                      ELSE Dropped(names, chain, Left(names, chain)[i - 1], i)
<1> DEFINE Step(f, i) == IF i = 1 THEN Len(chain)
                         ELSE LET l == f[i - 1]
                              IN IF l > 0 /\ Kind(names[i - 1]) = "loop" /\ Within(chain[l].ch, Item(names[i - 1]))
                                 THEN l - 1 ELSE l
           IsLeft(f, k) == f = [i \in 1..k |-> Step(f, i)]
           S == {k \in Nat : \E f : IsLeft(f, k)}
<1>1. PICK L : L = Len(names)
  OBVIOUS
<1>2. L \in Nat /\ DOMAIN names = 1..L
  BY <1>1
<1>3. 0 \in S
  <2> DEFINE f == [i \in 1..0 |-> 0]
  <2>1. f = [i \in 1..0 |-> Step(f, i)]
    OBVIOUS
  <2> HIDE DEF f
  <2> QED BY <2>1
<1>4. ASSUME NEW k \in S PROVE k + 1 \in S
  <2>1. PICK f : IsLeft(f, k)
    OBVIOUS
  <2>2. k \in Nat /\ k + 1 \in Nat
    OBVIOUS
  <2> DEFINE g == [i \in 1..(k + 1) |-> Step(f, i)]
  <2>3. ASSUME NEW i \in 1..(k + 1) PROVE Step(f, i) = Step(g, i)
    <3>1. CASE i = 1
      BY <3>1
    <3>2. CASE i # 1
      <4>1. i - 1 \in 1..k /\ i - 1 \in 1..(k + 1)
        BY <2>2, <3>2
      <4>2. f[i - 1] = Step(f, i - 1)
        BY <2>1, <4>1
      <4>3. g[i - 1] = Step(f, i - 1)
        BY <4>1
      <4> HIDE DEF g
      <4> QED BY <4>2, <4>3
    <3> QED BY <3>1, <3>2
  <2>4. g = [i \in 1..(k + 1) |-> Step(g, i)]
    BY <2>3
  <2> HIDE DEF g
  <2> QED BY <2>2, <2>4
<1>5. S \subseteq Nat
  OBVIOUS
<1> HIDE DEF S
<1>6. S = Nat
  <2>1. SUFFICES ASSUME Nat \ S # {} PROVE FALSE
    BY <1>5
  <2>2. PICK x \in Nat \ S : \A y \in Nat \ S : x <= y
    BY <2>1, LeastOf
  <2>3. x # 0 /\ x - 1 \in Nat /\ ~(x <= x - 1) /\ x - 1 + 1 = x
    BY <1>3, <2>2
  <2>4. x - 1 \in S
    BY <2>2, <2>3
  <2> QED BY <1>4, <2>2, <2>3, <2>4
<1>7. PICK f : f = [i \in DOMAIN names |-> Step(f, i)]
  <2>1. L \in S
    BY <1>2, <1>6
  <2>2. PICK f : IsLeft(f, L)
    BY <2>1 DEF S
  <2> QED BY <1>2, <2>2
<1>8. PICK left : left = Left(names, chain)
  OBVIOUS
<1>9. Left(names, chain) = CHOOSE g : g = [i \in DOMAIN names |-> Step(g, i)]
  BY DEF Left
<1>10. left = [i \in DOMAIN names |-> Step(left, i)]
  BY <1>7, <1>8, <1>9
<1>11. \A i \in DOMAIN names : left[i] = IF i = 1 THEN Len(chain) ELSE Dropped(names, chain, left[i - 1], i)
  <2>1. ASSUME NEW i \in DOMAIN names
        PROVE  left[i] = IF i = 1 THEN Len(chain) ELSE Dropped(names, chain, left[i - 1], i)
    <3>1. left[i] = Step(left, i)
      BY <1>10
    <3> QED BY <3>1 DEF Dropped
  <2> QED BY <2>1
<1> DEFINE W == {i \in 1..L : left[i] \notin 0..Len(chain)}
<1>12. W = {}
  <2>1. SUFFICES ASSUME W # {} PROVE FALSE
    OBVIOUS
  <2>2. W \subseteq Nat
    BY <1>2
  <2>3. PICK i \in W : \A j \in W : i <= j
    <3> HIDE DEF W
    <3> QED BY <2>1, <2>2, LeastOf
  <2>4. i \in 1..L /\ left[i] \notin 0..Len(chain)
    OBVIOUS
  <2>5. i # 1
    <3>1. Len(chain) \in 0..Len(chain)
      OBVIOUS
    <3> QED BY <1>2, <1>11, <2>4, <3>1
  <2>6. i - 1 \in 1..L /\ ~(i <= i - 1)
    BY <1>2, <2>4, <2>5
  <2>7. PICK l : l = left[i - 1]
    OBVIOUS
  <2>8. l \in 0..Len(chain)
    <3>1. i - 1 \notin W
      BY <2>3, <2>6
    <3> QED BY <2>6, <2>7, <3>1
  <2>9. left[i] = l \/ (left[i] = l - 1 /\ l > 0)
    BY <1>2, <1>11, <2>4, <2>5, <2>7 DEF Dropped
  <2> QED BY <2>4, <2>8, <2>9
<1> HIDE DEF Step
<1> QED BY <1>1, <1>2, <1>8, <1>11, <1>12

(* The channels of a chain come from one place.                             *)
LEMMA ChainsAreOfOne ==
  ASSUME NEW r, IsLoopArgument(r) => r \in ReadType
  PROVE  /\ Len(Chain(r)) \in Nat /\ Len(Chain(r)) >= 1
         /\ \A i \in 1..Len(Chain(r)) : /\ Chain(r)[i].ch.src = r.ch.src /\ Chain(r)[i].ch.of = r.ch.of
                                        /\ Chain(r)[i].ch.fan = r.ch.fan
                                        /\ Producer(Chain(r)[i].ch) = Producer(r.ch)
<1>1. CASE ~IsLoopArgument(r)
  <2>1. Chain(r) = <<r>>
    BY <1>1 DEF Chain
  <2> QED BY <2>1
<1>2. CASE IsLoopArgument(r)
  <2>0. r \in ReadType
    BY <1>2
  <2>1. PICK d \in Nat : d = r.ch.depth
    BY <2>0 DEF ReadType, ChannelType
  <2>2. PICK c : c = [i \in 1..(d + 1) |-> [r EXCEPT !.ch.depth = @ + 1 - i]]
    OBVIOUS
  <2>3. Chain(r) = c
    BY <1>2, <2>1, <2>2 DEF Chain
  <2>4. Len(c) = d + 1
    BY <2>1, <2>2
  <2>5. ASSUME NEW i \in 1..(d + 1)
        PROVE  c[i].ch.src = r.ch.src /\ c[i].ch.of = r.ch.of /\ c[i].ch.fan = r.ch.fan
    <3>1. c[i] = [r EXCEPT !.ch.depth = @ + 1 - i]
      BY <2>2
    <3> QED BY <2>0, <3>1 DEF ReadType, ChannelType
  <2> QED BY <2>1, <2>3, <2>4, <2>5 DEF Producer
<1> QED BY <1>1, <1>2

LEMMA ItemsAreTyped ==
  ASSUME Tree(nodes), NEW t \in Tasks, NEW r \in Reads(t) \cup ConditionReads(t), \A n \in Node : Leads(n)
  PROVE  IsLoopArgument(r) => r \in ReadType
<1>1. t \in Node /\ \A n \in Node : nodes[n] \in NodeType
  BY DEF Tasks, InTree, Tree, Node
<1>2. \A n \in Node : \A q \in nodes[n].reads : q \in ReadType
  BY <1>1 DEF NodeType
<1>3. CASE r \in Reads(t)
  <2>1. PICK r0 \in nodes[t].reads : r = Surfaced(t, r0)
    BY <1>3 DEF Reads
  <2>2. r0 \in ReadType
    BY <1>1, <1>2
  <2>3. CASE r0.how = "collected"
    <3>1. r.how = "collected"
      BY <2>1, <2>2, <2>3 DEF Surfaced, ReadType
    <3> QED BY <3>1 DEF IsLoopArgument
  <2>4. CASE r0.how # "collected"
    BY <2>1, <2>2, <2>4 DEF Surfaced
  <2> QED BY <2>3, <2>4
<1>4. CASE r \in ConditionReads(t)
  <2>1. PICK p : p = Path[t]
    OBVIOUS
  <2>2. p \in Seq(Node) /\ DOMAIN p = 1..Len(p)
    BY <1>1, <2>1 DEF Leads
  <2>3. PICK i \in DOMAIN p : r \in nodes[p[i]].reads
    BY <1>4, <2>1 DEF ConditionReads
  <2>4. p[i] \in Node
    BY <2>2
  <2> QED BY <1>2, <2>3, <2>4
<1> QED BY <1>3, <1>4

(* A group that is given an output is around a task that needs it, and not  *)
(* around where it comes from.                                              *)
LEMMA OutputsAreNeeded ==
  ASSUME Tree(nodes), Ranked(nodes), Earlier(nodes), \A n \in Node : Leads(n), Accepted,
         NEW g \in Node, NEW r \in Inputs(g), Producer(r.ch) # None
  PROVE  \E t \in Tasks : \E q \in Reads(t) \cup ConditionReads(t) :
           Producer(q.ch) = Producer(r.ch) /\ IsOn(Path[t], g) /\ ~IsOn(Path[Producer(r.ch)], g)
<1>1. PICK t \in Tasks : \E q \in Reads(t) \cup ConditionReads(t) : <<g, r>> \in Needs(t, q)
  <2> DEFINE needs == UNION {UNION {Needs(s, q) : q \in Reads(s) \cup ConditionReads(s)} : s \in Tasks}
  <2>1. PICK x \in needs : x[1] = g /\ r = x[2]
    BY DEF Inputs
  <2>2. PICK s \in Tasks : x \in UNION {Needs(s, q) : q \in Reads(s) \cup ConditionReads(s)}
    BY <2>1
  <2>3. PICK q \in Reads(s) \cup ConditionReads(s) : x \in Needs(s, q)
    BY <2>2
  <2>4. x = <<x[1], x[2]>>
    BY <2>3 DEF Needs, TopDown, BottomUp
  <2> QED BY <2>1, <2>3, <2>4
<1>2. PICK q \in Reads(t) \cup ConditionReads(t) : <<g, r>> \in Needs(t, q)
  BY <1>1
<1>3. IsLoopArgument(q) => q \in ReadType
  BY ItemsAreTyped
<1>4. ASSUME NEW names, DOMAIN names = 1..Len(names), Len(names) \in Nat, <<g, r>> \in TopDown(names, Chain(q))
      PROVE  Producer(r.ch) = Producer(q.ch) /\ \E i \in DOMAIN names : names[i] = g
  <2>1. PICK left : left = Left(names, Chain(q))
    OBVIOUS
  <2>2. PICK i \in DOMAIN names : left[i] > 0 /\ <<g, r>> = <<names[i], Chain(q)[left[i]]>>
    BY <1>4, <2>1 DEF TopDown
  <2>3. g = names[i] /\ r = Chain(q)[left[i]]
    BY <2>2
  <2>4. Len(Chain(q)) \in Nat /\ \A j \in 1..Len(Chain(q)) : Producer(Chain(q)[j].ch) = Producer(q.ch)
    BY <1>3, ChainsAreOfOne
  <2>5. left[i] \in 0..Len(Chain(q))
    BY <1>4, <2>1, <2>4, LeftHolds
  <2>6. left[i] \in 1..Len(Chain(q))
    BY <2>2, <2>4, <2>5
  <2> QED BY <2>3, <2>4, <2>6
<1>5. t \in InTree /\ t \in Node
  BY DEF Tasks, InTree
<1>6. PICK p : p = Path[t]
  OBVIOUS
<1>7. p \in Seq(Node) /\ DOMAIN p = 1..Len(p) /\ Len(p) \in Nat
  BY <1>5, <1>6 DEF Leads
<1>8. CASE Producer(q.ch) # None
  <2>1. PICK u : u = Producer(q.ch)
    OBVIOUS
  <2>2. u \in InTree
    BY <1>8, <2>1, ProducersAreEarlier
  <2>3. <<g, r>> \in TopDown(Uncommon(t, u), Chain(q))
    BY <1>2, <1>8, <2>1 DEF Needs
  <2>4. PICK k \in Nat : Fork(t, u, k)
    BY <1>5, <2>2, PathsFork DEF InTree
  <2>5. PICK names : names = Uncommon(t, u)
    OBVIOUS
  <2>6. /\ DOMAIN names = 1..(Len(p) - k) /\ Len(names) = Len(p) - k
        /\ \A i \in 1..(Len(p) - k) : names[i] = p[k + i] /\ k + i \in 1..Len(p)
    BY <1>5, <1>6, <2>2, <2>4, <2>5, ForkInTree
  <2>7. Len(names) \in Nat
    <3>1. k <= Len(p)
      BY <1>6, <2>4 DEF Fork
    <3> QED BY <1>7, <2>6, <3>1
  <2>8. Producer(r.ch) = u /\ \E i \in DOMAIN names : names[i] = g
    BY <1>4, <2>1, <2>3, <2>5, <2>6, <2>7
  <2>9. PICK i \in 1..(Len(p) - k) : names[i] = g
    BY <2>6, <2>8
  <2>10. k + i \in 1..Len(p) /\ p[k + i] = g /\ ~(k + i <= k)
    BY <2>6, <2>9, <1>7
  <2>11. ~IsOn(Path[u], g)
    <3>1. SUFFICES ASSUME NEW j \in DOMAIN Path[u], Path[u][j] = g PROVE FALSE
      BY DEF IsOn
    <3>2. u \in Node
      BY <2>2 DEF InTree
    <3>3. j \in 1..Len(Path[u])
      BY <3>1, <3>2 DEF Leads
    <3> QED BY <1>6, <2>4, <2>10, <3>1, <3>3 DEF Fork
  <2>12. IsOn(Path[t], g)
    BY <1>6, <1>7, <2>10 DEF IsOn
  <2> QED BY <2>1, <2>8, <2>11, <2>12
<1>9. CASE Producer(q.ch) = None
  <2>1. CASE IsRaw(q)
    <3>1. <<g, r>> \in BottomUp(p, q)
      BY <1>2, <1>6, <1>9, <2>1 DEF Needs
    <3>2. r = q
      BY <3>1 DEF BottomUp
    <3> QED BY <1>9, <3>2
  <2>2. CASE ~IsRaw(q)
    <3>1. <<g, r>> \in TopDown(p, Chain(q))
      BY <1>2, <1>6, <1>9, <2>2 DEF Needs
    <3>2. Producer(r.ch) = Producer(q.ch)
      BY <1>4, <1>7, <3>1
    <3> QED BY <1>9, <3>2
  <2> QED BY <2>1, <2>2
<1> QED BY <1>8, <1>9

(* Who waits for a node waits for an earlier one, branches apart.           *)
GoesBack(a, b) == a \in Node /\ b \in Node /\ Kind(b) # "branches" /\ (Kind(a) # "branches" => b < a)

LEMMA DependenciesGoBack ==
  ASSUME Tree(nodes), Ranked(nodes), Earlier(nodes), \A n \in Node : Leads(n), Accepted,
         NEW last, Spans(nodes, last), AftersGoBack, NoneWaitsForABranch, NEW a, NEW b, <<a, b>> \in dependencies
  PROVE  GoesBack(a, b)
<1>1. PICK t \in Tasks : \E u \in Upstream(t) : <<a, b>> = <<Uncommon(t, u)[1], Uncommon(u, t)[1]>>
  <2>1. PICK d \in UNION {{s} \X Upstream(s) : s \in Tasks} : <<a, b>> = <<Uncommon(d[1], d[2])[1], Uncommon(d[2], d[1])[1]>>
    BY DEF dependencies
  <2>2. PICK s \in Tasks : d \in {s} \X Upstream(s)
    BY <2>1
  <2>3. d[1] = s /\ d[2] \in Upstream(s)
    BY <2>2
  <2> QED BY <2>1, <2>3
<1>2. PICK u \in Upstream(t) : a = Uncommon(t, u)[1] /\ b = Uncommon(u, t)[1]
  BY <1>1
<1>3. u \in InTree /\ \E w \in Node : w < t /\ IsOn(Path[w], u)
  BY UpstreamIsEarlier
<1>4. PICK w \in Node : w < t /\ IsOn(Path[w], u)
  BY <1>3
<1>5. t \in InTree /\ t \in Node /\ u \in Node /\ Node \subseteq Nat /\ None \notin Node /\ Kind(t) = "task"
  BY <1>3 DEF Tasks, InTree, Tree, Node, None
<1>6. PICK k \in Nat : Fork(t, u, k)
  BY <1>5, PathsFork
<1>7. Fork(u, t, k)
  BY <1>6 DEF Fork
<1>8. PICK p : p = Path[t]
  OBVIOUS
<1>9. PICK q : q = Path[u]
  OBVIOUS
<1>10. /\ p \in Seq(Node) /\ Len(p) \in Nat /\ Len(p) >= 1 /\ p[Len(p)] = t /\ DOMAIN p = 1..Len(p)
       /\ q \in Seq(Node) /\ Len(q) \in Nat /\ Len(q) >= 1 /\ q[Len(q)] = u /\ DOMAIN q = 1..Len(q)
       /\ \A i \in 1..Len(q) : i < Len(q) => Kind(q[i]) # "task"
  BY <1>5, <1>8, <1>9 DEF Leads
<1>11. u # t
  <2>1. ~IsOn(Path[w], t)
    <3>1. t # w /\ Kind(t) # "branches" /\ Leads(w)
      BY <1>4, <1>5
    <3> QED BY <1>4, <1>5, <3>1, NotAround
  <2> QED BY <1>4, <2>1
<1>12. k < Len(p)
  <2>1. SUFFICES ASSUME k = Len(p) PROVE FALSE
    BY <1>6, <1>8, <1>10 DEF Fork
  <2>2. k \in 1..k /\ p[k] = q[k] /\ k <= Len(q)
    BY <1>6, <1>8, <1>9, <1>10, <2>1 DEF Fork
  <2>3. q[k] = t /\ k \in 1..Len(q)
    BY <1>10, <2>1, <2>2
  <2>4. IsOn(Path[u], t)
    BY <1>9, <1>10, <2>3 DEF IsOn
  <2>5. t # u /\ Kind(t) # "branches" /\ Leads(u)
    BY <1>5, <1>11
  <2> QED BY <1>5, <2>4, <2>5, NotAround
<1>13. Uncommon(u, t) # <<>> /\ k < Len(q)
  <2>1. Uncommon(u, t) # <<>>
    BY DEF Accepted, DependencyIllegal
  <2>2. Uncommon(u, t) = SubSeq(q, k + 1, Len(q)) /\ k <= Len(q)
    BY <1>7, <1>8, <1>9 DEF Fork
  <2> QED BY <1>10, <2>1, <2>2
<1>14. a = p[k + 1] /\ b = q[k + 1] /\ k + 1 \in 1..Len(p) /\ k + 1 \in 1..Len(q) /\ 1 \in DOMAIN Uncommon(u, t)
  <2>1. /\ DOMAIN Uncommon(t, u) = 1..(Len(p) - k)
        /\ \A i \in 1..(Len(p) - k) : Uncommon(t, u)[i] = p[k + i] /\ k + i \in 1..Len(p)
    BY <1>3, <1>5, <1>6, <1>8, ForkInTree
  <2>2. /\ DOMAIN Uncommon(u, t) = 1..(Len(q) - k)
        /\ \A i \in 1..(Len(q) - k) : Uncommon(u, t)[i] = q[k + i] /\ k + i \in 1..Len(q)
    BY <1>3, <1>5, <1>7, <1>9, ForkInTree
  <2>3. 1 \in 1..(Len(p) - k) /\ 1 \in 1..(Len(q) - k)
    BY <1>10, <1>12, <1>13
  <2> QED BY <1>2, <2>1, <2>2, <2>3
<1>15. /\ a # b /\ nodes[a].parent = nodes[b].parent /\ nodes[a].parent # None
  <2>1. /\ p[k + 1] # q[k + 1] /\ nodes[p[k + 1]].parent = nodes[q[k + 1]].parent
        /\ nodes[p[k + 1]].parent = p[k] /\ p[k] # None
    <3>1. k < Len(Path[t]) /\ k < Len(Path[u])
      BY <1>8, <1>9, <1>12, <1>13
    <3>2. /\ Path[t][k + 1] # Path[u][k + 1]
          /\ nodes[Path[t][k + 1]].parent = nodes[Path[u][k + 1]].parent
          /\ nodes[Path[t][k + 1]].parent = Path[t][k] /\ Path[t][k] # None
      <4>1. t \in InTree /\ u \in InTree /\ k \in Nat /\ Fork(t, u, k)
        BY <1>3, <1>5, <1>6
      <4> QED BY <3>1, <4>1, ForkInTree
    <3> QED BY <1>8, <1>9, <3>2
  <2> QED BY <1>14, <2>1
<1>16. a \in Node /\ b \in Node
  BY <1>10, <1>14
<1>17. Kind(b) # "branches"
  BY <1>2, <1>14 DEF NoneWaitsForABranch
<1>18. ASSUME Kind(a) # "branches" PROVE b < a
  <2>1. IsOn(Path[t], a)
    BY <1>8, <1>10, <1>14 DEF IsOn
  <2>2. IsOn(Path[w], b)
    <3>1. PICK s : s = Path[w]
      OBVIOUS
    <3>2. s \in Seq(Node) /\ DOMAIN s = 1..Len(s) /\ \A i \in 1..Len(s) : Len(Path[s[i]]) = i /\ \A j \in 1..i : Path[s[i]][j] = s[j]
      BY <3>1 DEF Leads
    <3>3. PICK i \in 1..Len(s) : s[i] = u
      BY <1>4, <3>1, <3>2 DEF IsOn
    <3>4. i = Len(q) /\ \A j \in 1..i : q[j] = s[j]
      BY <1>9, <3>2, <3>3
    <3>5. k + 1 \in 1..Len(s) /\ s[k + 1] = b
      BY <1>10, <1>14, <3>2, <3>3, <3>4
    <3> QED BY <3>1, <3>2, <3>5 DEF IsOn
  <2> QED BY <1>4, <1>5, <1>15, <1>16, <1>17, <1>18, <2>1, <2>2, Beside
<1> QED BY <1>16, <1>17, <1>18 DEF GoesBack

LEMMA ImplicitGoBack ==
  ASSUME Tree(nodes), Ranked(nodes), Earlier(nodes), \A n \in Node : Leads(n), Accepted,
         NEW last, Spans(nodes, last), NEW n, NEW s, <<n, s>> \in addImplicitDependencies
  PROVE  GoesBack(n, s)
<1>1. PICK m \in InTree \ {1} : <<n, s>> \in {m} \X (Children(nodes[m].parent) \cap {Producer(c) : c \in Arguments(m)})
  BY DEF addImplicitDependencies
<1>2. m = n /\ n \in InTree /\ n # 1 /\ s \in Children(nodes[n].parent) /\ s \in {Producer(c) : c \in Arguments(n)}
  BY <1>1
<1>3. PICK c \in Arguments(n) : s = Producer(c)
  BY <1>2
<1>4. /\ n \in Node /\ s \in InTree /\ s \in Node /\ nodes[s].parent = nodes[n].parent /\ nodes[n].parent # None
      /\ Node \subseteq Nat /\ s # None
  BY <1>2 DEF Children, InTree, Tree, Node, None
<1>5. IsOn(Path[n], n) /\ IsOn(Path[s], s)
  BY <1>4 DEF Leads, IsOn
<1>6. ASSUME IsTask(nodes, s), s < n PROVE GoesBack(n, s)
  BY <1>4, <1>6 DEF GoesBack, IsTask, Kind
<1>7. ASSUME NEW t \in Tasks, NEW q \in Reads(t) \cup ConditionReads(t), Producer(q.ch) = s, IsOn(Path[t], n), n # s
      PROVE  GoesBack(n, s)
  <2>1. t \in Node
    BY DEF Tasks, InTree
  <2>2. Kind(s) # "branches" /\ \E w \in Node : w < t /\ IsOn(Path[w], s)
    BY <1>4, <1>7, ProducersAreEarlier
  <2>3. PICK w \in Node : w < t /\ IsOn(Path[w], s)
    BY <2>2
  <2>4. ASSUME Kind(n) # "branches" PROVE s < n
    BY <1>4, <1>7, <2>1, <2>2, <2>3, <2>4, Beside
  <2> QED BY <1>4, <2>2, <2>4 DEF GoesBack
<1>8. CASE Kind(n) = "task"
  <2>1. n \in Tasks
    BY <1>2, <1>8 DEF Tasks
  <2>2. PICK q \in Reads(n) : c = q.ch
    BY <1>3, <1>8 DEF Arguments
  <2>3. n # s
    <3>1. s \in Upstream(n)
      BY <1>3, <1>4, <2>2 DEF Upstream
    <3> QED BY <1>4, <2>1, <3>1, NobodyAwaitsItself
  <2> QED BY <1>3, <1>5, <1>7, <2>1, <2>2, <2>3
<1>9. CASE Kind(n) # "task"
  <2>1. /\ \A r \in nodes[n].reads : r \in ReadType /\ r.ch.fan = None
        /\ \A r \in nodes[n].reads : r.ch.src = "task" => IsTask(nodes, r.ch.of) /\ r.ch.of < n
        /\ nodes[n].kind = "loop" => \A q, r \in nodes[n].reads : q = r
    <3>1. nodes[n] \in NodeType
      BY <1>4 DEF Tree, Node
    <3>2. \A r \in nodes[n].reads : r \in ReadType
      BY <3>1 DEF NodeType
    <3> QED BY <1>4, <3>2 DEF Earlier, Named, Fits, Node
  <2>2. CASE \E r \in nodes[n].reads : c = r.ch
    <3>1. PICK r \in nodes[n].reads : c = r.ch
      BY <2>2
    <3>2. r.ch.src = "task" /\ s = r.ch.of
      BY <1>3, <1>4, <2>1, <3>1 DEF Producer
    <3> QED BY <1>6, <2>1, <3>2
  <2>3. CASE Kind(n) = "loop" /\ c = Item(n)
    <3>1. CASE nodes[n].reads = {}
      <4>1. c.src = "raw"
        BY <2>3, <3>1 DEF Item, Channel
      <4> QED BY <1>3, <1>4, <4>1 DEF Producer
    <3>2. CASE nodes[n].reads # {}
      <4>1. PICK r \in nodes[n].reads : c = [r.ch EXCEPT !.depth = @ + 1]
        BY <2>3, <3>2 DEF Item
      <4>2. c.src = r.ch.src /\ c.of = r.ch.of /\ c.fan = None
        BY <2>1, <4>1 DEF ReadType, ChannelType
      <4>3. r.ch.src = "task" /\ s = r.ch.of
        BY <1>3, <1>4, <4>2 DEF Producer
      <4> QED BY <1>6, <2>1, <4>3
    <3> QED BY <3>1, <3>2
  <2>4. CASE \E r \in Inputs(n) : c = r.ch
    <3>1. PICK r \in Inputs(n) : c = r.ch
      BY <2>4
    <3>2. Producer(r.ch) = s /\ Producer(r.ch) # None
      BY <1>3, <1>4, <3>1
    <3>3. PICK t \in Tasks : \E q \in Reads(t) \cup ConditionReads(t) :
             Producer(q.ch) = Producer(r.ch) /\ IsOn(Path[t], n) /\ ~IsOn(Path[Producer(r.ch)], n)
      BY <1>4, <3>2, OutputsAreNeeded
    <3>4. PICK q \in Reads(t) \cup ConditionReads(t) :
             Producer(q.ch) = s /\ IsOn(Path[t], n) /\ ~IsOn(Path[s], n)
      BY <3>2, <3>3
    <3>5. n # s
      BY <1>5, <3>4
    <3> QED BY <1>7, <3>4, <3>5
  <2>5. c \in Passed(n)
    BY <1>3, <1>9 DEF Arguments
  <2> QED BY <2>2, <2>3, <2>4, <2>5 DEF Passed
<1> QED BY <1>8, <1>9

(* The tasks of a dag never wait for each other in a circle, as long as no  *)
(* after() names what was written later and no task waits for one inside a  *)
(* branch of an If with Elif or Else: in every other pipeline that          *)
(* create_pipeline_spec accepts, whatever is written inside what            *)
(* (get_dependencies, addImplicitDependencies).                             *)
THEOREM NobodyWaitsInACircle == Spec => []DagsAreAcyclic
<1>1. Wired => DagsAreAcyclic
  <2>1. SUFFICES ASSUME Wired, Compiled, AftersGoBack, NoneWaitsForABranch,
                        NEW S \in (SUBSET {d[1] : d \in WaitsFor}) \ {{}}, \A n \in S : \E m \in S : <<n, m>> \in WaitsFor
                 PROVE  FALSE
    BY DEF DagsAreAcyclic
  <2>2. /\ Tree(nodes) /\ Ranked(nodes) /\ Earlier(nodes) /\ Accepted /\ Nested(nodes, groups, open)
    BY <2>1, InvHolds DEF Wired
  <2>3. \A m \in Node : Leads(m)
    BY <2>2, PathsLead
  <2>4. PICK last : Spans(nodes, last)
    BY <2>2 DEF Nested
  <2>5. ASSUME NEW n, NEW m, <<n, m>> \in WaitsFor PROVE GoesBack(n, m)
    <3>1. CASE <<n, m>> \in dependencies
      BY <2>1, <2>2, <2>3, <2>4, <3>1, DependenciesGoBack
    <3>2. CASE <<n, m>> \in addImplicitDependencies
      BY <2>2, <2>3, <2>4, <3>2, ImplicitGoBack
    <3> QED BY <2>5, <3>1, <3>2 DEF WaitsFor
  <2>6. PICK T : T = {n \in S : n \in Node /\ Kind(n) # "branches"}
    OBVIOUS
  <2>7. \A n \in S : \E m \in T : <<n, m>> \in WaitsFor /\ GoesBack(n, m)
    <3>1. SUFFICES ASSUME NEW n \in S PROVE \E m \in T : <<n, m>> \in WaitsFor /\ GoesBack(n, m)
      OBVIOUS
    <3>2. PICK m \in S : <<n, m>> \in WaitsFor
      BY <2>1
    <3>3. GoesBack(n, m)
      BY <2>5, <3>2
    <3> QED BY <2>6, <3>2, <3>3 DEF GoesBack
  <2>8. T # {} /\ T \subseteq Nat
    <3>1. Node \subseteq Nat
      BY <2>2 DEF Tree, Node
    <3> QED BY <2>1, <2>6, <2>7, <3>1
  <2>9. PICK n \in T : \A m \in T : n <= m
    BY <2>8, LeastOf
  <2>10. PICK m \in T : GoesBack(n, m)
    BY <2>6, <2>7, <2>9
  <2>11. m < n /\ n <= m /\ m \in Nat /\ n \in Nat
    BY <2>6, <2>8, <2>9, <2>10 DEF GoesBack
  <2> QED BY <2>11
<1> QED BY <1>1, WiringIsSound, PTL

-----------------------------------------------------------------------------
(* What is read is what was written. *)

(* What is known of the nodes of a pipeline.                                *)
Sited ==
  /\ Tree(nodes) /\ Ranked(nodes) /\ Earlier(nodes) /\ Nested(nodes, groups, open)
  /\ \A n \in Node : Leads(n)

LEMMA WiredIsSited == Wired => Sited
<1> SUFFICES ASSUME Wired PROVE Sited
  OBVIOUS
<1>1. Tree(nodes) /\ Ranked(nodes) /\ Earlier(nodes) /\ Nested(nodes, groups, open)
  BY InvHolds DEF Wired
<1> QED BY <1>1, PathsLead DEF Sited

(* The items a node reads are of loops around it.                           *)
LEMMA LoopsAreAround ==
  ASSUME Sited, NEW n \in InTree, NEW r \in nodes[n].reads, r.loop # None
  PROVE  r.loop \in Above(n) /\ r.loop \in Node /\ Kind(r.loop) = "loop" /\ r.ch = Item(r.loop)
<1>1. Tree(nodes) /\ Ranked(nodes) /\ Earlier(nodes) /\ (\A m \in Node : Leads(m)) /\ n \in Node
  BY DEF Sited, InTree
<1>2. PICK up : Surrounds(nodes, groups, up)
  BY DEF Sited, Nested
<1>3. /\ up[1] = {}
      /\ \A m \in Node : nodes[m].parent # None =>
           /\ up[m] \subseteq up[nodes[m].parent] \cup {nodes[m].parent}
           /\ \A q \in nodes[m].reads : q.loop # None => q.loop \in up[m]
  BY <1>2 DEF Surrounds, Node
<1> DEFINE W == {m \in InTree : ~(up[m] \subseteq Above(m))}
<1>4. W = {}
  <2>1. SUFFICES ASSUME W # {} PROVE FALSE
    OBVIOUS
  <2>2. W \in SUBSET Node
    BY DEF InTree
  <2>3. PICK m \in W : nodes[m].parent # None => nodes[m].parent \notin W
    <3> HIDE DEF W
    <3> QED BY <1>1, <2>1, <2>2, Uppermost
  <2>4. m \in InTree /\ m \in Node /\ ~(up[m] \subseteq Above(m))
    BY DEF InTree
  <2>5. m # 1 /\ nodes[m].parent # None
    BY <1>3, <2>4 DEF InTree
  <2>6. PICK g : g = nodes[m].parent
    OBVIOUS
  <2>7. g \in Node /\ nodes[g].kind # "task" /\ g # None
    BY <1>1, <2>4, <2>5, <2>6 DEF Tree, Node
  <2>8. g \in InTree
    BY <1>1, <2>7 DEF Tree, Node, InTree
  <2>9. up[g] \subseteq Above(g)
    BY <2>3, <2>5, <2>6, <2>8
  <2>10. PICK q : q = Path[g]
    OBVIOUS
  <2>11. q \in Seq(Node) /\ Len(q) \in Nat /\ Len(q) >= 1 /\ q[Len(q)] = g
    BY <1>1, <2>7, <2>10 DEF Leads
  <2>12. Path[m] = Append(q, m)
    BY <1>1, <2>4, <2>5, <2>6, <2>10, PathsExist
  <2>13. PICK p : p = Append(q, m)
    OBVIOUS
  <2>14. Len(p) = Len(q) + 1 /\ (\A i \in 1..Len(q) : p[i] = q[i]) /\ Len(p) - 1 = Len(q)
    BY <2>4, <2>11, <2>13
  <2>15. Above(m) = {q[i] : i \in 1..Len(q)}
    BY <2>12, <2>13, <2>14 DEF Above
  <2>16. g \in Above(m)
    BY <2>11, <2>15
  <2>17. Above(g) \subseteq Above(m)
    <3>1. \A i \in 1..(Len(q) - 1) : i \in 1..Len(q)
      BY <2>11
    <3> QED BY <2>10, <2>15, <3>1 DEF Above
  <2>18. up[m] \subseteq up[g] \cup {g}
    BY <1>3, <2>4, <2>5, <2>6
  <2> QED BY <2>4, <2>9, <2>16, <2>17, <2>18
<1>5. up[n] \subseteq Above(n)
  BY <1>4
<1>6. nodes[n].parent # None
  <2>1. nodes[1].reads = {}
    BY <1>1 DEF Tree, Earlier, Fits
  <2> QED BY <2>1 DEF InTree
<1>7. r.loop \in Above(n)
  BY <1>1, <1>3, <1>5, <1>6
<1>8. r.loop \in Node /\ Kind(r.loop) = "loop" /\ r.ch = ItemIn(nodes, r.loop)
  BY <1>1 DEF Earlier, Named, Node, Kind
<1> QED BY <1>7, <1>8 DEF Item, ItemIn

(* The item of a loop, and of the loop whose item is its list.              *)
LEMMA ItemFacts ==
  ASSUME Sited, NEW l \in InTree, Kind(l) = "loop"
  PROVE  /\ Item(l) \in ChannelType /\ Item(l).fan = None
         /\ Item(l).src # "raw" => Item(l).depth >= 1
         /\ Item(l).src = "raw" /\ Item(l).depth = 0 => Item(l) = Channel("raw", l)
         /\ Item(l).src = "task" => IsTask(nodes, Item(l).of) /\ Item(l).of < l
         /\ \A q \in nodes[l].reads :
              /\ q \in ReadType /\ q.ch.fan = None /\ Item(l).depth = q.ch.depth + 1
              /\ Item(l).src = q.ch.src /\ Item(l).of = q.ch.of
         /\ Item(l).depth >= 2 => \E m \in Above(l) :
              /\ m \in Node /\ Kind(m) = "loop" /\ Item(m).src = Item(l).src /\ Item(m).of = Item(l).of
              /\ Item(m).depth = Item(l).depth - 1
<1>1. Tree(nodes) /\ Earlier(nodes) /\ l \in Node /\ l \in Nat /\ (\A m \in Node : Leads(m))
  BY DEF Sited, InTree, Tree, Node
<1>2. /\ \A q \in nodes[l].reads : /\ q \in ReadType /\ q.ch.fan = None
                                   /\ q.ch.src = "task" => IsTask(nodes, q.ch.of) /\ q.ch.of < l
                                   /\ q.loop = None => q.ch.depth = 0 /\ q.ch.src # "raw"
      /\ \A q, r \in nodes[l].reads : q = r
  <2>1. nodes[l] \in NodeType
    BY <1>1 DEF Tree, Node
  <2>2. \A q \in nodes[l].reads : q \in ReadType
    BY <2>1 DEF NodeType
  <2>3. nodes[l].kind = "loop"
    BY DEF Kind
  <2> QED BY <1>1, <2>2, <2>3 DEF Earlier, Named, Fits, Node
<1>3. CASE nodes[l].reads = {}
  <2>1. Item(l) = Channel("raw", l)
    BY <1>3 DEF Item
  <2>2. Channel("raw", l) = [src |-> "raw", of |-> l, depth |-> 0, fan |-> 0]
    BY DEF Channel, None
  <2>3. PICK c : c = Channel("raw", l)
    OBVIOUS
  <2>4. c \in ChannelType /\ c.src = "raw" /\ c.depth = 0 /\ c.fan = 0
    BY <1>1, <2>2, <2>3 DEF ChannelType
  <2> QED BY <1>3, <2>1, <2>3, <2>4 DEF None
<1>4. CASE nodes[l].reads # {}
  <2>1. PICK q \in nodes[l].reads : Item(l) = [q.ch EXCEPT !.depth = @ + 1]
    BY <1>4 DEF Item
  <2>2. q \in ReadType /\ \A r \in nodes[l].reads : r = q
    BY <1>2
  <2>3. PICK c : c = Item(l)
    OBVIOUS
  <2>4. /\ c \in ChannelType /\ c.src = q.ch.src /\ c.of = q.ch.of /\ c.fan = q.ch.fan /\ c.depth = q.ch.depth + 1
        /\ q.ch.depth \in Nat
    BY <2>1, <2>2, <2>3 DEF ReadType, ChannelType
  <2>5. ASSUME c.depth >= 2
        PROVE  \E m \in Above(l) : /\ m \in Node /\ Kind(m) = "loop" /\ Item(m).src = c.src /\ Item(m).of = c.of
                                   /\ Item(m).depth = c.depth - 1
    <3>1. q.loop # None
      BY <1>2, <2>4, <2>5
    <3>2. q.loop \in Above(l) /\ q.loop \in Node /\ Kind(q.loop) = "loop" /\ q.ch = Item(q.loop)
      BY <3>1, LoopsAreAround
    <3> QED BY <2>4, <3>2
  <2>6. c.depth >= 1
    BY <2>4
  <2>7. \A r \in nodes[l].reads : /\ r \in ReadType /\ r.ch.fan = None /\ c.depth = r.ch.depth + 1
                                  /\ c.src = r.ch.src /\ c.of = r.ch.of
    BY <1>2, <2>2, <2>4
  <2>8. c.fan = None /\ (c.src = "task" => IsTask(nodes, c.of) /\ c.of < l) /\ c.depth # 0
    BY <1>2, <2>4
  <2> QED BY <2>3, <2>4, <2>5, <2>6, <2>7, <2>8
<1> QED BY <1>3, <1>4

(* The path to a node of the tree.                                          *)
Laid(n) ==
  LET p == Path[n] IN
  /\ Len(p) \in Nat /\ Len(p) >= 1 /\ DOMAIN p = 1..Len(p) /\ p[1] = 1 /\ p[Len(p)] = n
  /\ \A i \in 1..Len(p) :
       /\ p[i] \in InTree /\ Len(Path[p[i]]) = i /\ \A j \in 1..i : Path[p[i]][j] = p[j]
       /\ nodes[p[i]].parent = IF i = 1 THEN None ELSE p[i - 1]
       /\ i < Len(p) => Kind(p[i]) # "task"
       /\ p[i] = 1 => i = 1
  /\ \A i, j \in 1..Len(p) : p[i] = p[j] => i = j
  /\ Above(n) = {p[i] : i \in 1..(Len(p) - 1)}

LEMMA PathsAreLaid ==
  ASSUME Sited, NEW n \in InTree
  PROVE  Laid(n)
<1>1. Tree(nodes) /\ Ranked(nodes) /\ (\A m \in Node : Leads(m)) /\ n \in Node
  BY DEF Sited, InTree
<1>2. PICK p : p = Path[n]
  OBVIOUS
<1>3. /\ p \in Seq(Node) /\ Len(p) \in Nat /\ Len(p) >= 1 /\ DOMAIN p = 1..Len(p) /\ p[Len(p)] = n
      /\ \A i \in 1..Len(p) : /\ Len(Path[p[i]]) = i /\ \A j \in 1..i : Path[p[i]][j] = p[j]
                              /\ i < Len(p) => Kind(p[i]) # "task"
  BY <1>1, <1>2 DEF Leads
<1>4. p[1] = 1 /\ \A i \in 1..Len(p) : p[i] \in InTree
  BY <1>1, <1>2, PathsStart
<1>5. \A i \in 1..Len(p) : nodes[p[i]].parent = IF i = 1 THEN None ELSE p[i - 1]
  BY <1>1, <1>2, PathClimbs
<1>6. \A i, j \in 1..Len(p) : p[i] = p[j] => i = j
  <2>1. SUFFICES ASSUME NEW i \in 1..Len(p), NEW j \in 1..Len(p), p[i] = p[j] PROVE i = j
    OBVIOUS
  <2>2. Len(Path[p[i]]) = i /\ Len(Path[p[j]]) = j
    BY <1>3
  <2> QED BY <2>1, <2>2
<1>7. \A i \in 1..Len(p) : p[i] = 1 => i = 1
  <2>1. 1 \in 1..Len(p)
    BY <1>3
  <2> QED BY <1>4, <1>6, <2>1
<1>8. Above(n) = {p[i] : i \in 1..(Len(p) - 1)}
  BY <1>2 DEF Above
<1> QED BY <1>2, <1>3, <1>4, <1>5, <1>6, <1>7, <1>8 DEF Laid

(* l goes over what c is, or is part of, or a part of it.                   *)
Rooted(l, c) == Kind(l) = "loop" /\ Item(l).src = c.src /\ Item(l).of = c.of

(* The depths of the items such loops among the first i - 1 of names have.  *)
Taken(names, c, i) == {Item(names[j]).depth : j \in {k \in 1..(i - 1) : Rooted(names[k], c)}}

(* What the walk needs: c and what it is an item of, from the innermost,    *)
(* and loops that lead to it, each after the one whose item is its list.    *)
Descends(names, chain, c, H) ==
  /\ DOMAIN names = 1..Len(names) /\ Len(names) \in Nat /\ H \in 1..Len(names)
  /\ Len(chain) \in Nat /\ Len(chain) >= 1
  /\ \A l \in 1..Len(chain) : /\ chain[l].ch.src = c.src /\ chain[l].ch.of = c.of
                              /\ chain[l].ch.depth = Len(chain) - l
  /\ \A j \in 1..(H - 1) : Rooted(names[j], c) =>
       /\ Item(names[j]).depth \in 1..(Len(chain) - 1)
       /\ Item(names[j]).depth >= 2 =>
            \E i \in 1..(j - 1) : Rooted(names[i], c) /\ Item(names[i]).depth = Item(names[j]).depth - 1
  /\ \A i, j \in 1..(H - 1) :
       Rooted(names[i], c) /\ Rooted(names[j], c) /\ Item(names[i]).depth = Item(names[j]).depth => i = j

(* Each of these loops drops one of the chain.                              *)
LEMMA WalkDrops ==
  ASSUME NEW names, NEW chain, NEW c, NEW H, Descends(names, chain, c, H)
  PROVE  \A i \in 1..H : /\ Left(names, chain)[i] \in 1..Len(chain)
                         /\ Taken(names, c, i) = 1..(Len(chain) - Left(names, chain)[i])
<1>1. PICK left : left = Left(names, chain)
  OBVIOUS
<1>2. PICK M : M = Len(chain)
  OBVIOUS
<1>3. /\ DOMAIN names = 1..Len(names) /\ Len(names) \in Nat /\ H \in 1..Len(names) /\ M \in Nat /\ M >= 1
      /\ \A l \in 1..M : chain[l].ch.src = c.src /\ chain[l].ch.of = c.of /\ chain[l].ch.depth = M - l
      /\ \A j \in 1..(H - 1) : Rooted(names[j], c) =>
           /\ Item(names[j]).depth \in 1..(M - 1)
           /\ Item(names[j]).depth >= 2 =>
                \E i \in 1..(j - 1) : Rooted(names[i], c) /\ Item(names[i]).depth = Item(names[j]).depth - 1
      /\ \A i, j \in 1..(H - 1) :
           Rooted(names[i], c) /\ Rooted(names[j], c) /\ Item(names[i]).depth = Item(names[j]).depth => i = j
  BY <1>2 DEF Descends
<1>4. \A i \in 1..H : left[i] = IF i = 1 THEN M ELSE Dropped(names, chain, left[i - 1], i)
  BY <1>1, <1>2, <1>3, LeftHolds
<1> DEFINE Good(i) == left[i] \in 1..M /\ Taken(names, c, i) = 1..(M - left[i])
           W == {i \in 1..H : ~Good(i)}
<1>5. SUFFICES W = {}
  BY <1>1, <1>2
<1>6. SUFFICES ASSUME W # {} PROVE FALSE
  OBVIOUS
<1>7. W \subseteq Nat
  BY <1>3
<1>8. PICK i \in W : \A j \in W : i <= j
  <2> HIDE DEF W
  <2> QED BY <1>6, <1>7, LeastOf
<1>9. i \in 1..H /\ ~Good(i)
  OBVIOUS
<1>10. i # 1
  <2>1. SUFFICES ASSUME i = 1 PROVE FALSE
    OBVIOUS
  <2>2. left[1] = M
    BY <1>4, <1>9, <2>1
  <2>3. Taken(names, c, 1) = {}
    BY DEF Taken
  <2>4. 1..(M - M) = {}
    BY <1>3
  <2> QED BY <1>3, <1>9, <2>1, <2>2, <2>3, <2>4
<1>11. PICK h : h = i - 1
  OBVIOUS
<1>12. h \in 1..H /\ h \in 1..(H - 1) /\ h \in Nat /\ ~(i <= h) /\ i = h + 1
  BY <1>3, <1>9, <1>10, <1>11
<1>13. PICK l : l = left[h]
  OBVIOUS
<1>14. Good(h)
  BY <1>8, <1>12
<1>15. l \in 1..M /\ Taken(names, c, h) = 1..(M - l)
  BY <1>13, <1>14
<1> HIDE DEF W
<1>16. left[i] = Dropped(names, chain, l, i)
  BY <1>4, <1>9, <1>10, <1>11, <1>13
<1>17. CASE ~Rooted(names[h], c)
  <2>1. left[i] = l
    <3>1. chain[l].ch.src = c.src /\ chain[l].ch.of = c.of
      BY <1>3, <1>15
    <3> QED BY <1>11, <1>16, <1>17, <3>1 DEF Dropped, Rooted, Within
  <2>2. Taken(names, c, i) = Taken(names, c, h)
    <3>1. {k \in 1..(i - 1) : Rooted(names[k], c)} = {k \in 1..(h - 1) : Rooted(names[k], c)}
      <4>1. \A k : k \in 1..(i - 1) <=> k \in 1..(h - 1) \/ k = h
        BY <1>12
      <4> QED BY <1>17, <4>1
    <3> QED BY <3>1 DEF Taken
  <2> QED BY <1>9, <1>15, <2>1, <2>2
<1>18. CASE Rooted(names[h], c)
  <2>1. PICK e : e = Item(names[h]).depth
    OBVIOUS
  <2>2. e \in 1..(M - 1) /\ (e >= 2 => \E k \in 1..(h - 1) : Rooted(names[k], c) /\ Item(names[k]).depth = e - 1)
    BY <1>3, <1>12, <1>18, <2>1
  <2>3. e \notin Taken(names, c, h)
    <3>1. SUFFICES ASSUME NEW k \in 1..(h - 1), Rooted(names[k], c), Item(names[k]).depth = e PROVE FALSE
      BY DEF Taken
    <3>2. k \in 1..(H - 1) /\ k # h
      BY <1>3, <1>12
    <3> QED BY <1>3, <1>12, <1>18, <2>1, <3>1, <3>2
  <2>4. e >= 2 => e - 1 \in Taken(names, c, h)
    BY <2>2 DEF Taken
  <2>5. e = M - l + 1
    BY <1>3, <1>15, <2>2, <2>3, <2>4
  <2>6. Within(chain[l].ch, Item(names[h]))
    BY <1>3, <1>15, <1>18, <2>1, <2>2, <2>5 DEF Within, Rooted
  <2>7. left[i] = l - 1
    BY <1>11, <1>15, <1>16, <1>18, <2>6 DEF Dropped, Rooted
  <2>8. l - 1 \in 1..M
    BY <1>3, <1>15, <2>2, <2>5
  <2>9. Taken(names, c, i) = Taken(names, c, h) \cup {e}
    <3>1. {k \in 1..(i - 1) : Rooted(names[k], c)} = {k \in 1..(h - 1) : Rooted(names[k], c)} \cup {h}
      <4>1. \A k : k \in 1..(i - 1) <=> k \in 1..(h - 1) \/ k = h
        BY <1>12
      <4> QED BY <1>18, <4>1
    <3> QED BY <2>1, <3>1 DEF Taken
  <2>10. 1..(M - l) \cup {e} = 1..(M - (l - 1))
    BY <1>3, <1>15, <2>5
  <2> QED BY <1>9, <1>15, <2>7, <2>8, <2>9, <2>10
<1> QED BY <1>17, <1>18

(* Where the deepest such loop has the item c, c is what is left.           *)
LEMMA WalkStops ==
  ASSUME NEW names, NEW chain, NEW c, NEW H, Descends(names, chain, c, H),
         c.depth \in 0..(Len(chain) - 1),
         \A j \in 1..(H - 1) : Rooted(names[j], c) => Item(names[j]).depth <= c.depth,
         c.depth > 0 => \E j \in 1..(H - 1) : Rooted(names[j], c) /\ Item(names[j]).depth = c.depth
  PROVE  Left(names, chain)[H] = Len(chain) - c.depth
<1>1. PICK l : l = Left(names, chain)[H]
  OBVIOUS
<1>2. H \in 1..H /\ Len(chain) \in Nat
  BY DEF Descends
<1>3. l \in 1..Len(chain) /\ Taken(names, c, H) = 1..(Len(chain) - l)
  BY <1>1, <1>2, WalkDrops
<1>4. PICK d : d = Len(chain) - l
  OBVIOUS
<1>5. d \in Nat /\ Taken(names, c, H) = 1..d /\ l = Len(chain) - d /\ c.depth \in Nat
  BY <1>2, <1>3, <1>4
<1>6. d >= 1 => d <= c.depth
  <2>1. SUFFICES ASSUME d >= 1 PROVE d <= c.depth
    OBVIOUS
  <2>2. d \in Taken(names, c, H)
    BY <1>5, <2>1
  <2> QED BY <2>2 DEF Taken
<1>7. c.depth > 0 => c.depth <= d
  <2>1. SUFFICES ASSUME c.depth > 0 PROVE c.depth <= d
    OBVIOUS
  <2>2. c.depth \in Taken(names, c, H)
    BY <2>1 DEF Taken
  <2> QED BY <1>5, <2>2
<1>8. d = c.depth
  BY <1>5, <1>6, <1>7
<1> QED BY <1>1, <1>5, <1>8

(* The chain of q is what it is an item of, and so on.                      *)
LEMMA ChainsDescend ==
  ASSUME NEW q, q.ch \in ChannelType, IsLoopArgument(q) => q \in ReadType, IsLoopArgument(q) \/ q.ch.depth = 0
  PROVE  /\ Len(Chain(q)) = q.ch.depth + 1 /\ DOMAIN Chain(q) = 1..(q.ch.depth + 1)
         /\ \A l \in 1..(q.ch.depth + 1) :
              /\ Chain(q)[l].ch \in ChannelType /\ Chain(q)[l].ch.src = q.ch.src /\ Chain(q)[l].ch.of = q.ch.of
              /\ Chain(q)[l].ch.fan = q.ch.fan /\ Chain(q)[l].ch.depth = q.ch.depth + 1 - l
<1>1. PICK d \in Nat : d = q.ch.depth
  BY DEF ChannelType
<1>2. CASE ~IsLoopArgument(q)
  <2>1. Chain(q) = <<q>> /\ d = 0
    BY <1>1, <1>2 DEF Chain
  <2>2. PICK s : s = <<q>>
    OBVIOUS
  <2>3. Len(s) = 1 /\ DOMAIN s = 1..1 /\ \A l \in 1..1 : s[l] = q /\ l = 1
    BY <2>2
  <2>4. ASSUME NEW l \in 1..(d + 1)
        PROVE  s[l] = q /\ d + 1 - l = d
    BY <2>1, <2>3
  <2>5. Chain(q) = s /\ Len(s) = d + 1 /\ DOMAIN s = 1..(d + 1)
    BY <2>1, <2>2, <2>3
  <2> QED BY <1>1, <2>4, <2>5
<1>3. CASE IsLoopArgument(q)
  <2>1. q \in ReadType
    BY <1>3
  <2>2. PICK s : s = [i \in 1..(d + 1) |-> [q EXCEPT !.ch.depth = @ + 1 - i]]
    OBVIOUS
  <2>3. Chain(q) = s
    BY <1>1, <1>3, <2>2 DEF Chain
  <2>4. Len(s) = d + 1 /\ DOMAIN s = 1..(d + 1)
    BY <2>2
  <2>5. ASSUME NEW l \in 1..(d + 1)
        PROVE  /\ s[l].ch \in ChannelType /\ s[l].ch.src = q.ch.src /\ s[l].ch.of = q.ch.of
               /\ s[l].ch.fan = q.ch.fan /\ s[l].ch.depth = d + 1 - l
    <3>1. s[l] = [q EXCEPT !.ch.depth = @ + 1 - l]
      BY <2>2
    <3>2. d + 1 - l \in Nat
      OBVIOUS
    <3> QED BY <1>1, <2>1, <3>1, <3>2 DEF ReadType, ChannelType
  <2> QED BY <1>1, <2>3, <2>4, <2>5
<1> QED BY <1>2, <1>3

(* What a task gets through the dags around it: a channel, or what it is an *)
(* item of, reaches the b-th of them if the loops before lead to it.        *)
LEMMA PassedDown ==
  ASSUME Sited, NEW t \in Tasks, NEW q \in Reads(t) \cup ConditionReads(t), NEW c \in ChannelType,
         NEW b \in 1..Len(Path[t]),
         q.ch \in ChannelType, c.src # "raw", q.ch.src = c.src, q.ch.of = c.of, q.ch.fan = c.fan,
         IsLoopArgument(q) \/ q.ch.depth = 0, c.depth <= q.ch.depth, c.fan # None => c.depth = 0,
         Producer(c) # None => /\ Producer(c) \in InTree
                               /\ \E x \in 1..b : ~IsOn(Path[Producer(c)], Path[t][x]),
         \A j \in 1..(b - 1) : Rooted(Path[t][j], c) => Item(Path[t][j]).depth <= c.depth,
         \A i, j \in 1..(b - 1) :
           Rooted(Path[t][i], c) /\ Rooted(Path[t][j], c) /\ Item(Path[t][i]).depth = Item(Path[t][j]).depth => i = j,
         c.depth > 0 => \E j \in 1..(b - 1) : Rooted(Path[t][j], c) /\ Item(Path[t][j]).depth = c.depth
  PROVE  c \in Passed(Path[t][b])
<1>1. Tree(nodes) /\ Ranked(nodes) /\ (\A m \in Node : Leads(m)) /\ t \in InTree /\ t \in Node /\ Node \subseteq Nat
  BY DEF Sited, Tasks, InTree, Tree, Node
<1>2. PICK p : p = Path[t]
  OBVIOUS
<1>3. /\ Len(p) \in Nat /\ Len(p) >= 1 /\ DOMAIN p = 1..Len(p) /\ b \in 1..Len(p)
      /\ \A i \in 1..Len(p) : /\ p[i] \in InTree /\ Len(Path[p[i]]) = i /\ \A j \in 1..i : Path[p[i]][j] = p[j]
  BY <1>1, <1>2, PathsAreLaid DEF Laid
<1>4. c.depth \in Nat /\ q.ch.depth \in Nat
  BY DEF ChannelType
(* The loops before the b-th. *)
<1>5. ASSUME NEW j \in 1..(b - 1), Rooted(p[j], c)
      PROVE  /\ Item(p[j]).depth \in Nat /\ Item(p[j]).depth >= 1 /\ Item(p[j]).depth <= c.depth
             /\ c.src = "task" => IsTask(nodes, c.of) /\ c.of < p[j]
             /\ Item(p[j]).depth >= 2 =>
                  \E i \in 1..(j - 1) : Rooted(p[i], c) /\ Item(p[i]).depth = Item(p[j]).depth - 1
  <2>1. j \in 1..Len(p) /\ p[j] \in InTree /\ Kind(p[j]) = "loop" /\ Item(p[j]).src = c.src /\ Item(p[j]).of = c.of
    BY <1>3, <1>5 DEF Rooted
  <2>2. Item(p[j]) \in ChannelType /\ Item(p[j]).depth >= 1
    BY <2>1, ItemFacts
  <2>3. c.src = "task" => IsTask(nodes, c.of) /\ c.of < p[j]
    BY <2>1, ItemFacts
  <2>4. Item(p[j]).depth <= c.depth
    BY <1>2, <1>5
  <2>5. ASSUME Item(p[j]).depth >= 2
        PROVE  \E i \in 1..(j - 1) : Rooted(p[i], c) /\ Item(p[i]).depth = Item(p[j]).depth - 1
    <3>1. PICK m \in Above(p[j]) : /\ Kind(m) = "loop" /\ Item(m).src = c.src /\ Item(m).of = c.of
                                   /\ Item(m).depth = Item(p[j]).depth - 1
      BY <2>1, <2>5, ItemFacts
    <3>2. Above(p[j]) = {Path[p[j]][i] : i \in 1..(Len(Path[p[j]]) - 1)}
      BY <2>1, PathsAreLaid DEF Laid
    <3>3. PICK i \in 1..(j - 1) : m = Path[p[j]][i]
      BY <1>3, <2>1, <3>1, <3>2
    <3>4. m = p[i]
      <4>1. i \in 1..j
        BY <2>1, <3>3
      <4> QED BY <1>3, <2>1, <3>3, <4>1
    <3> QED BY <3>1, <3>4 DEF Rooted
  <2> QED BY <2>2, <2>3, <2>4, <2>5 DEF ChannelType
(* Where the walk begins. *)
<1>6. Producer(q.ch) = Producer(c)
  BY DEF Producer
<1>7. PICK off, names :
        /\ off \in Nat /\ off < b /\ DOMAIN names = 1..Len(names) /\ Len(names) = Len(p) - off
        /\ \A i \in 1..Len(names) : names[i] = p[off + i]
        /\ \A j \in 1..(b - 1) : Rooted(p[j], c) => off < j
        /\ TopDown(names, Chain(q)) \subseteq Needs(t, q)
  <2>1. CASE Producer(c) = None
    <3>1. ~IsRaw(q)
      BY DEF IsRaw
    <3>2. Needs(t, q) = TopDown(p, Chain(q))
      BY <1>2, <1>6, <2>1, <3>1 DEF Needs
    <3>3. 0 \in Nat /\ 0 < b /\ Len(p) = Len(p) - 0 /\ (\A i \in 1..Len(p) : p[i] = p[0 + i]) /\ \A j \in 1..(b - 1) : 0 < j
      BY <1>3
    <3> WITNESS 0, p
    <3> QED BY <1>3, <3>2, <3>3
  <2>2. CASE Producer(c) # None
    <3>1. PICK w : w = Producer(c)
      OBVIOUS
    <3>2. w \in InTree /\ w \in Node /\ \E x \in 1..b : ~IsOn(Path[w], p[x])
      BY <1>2, <2>2, <3>1 DEF InTree
    <3>3. PICK k \in Nat : Fork(t, w, k)
      BY <1>1, <3>2, PathsFork
    <3>4. PICK names : names = Uncommon(t, w)
      OBVIOUS
    <3>5. /\ DOMAIN names = 1..(Len(p) - k) /\ Len(names) = Len(p) - k
          /\ \A i \in 1..(Len(p) - k) : names[i] = p[k + i]
      <4>1. /\ DOMAIN Uncommon(t, w) = 1..(Len(Path[t]) - k) /\ Len(Uncommon(t, w)) = Len(Path[t]) - k
            /\ \A i \in 1..(Len(Path[t]) - k) : Uncommon(t, w)[i] = Path[t][k + i]
        BY <1>1, <3>2, <3>3, ForkInTree
      <4> QED BY <1>2, <3>4, <4>1
    <3>6. \A i \in 1..k : IsOn(Path[w], p[i])
      <4>1. k <= Len(Path[w]) /\ \A i \in 1..k : p[i] = Path[w][i]
        BY <1>2, <3>3 DEF Fork
      <4>2. DOMAIN Path[w] = 1..Len(Path[w]) /\ Len(Path[w]) \in Nat
        BY <3>2, PathsAreLaid DEF Laid
      <4> QED BY <4>1, <4>2 DEF IsOn
    <3>7. k < b
      BY <1>3, <3>2, <3>6
    <3>8. ASSUME NEW j \in 1..(b - 1), Rooted(p[j], c) PROVE k < j
      <4>1. c.depth >= 1
        BY <1>4, <1>5, <3>8
      <4>2. c.src = "task" /\ w = c.of
        BY <2>2, <3>1, <4>1 DEF Producer
      <4>3. w < p[j]
        BY <1>5, <3>8, <4>2
      <4>4. p[j] \in Node /\ Kind(p[j]) = "loop"
        BY <1>3, <3>8 DEF Rooted, InTree
      <4>5. p[j] # w
        BY <1>1, <3>2, <4>3, <4>4
      <4>6. ~IsOn(Path[w], p[j])
        BY <1>1, <3>2, <4>3, <4>4, <4>5, NotAround
      <4> QED BY <1>3, <3>6, <4>6
    <3>9. TopDown(names, Chain(q)) = Needs(t, q)
      BY <1>6, <2>2, <3>1, <3>4 DEF Needs
    <3> QED BY <3>5, <3>7, <3>8, <3>9
  <2> QED BY <2>1, <2>2
<1>8. PICK H : H = b - off
  OBVIOUS
<1>9. H \in 1..Len(names) /\ H \in Nat /\ names[H] = p[b] /\ Len(names) \in Nat
  BY <1>3, <1>7, <1>8
<1>10. \A i \in 1..(H - 1) : off + i \in 1..(b - 1) /\ names[i] = p[off + i]
  BY <1>3, <1>7, <1>8, <1>9
(* The walk. *)
<1>11. PICK chain, d : chain = Chain(q) /\ d = q.ch.depth
  OBVIOUS
<1>12. d \in Nat /\ c.depth <= d
  BY <1>4, <1>11
<1>13. /\ Len(chain) = d + 1 /\ DOMAIN chain = 1..(d + 1)
       /\ \A l \in 1..(d + 1) :
            /\ chain[l].ch \in ChannelType /\ chain[l].ch.src = c.src /\ chain[l].ch.of = c.of
            /\ chain[l].ch.fan = c.fan /\ chain[l].ch.depth = d + 1 - l
  BY <1>1, <1>11, ItemsAreTyped, ChainsDescend
<1>14. Descends(names, chain, c, H)
  <2>1. ASSUME NEW j \in 1..(H - 1), Rooted(names[j], c)
        PROVE  /\ Item(names[j]).depth \in 1..((d + 1) - 1)
               /\ Item(names[j]).depth >= 2 =>
                    \E i \in 1..(j - 1) : Rooted(names[i], c) /\ Item(names[i]).depth = Item(names[j]).depth - 1
    <3>1. PICK e : e = off + j
      OBVIOUS
    <3>2. e \in 1..(b - 1) /\ names[j] = p[e] /\ Rooted(p[e], c)
      BY <1>10, <2>1, <3>1
    <3>3. Item(names[j]).depth \in 1..((d + 1) - 1)
      BY <1>4, <1>5, <1>12, <3>2
    <3>4. ASSUME Item(names[j]).depth >= 2
          PROVE  \E i \in 1..(j - 1) : Rooted(names[i], c) /\ Item(names[i]).depth = Item(names[j]).depth - 1
      <4>1. PICK x \in 1..(e - 1) : Rooted(p[x], c) /\ Item(p[x]).depth = Item(p[e]).depth - 1
        BY <1>5, <3>2, <3>4
      <4>2. x \in 1..(b - 1) /\ off < x
        <5>1. x \in 1..(b - 1)
          BY <3>2, <4>1
        <5> QED BY <1>7, <4>1, <5>1
      <4>3. x - off \in 1..(j - 1) /\ x - off \in 1..(H - 1) /\ off + (x - off) = x
        BY <1>7, <3>1, <4>1, <4>2, <1>9
      <4>4. names[x - off] = p[x]
        BY <1>10, <4>3
      <4> QED BY <3>2, <4>1, <4>3, <4>4
    <3> QED BY <3>3, <3>4
  <2>2. ASSUME NEW i \in 1..(H - 1), NEW j \in 1..(H - 1), Rooted(names[i], c), Rooted(names[j], c),
               Item(names[i]).depth = Item(names[j]).depth
        PROVE  i = j
    <3>1. off + i \in 1..(b - 1) /\ off + j \in 1..(b - 1) /\ names[i] = p[off + i] /\ names[j] = p[off + j]
      BY <1>10
    <3>2. off + i = off + j
      BY <1>2, <2>2, <3>1
    <3> QED BY <1>7, <1>9, <3>2
  <2> QED BY <1>7, <1>9, <1>12, <1>13, <2>1, <2>2 DEF Descends
<1>15. Left(names, chain)[H] = (d + 1) - c.depth
  <2>1. c.depth \in 0..(Len(chain) - 1)
    BY <1>4, <1>12, <1>13
  <2>2. \A j \in 1..(H - 1) : Rooted(names[j], c) => Item(names[j]).depth <= c.depth
    BY <1>2, <1>10
  <2>3. ASSUME c.depth > 0 PROVE \E j \in 1..(H - 1) : Rooted(names[j], c) /\ Item(names[j]).depth = c.depth
    <3>1. PICK x \in 1..(b - 1) : Rooted(p[x], c) /\ Item(p[x]).depth = c.depth
      BY <1>2, <2>3
    <3>2. off < x
      BY <1>7, <3>1
    <3>3. x - off \in 1..(H - 1) /\ off + (x - off) = x
      BY <1>7, <1>8, <3>1, <3>2
    <3>4. names[x - off] = p[x]
      BY <1>10, <3>3
    <3> QED BY <3>1, <3>3, <3>4
  <2> QED BY <1>13, <1>14, <2>1, <2>2, <2>3, WalkStops
<1>16. PICK l : l = (d + 1) - c.depth
  OBVIOUS
<1>17. l \in 1..(d + 1) /\ l > 0
  BY <1>4, <1>12, <1>16
<1>18. PICK x : x = chain[l]
  OBVIOUS
<1>19. x.ch = c /\ x.ch.src # "raw"
  <2>1. x.ch \in ChannelType /\ x.ch.src = c.src /\ x.ch.of = c.of /\ x.ch.fan = c.fan /\ x.ch.depth = d + 1 - l
    BY <1>13, <1>17, <1>18
  <2>2. x.ch.depth = c.depth
    <3>1. PICK e : e = c.depth
      OBVIOUS
    <3>2. e \in Nat /\ d \in Nat /\ l = (d + 1) - e
      BY <1>4, <1>12, <1>16, <3>1
    <3>3. d + 1 - l = e
      BY <3>2
    <3> QED BY <2>1, <3>1, <3>3
  <2>3. PICK y : y = x.ch
    OBVIOUS
  <2>4. /\ y \in ChannelType /\ c \in ChannelType /\ y.src = c.src /\ y.of = c.of /\ y.fan = c.fan
        /\ y.depth = c.depth
    BY <1>1, <1>2, <2>1, <2>2, <2>3
  <2>5. y = c
    BY <2>4 DEF ChannelType
  <2> QED BY <2>3, <2>5
<1>20. <<p[b], x>> \in TopDown(names, chain)
  <2>1. <<names[H], chain[Left(names, chain)[H]]>> \in TopDown(names, chain)
    BY <1>7, <1>9, <1>15, <1>16, <1>17 DEF TopDown
  <2> QED BY <1>9, <1>15, <1>16, <1>18, <2>1
<1>21. <<p[b], x>> \in Needs(t, q)
  BY <1>7, <1>11, <1>20
<1>22. x \in Inputs(p[b])
  BY <1>21 DEF Inputs
<1>23. FromOutside(p[b], x)
  BY <1>19 DEF FromOutside, IsRaw
<1>24. x.ch \in Passed(p[b])
  BY <1>22, <1>23 DEF Passed
<1> QED BY <1>2, <1>19, <1>24

(* The item of a constant list reaches the groups from its loop down to the *)
(* next one that goes over it.                                              *)
LEMMA RawPassedDown ==
  ASSUME Sited, NEW t \in Tasks, NEW q \in Reads(t) \cup ConditionReads(t), IsRaw(q),
         NEW b \in 1..Len(Path[t]), NEW h \in 1..b,
         Kind(Path[t][h]) = "loop", Within(q.ch, Item(Path[t][h])),
         \A k \in (b + 1)..Len(Path[t]) : ~(Kind(Path[t][k]) = "loop" /\ Within(q.ch, Item(Path[t][k])))
  PROVE  q.ch \in Passed(Path[t][b])
<1>1. t \in InTree
  BY DEF Tasks
<1>2. PICK p : p = Path[t]
  OBVIOUS
<1>3. /\ Len(p) \in Nat /\ DOMAIN p = 1..Len(p) /\ b \in 1..Len(p) /\ h \in 1..Len(p)
      /\ \A i \in 1..Len(p) : /\ p[i] \in InTree /\ Len(Path[p[i]]) = i /\ \A j \in 1..i : Path[p[i]][j] = p[j]
  BY <1>1, <1>2, PathsAreLaid DEF Laid
<1>4. q.ch.src = "raw"
  BY DEF IsRaw
<1>5. Needs(t, q) = BottomUp(p, q)
  BY <1>2, <1>4 DEF Needs, Producer
<1>6. \A k \in DOMAIN p : k > b => ~(Kind(p[k]) = "loop" /\ Within(q.ch, Item(p[k])))
  <2>1. \A k \in DOMAIN p : k > b => k \in (b + 1)..Len(p)
    BY <1>3
  <2> QED BY <1>2, <2>1
<1>7. <<p[b], q>> \in BottomUp(p, q)
  BY <1>3, <1>6 DEF BottomUp
<1>8. q \in Inputs(p[b])
  BY <1>5, <1>7 DEF Inputs
<1>9. FromOutside(p[b], q)
  <2>1. DOMAIN Path[p[b]] = 1..Len(Path[p[b]]) /\ Len(Path[p[b]]) = b
    BY <1>3, PathsAreLaid DEF Laid
  <2>2. h \in DOMAIN Path[p[b]] /\ Path[p[b]][h] = p[h]
    BY <1>3, <2>1
  <2> QED BY <1>2, <2>2 DEF FromOutside
<1> QED BY <1>2, <1>8, <1>9 DEF Passed

(* The way up ends at the innermost group where it may.                     *)
LEMMA WayUp ==
  ASSUME Sited, NEW n \in InTree, NEW c, NEW x \in 2..Len(Path[n]), EndsAt(Path[n][x], c),
         \A j \in (x + 1)..Len(Path[n]) : ~EndsAt(Path[n][j], c)
  PROVE  InputOf(n, c) = IF Kind(Path[n][x]) = "loop" /\ c = Item(Path[n][x]) THEN <<"item", Path[n][x]>>
                         ELSE IF Producer(c) \in Children(nodes[Path[n][x]].parent) THEN OutputOf(c)
                         ELSE IF nodes[Path[n][x]].parent = 1 THEN ParameterOf(c)
                         ELSE Nothing
<1>1. PICK p, L : p = Path[n] /\ L = Len(Path[n])
  OBVIOUS
<1>2. L \in Nat
  BY <1>1, PathsAreLaid DEF Laid
<1>3. PICK ends : ends = {i \in 2..L : EndsAt(p[i], c)}
  OBVIOUS
<1>4. x \in ends /\ \A j \in ends : j <= x
  <2>1. ASSUME NEW j \in 2..L, ~(j <= x) PROVE ~EndsAt(p[j], c)
    <3>1. j \in (x + 1)..L
      BY <1>1, <1>2, <2>1
    <3> QED BY <1>1, <3>1
  <2> QED BY <1>1, <1>3, <2>1
<1>5. ends \subseteq Nat
  BY <1>2, <1>3
<1>6. (CHOOSE i \in ends : \A j \in ends : j <= i) = x
  <2>1. \A i \in ends : (\A j \in ends : j <= i) => i = x
    <3>1. SUFFICES ASSUME NEW i \in ends, \A j \in ends : j <= i PROVE i = x
      OBVIOUS
    <3>2. x <= i /\ i <= x
      BY <1>4, <3>1
    <3>3. x \in Nat /\ i \in Nat
      BY <1>4, <1>5
    <3> QED BY <3>2, <3>3
  <2>2. \E i \in ends : \A j \in ends : j <= i
    BY <1>4
  <2> QED BY <2>1, <2>2
<1>7. PICK at : at = p[x]
  OBVIOUS
<1>8. InputOf(n, c) = IF Kind(at) = "loop" /\ c = Item(at) THEN <<"item", at>>
                      ELSE IF Producer(c) \in Children(nodes[at].parent) THEN OutputOf(c)
                      ELSE IF nodes[at].parent = 1 THEN ParameterOf(c)
                      ELSE Nothing
  <2>1. at = Path[n][CHOOSE i \in {k \in 2..Len(Path[n]) : EndsAt(Path[n][k], c)} :
                       \A j \in {k \in 2..Len(Path[n]) : EndsAt(Path[n][k], c)} : j <= i]
    BY <1>1, <1>3, <1>6, <1>7
  <2> QED BY <2>1 DEF InputOf
<1> QED BY <1>1, <1>7, <1>8

(* What r is: an item, a parameter or an output, at home in the h-th group  *)
(* on the way to n, and not from what n is in there.                        *)
Reaches(n, r, h) ==
  /\ r.ch \in ChannelType
  /\ IF r.loop # None
     THEN r.loop \in InTree /\ Kind(r.loop) = "loop" /\ r.ch = Item(r.loop) /\ r.how # "collected"
     ELSE /\ r.ch.depth = 0 /\ r.ch.src \in {"param", "task"}
          /\ r.ch.src = "task" => /\ Producer(r.ch) \in InTree /\ Producer(r.ch) # Path[n][h + 1]
                                  /\ r.ch.fan # None <=> r.how = "collected"
  /\ h \in 1..(Len(Path[n]) - 1) /\ Path[n][h] = Home(r)

LEMMA HomeIsAbove ==
  ASSUME Sited, NEW n \in InTree, NEW r, NEW h, Reaches(n, r, h)
  PROVE  /\ Producer(r.ch) \in InTree => ~IsOn(Path[Producer(r.ch)], Path[n][h + 1])
         /\ r.loop # None => \A j \in h..Len(Path[n]) : Producer(r.ch) \notin Children(Path[n][j])
         /\ r.loop = None /\ r.ch.src = "task" => Producer(r.ch) \in Children(Path[n][h])
<1>1. (\A m \in Node : Leads(m)) /\ Node \subseteq Nat /\ None \notin InTree
  BY DEF Sited, InTree, Tree, Node, None
<1>2. PICK p, w : p = Path[n] /\ w = Producer(r.ch)
  OBVIOUS
<1>3. /\ Len(p) \in Nat /\ h \in 1..Len(p) /\ h + 1 \in 1..Len(p) /\ p[h] = Home(r)
      /\ \A i \in 1..Len(p) : /\ p[i] \in InTree /\ Len(Path[p[i]]) = i /\ \A j \in 1..i : Path[p[i]][j] = p[j]
  BY <1>2, PathsAreLaid DEF Laid, Reaches
(* The path to w, and to its parent. *)
<1>4. ASSUME w \in InTree
      PROVE  /\ DOMAIN Path[w] = 1..Len(Path[w]) /\ Len(Path[w]) \in Nat /\ Len(Path[w]) >= 1 /\ Path[w][Len(Path[w])] = w
             /\ \A i \in 1..Len(Path[w]) : /\ Len(Path[Path[w][i]]) = i
                                            /\ \A j \in 1..i : Path[Path[w][i]][j] = Path[w][j]
             /\ nodes[w].parent = IF Len(Path[w]) = 1 THEN None ELSE Path[w][Len(Path[w]) - 1]
  <2>1. Laid(w)
    BY <1>4, PathsAreLaid
  <2>2. PICK q, L : q = Path[w] /\ L = Len(Path[w])
    OBVIOUS
  <2>3. /\ DOMAIN q = 1..L /\ L \in Nat /\ L >= 1 /\ q[L] = w
        /\ \A i \in 1..L : Len(Path[q[i]]) = i /\ \A j \in 1..i : Path[q[i]][j] = q[j]
        /\ \A i \in 1..L : nodes[q[i]].parent = IF i = 1 THEN None ELSE q[i - 1]
    BY <2>1, <2>2 DEF Laid
  <2>4. nodes[w].parent = IF L = 1 THEN None ELSE q[L - 1]
    <3>1. L \in 1..L
      BY <2>3
    <3> QED BY <2>3, <3>1
  <2> QED BY <2>2, <2>3, <2>4
<1>5. ASSUME NEW j \in 1..Len(p), w \in Children(p[j])
      PROVE  /\ w \in InTree /\ Len(Path[w]) = j + 1 /\ Path[w][j] = p[j]
             /\ \A i \in 1..j : Path[w][i] = p[i]
  <2>1. w \in InTree /\ nodes[w].parent = p[j] /\ p[j] \in InTree
    BY <1>3, <1>5 DEF Children
  <2>2. Len(Path[w]) # 1 /\ p[j] = Path[w][Len(Path[w]) - 1]
    BY <1>1, <1>4, <2>1
  <2>3. PICK k : k = Len(Path[w]) - 1
    OBVIOUS
  <2>4. k \in 1..Len(Path[w]) /\ Len(Path[w]) = k + 1
    <3>1. PICK L : L = Len(Path[w])
      OBVIOUS
    <3>2. L \in Nat /\ L >= 1 /\ L # 1
      BY <1>4, <2>1, <2>2, <3>1
    <3>3. k = L - 1
      BY <2>3, <3>1
    <3>4. k \in 1..L /\ L = k + 1
      BY <3>2, <3>3
    <3> QED BY <3>1, <3>4
  <2>5. k = j
    <3>1. Len(Path[Path[w][k]]) = k
      BY <1>4, <2>1, <2>4
    <3>2. Path[w][k] = p[j]
      BY <2>2, <2>3
    <3>3. Len(Path[p[j]]) = j
      BY <1>3
    <3> QED BY <3>1, <3>2, <3>3
  <2>6. \A i \in 1..j : Path[w][i] = Path[p[j]][i]
    BY <1>4, <2>1, <2>2, <2>3, <2>4, <2>5
  <2> QED BY <1>3, <2>1, <2>2, <2>3, <2>4, <2>5, <2>6
<1>6. ASSUME w \in InTree, IsOn(Path[w], p[h + 1])
      PROVE  /\ h + 1 \in 1..Len(Path[w]) /\ Path[w][h + 1] = p[h + 1] /\ Path[w][h] = p[h]
  <2>1. PICK i \in 1..Len(Path[w]) : Path[w][i] = p[h + 1]
    BY <1>4, <1>6 DEF IsOn
  <2>2. i = h + 1
    BY <1>3, <1>4, <1>6, <2>1
  <2>3. h \in 1..(h + 1)
    BY <1>3
  <2>4. Path[w][h] = Path[p[h + 1]][h]
    BY <1>4, <1>6, <2>1, <2>2, <2>3
  <2> QED BY <1>3, <2>1, <2>2, <2>3, <2>4
<1>7. CASE r.loop # None
  <2>1. PICK l : l = r.loop
    OBVIOUS
  <2>2. l \in InTree /\ Kind(l) = "loop" /\ r.ch = Item(l) /\ l = p[h]
    BY <1>3, <1>7, <2>1 DEF Reaches, Home
  <2>3. r.ch.fan = None /\ (r.ch.src = "task" => IsTask(nodes, r.ch.of) /\ r.ch.of < l)
    BY <2>2, ItemFacts
  <2>4. w \in InTree => w \in Node /\ l \in Node /\ w < l
    BY <1>1, <1>2, <2>2, <2>3 DEF Producer, InTree
  <2>5. w \in InTree => ~IsOn(Path[w], l)
    <3>1. SUFFICES ASSUME w \in InTree PROVE ~IsOn(Path[w], l)
      OBVIOUS
    <3>2. w \in Node /\ l \in Node /\ w < l /\ Kind(l) # "branches"
      BY <2>2, <2>4, <3>1
    <3>3. l # w
      BY <1>1, <3>2
    <3> QED BY <1>1, <3>2, <3>3, NotAround
  <2>6. w \in InTree => ~IsOn(Path[w], p[h + 1])
    <3>1. SUFFICES ASSUME w \in InTree, IsOn(Path[w], p[h + 1]) PROVE FALSE
      OBVIOUS
    <3>2. h \in DOMAIN Path[w] /\ Path[w][h] = l
      BY <1>3, <1>4, <1>6, <2>2, <3>1
    <3> QED BY <2>5, <3>1, <3>2 DEF IsOn
  <2>7. ASSUME NEW j \in h..Len(p), w \in Children(p[j]) PROVE FALSE
    <3>1. j \in 1..Len(p) /\ h \in 1..j
      BY <1>3
    <3>2. w \in InTree /\ Len(Path[w]) = j + 1 /\ Path[w][h] = p[h]
      BY <1>5, <2>7, <3>1
    <3>3. h \in DOMAIN Path[w]
      BY <1>4, <3>1, <3>2
    <3> QED BY <2>2, <2>5, <3>2, <3>3 DEF IsOn
  <2> QED BY <1>2, <1>7, <2>6, <2>7
<1>8. CASE r.loop = None
  <2>1. CASE r.ch.src = "task"
    <3>1. w \in InTree /\ w # p[h + 1]
      BY <1>2, <1>8, <2>1 DEF Reaches
    <3>2. nodes[w].parent = p[h]
      BY <1>1, <1>2, <1>3, <1>8, <3>1 DEF Home
    <3>3. w \in Children(p[h])
      BY <3>1, <3>2 DEF Children
    <3>4. Len(Path[w]) = h + 1
      BY <1>3, <1>5, <3>3
    <3>5. ~IsOn(Path[w], p[h + 1])
      BY <1>4, <1>6, <3>1, <3>4
    <3> QED BY <1>2, <1>8, <3>3, <3>5
  <2>2. CASE r.ch.src # "task"
    <3>1. w = None
      BY <1>2, <2>2 DEF Producer
    <3> QED BY <1>1, <1>2, <1>8, <2>2, <3>1
  <2> QED BY <2>1, <2>2
<1> QED BY <1>7, <1>8

(* Passed on by every group from where it is at home, it is what was meant. *)
LEMMA ComesFromHome ==
  ASSUME Sited, NEW n \in InTree, NEW r, NEW h, Reaches(n, r, h),
         \A j \in (h + 1)..Len(Path[n]) : ~(Kind(Path[n][j]) = "loop" /\ Item(Path[n][j]) = r.ch),
         \A b \in (h + 1)..(Len(Path[n]) - 1) : r.ch \in Passed(Path[n][b])
  PROVE  InputOf(n, r.ch) = Meant(r)
<1>1. PICK p, L, c : p = Path[n] /\ L = Len(Path[n]) /\ c = r.ch
  OBVIOUS
<1>2. /\ L \in Nat /\ h \in 1..(L - 1) /\ h \in 1..L /\ h + 1 \in 2..L /\ p[h] = Home(r)
      /\ \A i \in 1..L : /\ p[i] \in InTree /\ nodes[p[i]].parent = IF i = 1 THEN None ELSE p[i - 1]
                         /\ p[i] = 1 => i = 1
      /\ \A i, j \in 1..L : p[i] = p[j] => i = j
  <2>1. /\ L \in Nat
        /\ \A i \in 1..L : /\ p[i] \in InTree /\ nodes[p[i]].parent = IF i = 1 THEN None ELSE p[i - 1]
                           /\ p[i] = 1 => i = 1
        /\ \A i, j \in 1..L : p[i] = p[j] => i = j
    BY <1>1, PathsAreLaid DEF Laid
  <2>2. h \in 1..(L - 1) /\ p[h] = Home(r)
    BY <1>1 DEF Reaches
  <2>3. h \in 1..L /\ h + 1 \in 2..L
    BY <2>1, <2>2
  <2> QED BY <2>1, <2>2, <2>3
<1>3. /\ \A j \in (h + 1)..L : ~(Kind(p[j]) = "loop" /\ Item(p[j]) = c)
      /\ \A b \in (h + 1)..(L - 1) : c \in Passed(p[b])
  BY <1>1
<1>4. None \notin InTree /\ p[1] = 1 /\ nodes[1].kind = "pipeline" /\ nodes[1].parent = None
  BY <1>1, PathsAreLaid DEF Laid, Sited, Tree, InTree, Node, None
<1>5. /\ r.loop # None => \A j \in h..L : Producer(c) \notin Children(p[j])
      /\ r.loop = None /\ c.src = "task" => Producer(c) \in Children(p[h])
  BY <1>1, HomeIsAbove
(* Where the way up cannot end. *)
<1>6. ASSUME NEW j \in (h + 2)..L, Producer(c) \notin Children(p[j - 1])
      PROVE  ~EndsAt(p[j], c)
  <2>1. j \in 1..L /\ j # 1 /\ j - 1 \in (h + 1)..(L - 1) /\ j - 1 \in 1..L /\ j - 1 # 1 /\ j \in (h + 1)..L
    BY <1>2
  <2>2. nodes[p[j]].parent = p[j - 1]
    BY <1>2, <2>1
  <2>3. p[j - 1] # 1
    BY <1>2, <2>1
  <2>4. c \in Passed(p[j - 1])
    BY <1>3, <2>1
  <2>5. ~(Kind(p[j]) = "loop" /\ c = Item(p[j]))
    BY <1>3, <2>1
  <2> QED BY <1>6, <2>2, <2>3, <2>4, <2>5 DEF EndsAt
<1>7. CASE r.loop # None
  <2>1. p[h] = r.loop /\ Kind(p[h]) = "loop" /\ c = Item(p[h])
    BY <1>1, <1>2, <1>7 DEF Reaches, Home
  <2>2. h # 1
    BY <1>4, <2>1 DEF Kind
  <2>3. h \in 2..L
    BY <1>2, <2>2
  <2>4. EndsAt(p[h], c)
    BY <2>1 DEF EndsAt
  <2>5. ASSUME NEW j \in (h + 1)..L PROVE ~EndsAt(p[j], c)
    <3>1. CASE j \in (h + 2)..L
      <4>1. j - 1 \in h..L
        BY <1>2, <3>1
      <4> QED BY <1>5, <1>6, <1>7, <3>1, <4>1
    <3>2. CASE j = h + 1
      <4>1. j \in 1..L /\ j # 1 /\ j - 1 = h /\ h \in h..L
        BY <1>2, <3>2
      <4>2. nodes[p[j]].parent = p[h]
        BY <1>2, <4>1
      <4>3. p[h] # 1
        BY <1>2, <2>2
      <4>4. c \in Passed(p[h])
        BY <2>1 DEF Passed
      <4>5. ~(Kind(p[j]) = "loop" /\ c = Item(p[j]))
        BY <1>3
      <4>6. Producer(c) \notin Children(p[h])
        BY <1>5, <1>7, <4>1
      <4> QED BY <4>2, <4>3, <4>4, <4>5, <4>6 DEF EndsAt
    <3> QED BY <1>2, <2>5, <3>1, <3>2
  <2>6. InputOf(n, c) = <<"item", p[h]>>
    BY <1>1, <2>1, <2>3, <2>4, <2>5, WayUp
  <2>7. Meant(r) = <<"item", r.loop>>
    BY <1>7 DEF Meant
  <2> QED BY <1>1, <2>1, <2>6, <2>7
<1>8. CASE r.loop = None
  <2>1. PICK x : x = h + 1
    OBVIOUS
  <2>2. x \in 2..L /\ x \in 1..L /\ x # 1 /\ x - 1 = h /\ x \in (h + 1)..L
    BY <1>2, <2>1
  <2>3. nodes[p[x]].parent = p[h]
    BY <1>2, <2>2
  <2>4. ~(Kind(p[x]) = "loop" /\ c = Item(p[x]))
    BY <1>3, <2>2
  <2>5. c.depth = 0 /\ c.src \in {"param", "task"}
    BY <1>1, <1>8 DEF Reaches
  <2>6. CASE c.src = "task"
    <3>1. Producer(c) \in Children(p[h])
      BY <1>5, <1>8, <2>6
    <3>2. EndsAt(p[x], c)
      BY <2>3, <3>1 DEF EndsAt
    <3>3. ASSUME NEW j \in (x + 1)..L PROVE ~EndsAt(p[j], c)
      <4>1. j \in (h + 2)..L /\ j - 1 \in 1..L /\ j - 1 # h
        BY <1>2, <2>1
      <4>2. p[j - 1] # p[h]
        BY <1>2, <4>1
      <4>3. Producer(c) \notin Children(p[j - 1])
        BY <3>1, <4>2 DEF Children
      <4> QED BY <1>6, <4>1, <4>3
    <3>4. InputOf(n, c) = OutputOf(c)
      <4>1. Producer(c) \in Children(nodes[p[x]].parent)
        BY <2>3, <3>1
      <4> QED BY <1>1, <2>2, <2>4, <3>2, <3>3, <4>1, WayUp
    <3>5. OutputOf(c) = <<IF c.fan # None THEN "collected" ELSE "output", c.of>>
      BY <2>5 DEF OutputOf
    <3>6. c.fan # None <=> r.how = "collected"
      BY <1>1, <1>8, <2>6 DEF Reaches
    <3>7. Meant(r) = <<IF r.how = "collected" THEN "collected" ELSE "output", c.of>>
      BY <1>1, <1>8, <2>6 DEF Meant
    <3> QED BY <1>1, <3>4, <3>5, <3>6, <3>7
  <2>7. CASE c.src = "param"
    <3>1. Producer(c) = None
      BY <2>7 DEF Producer
    <3>2. p[h] = 1
      BY <1>1, <1>2, <1>8, <3>1 DEF Home
    <3>3. EndsAt(p[x], c)
      BY <2>3, <3>2 DEF EndsAt
    <3>4. \A g : Producer(c) \notin Children(g)
      BY <1>4, <3>1 DEF Children
    <3>5. ASSUME NEW j \in (x + 1)..L PROVE ~EndsAt(p[j], c)
      <4>1. j \in (h + 2)..L
        BY <1>2, <2>1
      <4> QED BY <1>6, <3>4, <4>1
    <3>6. InputOf(n, c) = ParameterOf(c)
      BY <1>1, <2>2, <2>3, <2>4, <3>2, <3>3, <3>4, <3>5, WayUp
    <3>7. ParameterOf(c) = <<"parameter", c.of>>
      BY <2>5, <2>7 DEF ParameterOf
    <3>8. Meant(r) = <<"parameter", c.of>>
      BY <1>1, <1>8, <2>7 DEF Meant
    <3> QED BY <1>1, <3>6, <3>7, <3>8
  <2> QED BY <2>5, <2>6, <2>7
<1> QED BY <1>7, <1>8

(* No loop before the last group takes it out of the chain but the one      *)
(* whose item it is, and no two do so at the same depth.                    *)
LEMMA ClearAbove ==
  ASSUME Sited, NEW n \in InTree, NEW r, NEW h, Reaches(n, r, h), Clear(n, r), ~AtHome(n, r)
  PROVE  /\ h + 1 \in 1..(Len(Path[n]) - 1) /\ r.how # "text" /\ (r.ch.src = "raw" => r.ch.depth = 0)
         /\ \A j \in 1..(Len(Path[n]) - 2) :
              Kind(Path[n][j]) = "loop" /\ Within(r.ch, Item(Path[n][j])) => Path[n][j] = r.loop
         /\ \A i, j \in 1..(Len(Path[n]) - 2) :
              /\ Rooted(Path[n][i], r.ch) /\ Rooted(Path[n][j], r.ch)
              /\ Item(Path[n][i]).depth = Item(Path[n][j]).depth /\ Item(Path[n][i]).depth <= r.ch.depth
              => i = j
         /\ \A j \in (h + 1)..(Len(Path[n]) - 1) : Kind(Path[n][j]) = "loop" =>
              Item(Path[n][j]) # r.ch /\ (Within(r.ch, Item(Path[n][j])) => j = h + 1)
<1>1. PICK p, L, c : p = Path[n] /\ L = Len(Path[n]) /\ c = r.ch
  OBVIOUS
<1>2. /\ L \in Nat /\ h \in 1..(L - 1) /\ p[h] = Home(r) /\ p[L] = n
      /\ \A i \in 1..L : p[i] \in InTree /\ nodes[p[i]].parent = IF i = 1 THEN None ELSE p[i - 1]
      /\ \A i, j \in 1..L : p[i] = p[j] => i = j
      /\ Above(n) = {p[i] : i \in 1..(L - 1)}
  <2>1. h \in 1..(L - 1) /\ p[h] = Home(r)
    BY <1>1 DEF Reaches
  <2>2. Laid(n)
    BY PathsAreLaid
  <2>3. L \in Nat /\ p[L] = n /\ Above(n) = {p[i] : i \in 1..(L - 1)}
    BY <1>1, <2>2 DEF Laid
  <2>4. \A i \in 1..L : p[i] \in InTree /\ nodes[p[i]].parent = IF i = 1 THEN None ELSE p[i - 1]
    BY <1>1, <2>2 DEF Laid
  <2>5. \A i, j \in 1..L : p[i] = p[j] => i = j
    BY <1>1, <2>2 DEF Laid
  <2> QED BY <2>1, <2>3, <2>4, <2>5
<1>3. L - 1 \in 1..L /\ L \in 1..L /\ L # 1 /\ nodes[n].parent = p[L - 1]
  <2>1. L - 1 \in 1..L /\ L \in 1..L /\ L # 1
    BY <1>2
  <2> QED BY <1>2, <2>1
<1>4. h # L - 1
  BY <1>2, <1>3 DEF AtHome
<1>5. h + 1 \in 1..(L - 1)
  BY <1>2, <1>4
<1>6. /\ r.how # "text" /\ (c.src = "raw" => c.depth = 0)
      /\ \A l \in Loops(n) \ {r.loop} :
           Within(c, Item(l)) => l = nodes[n].parent /\ c # Item(l) /\ AtHome(l, r)
      /\ \A l, m \in Loops(n) : Item(l) = Item(m) /\ Within(Item(l), c) => l = m
  BY <1>1 DEF Clear
<1>7. \A i \in 1..(L - 1) : i \in 1..L /\ (Kind(p[i]) = "loop" => p[i] \in Loops(n))
  BY <1>2 DEF Loops
<1>8. ASSUME NEW j \in 1..(L - 2), Kind(p[j]) = "loop", Within(c, Item(p[j])) PROVE p[j] = r.loop
  <2>1. SUFFICES ASSUME p[j] # r.loop PROVE FALSE
    OBVIOUS
  <2>2. j \in 1..(L - 1) /\ j # L - 1
    BY <1>2
  <2>3. p[j] = p[L - 1]
    BY <1>3, <1>6, <1>7, <1>8, <2>1, <2>2
  <2> QED BY <1>2, <1>3, <1>7, <2>2, <2>3
<1>9. ASSUME NEW i \in 1..(L - 2), NEW j \in 1..(L - 2), Rooted(p[i], c), Rooted(p[j], c),
             Item(p[i]).depth = Item(p[j]).depth, Item(p[i]).depth <= c.depth
      PROVE  i = j
  <2>1. i \in 1..(L - 1) /\ j \in 1..(L - 1) /\ i \in 1..L /\ j \in 1..L
    BY <1>2
  <2>2. p[i] \in InTree /\ p[j] \in InTree /\ p[i] \in Loops(n) /\ p[j] \in Loops(n)
    BY <1>2, <1>7, <1>9, <2>1 DEF Rooted
  <2>3. PICK x, y : x = Item(p[i]) /\ y = Item(p[j])
    OBVIOUS
  <2>4. x \in ChannelType /\ y \in ChannelType /\ x.fan = None /\ y.fan = None
    BY <1>9, <2>2, <2>3, ItemFacts DEF Rooted
  <2>5. x.src = c.src /\ y.src = c.src /\ x.of = c.of /\ y.of = c.of /\ x.depth = y.depth /\ x.depth <= c.depth
    BY <1>9, <2>3 DEF Rooted
  <2>6. x = y
    BY <2>4, <2>5 DEF ChannelType
  <2>7. Within(x, c)
    BY <2>5 DEF Within
  <2>8. p[i] = p[j]
    BY <1>6, <2>2, <2>3, <2>6, <2>7
  <2> QED BY <1>2, <2>1, <2>8
<1>10. ASSUME NEW j \in (h + 1)..(L - 1), Kind(p[j]) = "loop"
       PROVE  Item(p[j]) # c /\ (Within(c, Item(p[j])) => j = h + 1)
  <2>1. j \in 1..(L - 1) /\ j \in 1..L /\ j # h /\ h \in 1..L /\ j # 1 /\ j - 1 \in 1..L
    BY <1>2
  <2>2. p[j] # r.loop
    <3>1. SUFFICES ASSUME p[j] = r.loop PROVE FALSE
      OBVIOUS
    <3>2. r.loop # None
      BY <1>2, <2>1, <3>1 DEF Sited, Tree, InTree, Node, None
    <3>3. p[j] = p[h]
      BY <1>2, <3>1, <3>2 DEF Home
    <3> QED BY <1>2, <2>1, <3>3
  <2>3. p[j] \in Loops(n) \ {r.loop}
    BY <1>7, <1>10, <2>1, <2>2
  <2>4. Within(c, Item(p[j])) => c # Item(p[j]) /\ AtHome(p[j], r)
    BY <1>6, <2>3
  <2>5. Item(p[j]) # c
    <3>1. c \in ChannelType
      BY <1>1 DEF Reaches
    <3>2. Within(c, c)
      BY <3>1 DEF Within, ChannelType
    <3> QED BY <2>4, <3>2
  <2>6. ASSUME Within(c, Item(p[j])) PROVE j = h + 1
    <3>1. nodes[p[j]].parent = p[h]
      BY <1>2, <2>4, <2>6 DEF AtHome
    <3>2. p[j - 1] = p[h]
      BY <1>2, <2>1, <3>1
    <3>3. j - 1 = h
      BY <1>2, <2>1, <3>2
    <3> QED BY <2>1, <3>3
  <2> QED BY <2>5, <2>6
<1> QED BY <1>1, <1>5, <1>6, <1>8, <1>9, <1>10

(* q says to the task t, which is n or in it, what r says to n.             *)
Says(t, q, r) ==
  /\ t \in Tasks /\ q \in Reads(t) \cup ConditionReads(t)
  /\ IF r.ch.src = "raw" THEN q = r /\ r.how = "value" /\ Clear(t, r)
     ELSE /\ q.ch \in ChannelType /\ q.ch.src = r.ch.src /\ q.ch.of = r.ch.of /\ q.ch.fan = r.ch.fan
          /\ r.ch.depth <= q.ch.depth /\ (IsLoopArgument(q) \/ q.ch.depth = 0)
          /\ r.ch.src = "task" => Producer(r.ch) \in InTree

(* Then the groups between the value's home and n pass it on.               *)
LEMMA Brought ==
  ASSUME Sited, NEW n \in InTree, NEW r, NEW h, Reaches(n, r, h), Clear(n, r), ~AtHome(n, r),
         NEW t, NEW q, Says(t, q, r), IsOn(Path[t], n), NEW b \in (h + 1)..(Len(Path[n]) - 1)
  PROVE  r.ch \in Passed(Path[n][b])
<1>1. t \in Tasks /\ t \in InTree /\ Kind(t) = "task" /\ q \in Reads(t) \cup ConditionReads(t)
  BY DEF Says, Tasks
<1>2. PICK p, L, c, s, M : p = Path[n] /\ L = Len(Path[n]) /\ c = r.ch /\ s = Path[t] /\ M = Len(Path[t])
  OBVIOUS
<1>3. /\ L \in Nat /\ M \in Nat /\ L \in 1..M /\ h \in 1..(L - 1) /\ b \in (h + 1)..(L - 1) /\ \A i \in 1..L : p[i] = s[i]
  <2>1. /\ M \in Nat /\ DOMAIN s = 1..M /\ \A i \in 1..M : Len(Path[s[i]]) = i /\ \A j \in 1..i : Path[s[i]][j] = s[j]
    BY <1>1, <1>2, PathsAreLaid DEF Laid
  <2>2. PICK i \in 1..M : s[i] = n
    BY <1>2, <2>1 DEF IsOn
  <2>3. L = i /\ \A j \in 1..i : p[j] = s[j]
    BY <1>2, <2>1, <2>2
  <2> QED BY <1>2, <2>1, <2>2, <2>3 DEF Reaches
<1>4. /\ \A i \in 1..L : p[i] \in InTree
      /\ \A i, j \in 1..L : p[i] = p[j] => i = j
      /\ s[M] = t /\ \A i, j \in 1..M : s[i] = s[j] => i = j
      /\ \A i \in 1..M : nodes[s[i]].parent = IF i = 1 THEN None ELSE s[i - 1]
      /\ Above(t) = {s[i] : i \in 1..(M - 1)}
  BY <1>1, <1>2, PathsAreLaid DEF Laid
<1>5. b \in 1..L /\ b \in 1..M /\ b \in Nat /\ p[b] = s[b] /\ h \in 1..b /\ h \in 1..(b - 1) /\ h + 1 \in 1..b /\ p[h] = Home(r) /\ s[h] = p[h]
  <2>1. b \in 1..L /\ b \in 1..M /\ b \in Nat /\ h \in 1..b /\ h \in 1..(b - 1) /\ h + 1 \in 1..b /\ h \in 1..L
    BY <1>3
  <2> QED BY <1>2, <1>3, <2>1 DEF Reaches
<1>6. /\ c.src = "raw" => c.depth = 0
      /\ \A j \in 1..(L - 2) : Kind(p[j]) = "loop" /\ Within(c, Item(p[j])) => p[j] = r.loop
      /\ \A i, j \in 1..(L - 2) :
           /\ Rooted(p[i], c) /\ Rooted(p[j], c)
           /\ Item(p[i]).depth = Item(p[j]).depth /\ Item(p[i]).depth <= c.depth
           => i = j
  BY <1>2, ClearAbove
<1>7. c \in ChannelType /\ c.depth \in Nat /\ (r.loop # None => r.loop = p[h] /\ Kind(p[h]) = "loop" /\ c = Item(p[h]) /\ p[h] \in InTree)
  <2>1. c \in ChannelType /\ (r.loop # None => Kind(r.loop) = "loop" /\ c = Item(r.loop) /\ r.loop \in InTree)
    BY <1>2 DEF Reaches
  <2>2. r.loop # None => Home(r) = r.loop
    BY DEF Home
  <2> QED BY <1>5, <2>1, <2>2 DEF ChannelType
<1>8. \A j \in 1..(b - 1) : j \in 1..(L - 2) /\ p[j] = s[j]
  BY <1>3, <1>5
<1>9. CASE c.src # "raw"
  <2>1. /\ q.ch \in ChannelType /\ q.ch.src = c.src /\ q.ch.of = c.of /\ q.ch.fan = c.fan
        /\ c.depth <= q.ch.depth /\ (IsLoopArgument(q) \/ q.ch.depth = 0)
        /\ c.src = "task" => Producer(c) \in InTree
    BY <1>2, <1>9 DEF Says
  <2>2. c.fan # None => c.depth = 0
    <3>1. CASE r.loop # None
      BY <1>7, <3>1, ItemFacts
    <3>2. CASE r.loop = None
      BY <1>2, <3>2 DEF Reaches
    <3> QED BY <3>1, <3>2
  <2>3. Producer(c) # None => /\ Producer(c) \in InTree
                              /\ \E x \in 1..b : ~IsOn(Path[Producer(c)], s[x])
    <3>1. SUFFICES ASSUME Producer(c) # None
                   PROVE  Producer(c) \in InTree /\ \E x \in 1..b : ~IsOn(Path[Producer(c)], s[x])
      OBVIOUS
    <3>2. Producer(c) \in InTree
      BY <2>1, <3>1 DEF Producer
    <3>3. ~IsOn(Path[Producer(c)], p[h + 1])
      BY <1>2, <3>2, HomeIsAbove
    <3>4. p[h + 1] = s[h + 1]
      BY <1>3, <1>5
    <3> QED BY <1>5, <3>2, <3>3, <3>4
  <2>4. ASSUME NEW j \in 1..(b - 1), Rooted(s[j], c) PROVE Item(s[j]).depth <= c.depth
    <3>1. SUFFICES ASSUME ~(Item(s[j]).depth <= c.depth) PROVE FALSE
      OBVIOUS
    <3>2. j \in 1..(L - 2) /\ p[j] = s[j] /\ j \in 1..L
      BY <1>3, <1>8
    <3>3. p[j] \in InTree /\ Kind(p[j]) = "loop" /\ Item(p[j]).src = c.src /\ Item(p[j]).of = c.of
      BY <1>4, <2>4, <3>2 DEF Rooted
    <3>4. Item(p[j]).depth \in Nat
      BY <3>3, ItemFacts DEF ChannelType
    <3>5. Within(c, Item(p[j]))
      BY <1>7, <3>1, <3>2, <3>3, <3>4 DEF Within
    <3>6. p[j] = r.loop
      BY <1>6, <3>2, <3>3, <3>5
    <3>7. r.loop # None
      BY <3>3, <3>6 DEF Sited, Tree, InTree, Node, None
    <3>8. c = Item(p[j])
      BY <1>7, <3>6, <3>7
    <3> QED BY <1>7, <3>1, <3>2, <3>8
  <2>5. \A i, j \in 1..(b - 1) :
          Rooted(s[i], c) /\ Rooted(s[j], c) /\ Item(s[i]).depth = Item(s[j]).depth => i = j
    BY <1>6, <1>8, <2>4
  <2>6. ASSUME c.depth > 0 PROVE \E j \in 1..(b - 1) : Rooted(s[j], c) /\ Item(s[j]).depth = c.depth
    <3>1. r.loop # None
      BY <1>2, <2>6 DEF Reaches
    <3>2. Rooted(s[h], c) /\ Item(s[h]).depth = c.depth
      BY <1>5, <1>7, <3>1 DEF Rooted
    <3> QED BY <1>5, <3>2
  <2>7. c \in Passed(s[b])
    BY <1>1, <1>2, <1>5, <1>7, <1>9, <2>1, <2>2, <2>3, <2>4, <2>5, <2>6, PassedDown
  <2> QED BY <1>2, <1>5, <2>7
<1>10. CASE c.src = "raw"
  <2>1. q = r /\ r.how = "value" /\ Clear(t, r) /\ c.depth = 0
    BY <1>2, <1>6, <1>10 DEF Says
  <2>2. IsRaw(q)
    BY <1>2, <1>10, <2>1 DEF IsRaw, IsLoopArgument
  <2>3. r.loop # None
    BY <1>2, <1>10 DEF Reaches
  <2>4. Kind(s[h]) = "loop" /\ c = Item(s[h]) /\ s[h] = r.loop
    BY <1>5, <1>7, <2>3
  <2>5. Within(c, Item(s[h]))
    BY <1>7, <2>4 DEF Within
  <2>6. Reaches(t, r, h)
    <3>1. h \in 1..(M - 1)
      BY <1>3
    <3> QED BY <1>2, <1>5, <2>3, <3>1 DEF Reaches
  <2>7. ~AtHome(t, r)
    <3>1. nodes[t].parent = s[M - 1] /\ M - 1 \in 1..M /\ M - 1 # h /\ h \in 1..M
      <4>1. M - 1 \in 1..M /\ M - 1 # h /\ h \in 1..M /\ M \in 1..M /\ M # 1
        BY <1>3, <1>5
      <4> QED BY <1>4, <4>1
    <3>2. s[M - 1] # s[h]
      BY <1>4, <3>1
    <3> QED BY <1>5, <3>1, <3>2 DEF AtHome
  <2>8. \A j \in (h + 1)..(M - 1) : Kind(s[j]) = "loop" => (Within(c, Item(s[j])) => j = h + 1)
    BY <1>1, <1>2, <2>1, <2>6, <2>7, ClearAbove
  <2>9. ASSUME NEW k \in (b + 1)..M, Kind(s[k]) = "loop", Within(c, Item(s[k])) PROVE FALSE
    <3>1. k # M
      BY <1>1, <1>4, <2>9
    <3>2. k \in (h + 1)..(M - 1) /\ k # h + 1
      BY <1>3, <1>5, <3>1
    <3> QED BY <2>8, <2>9, <3>2
  <2>10. q.ch \in Passed(s[b])
    BY <1>1, <1>2, <1>5, <2>1, <2>2, <2>4, <2>5, <2>9, RawPassedDown
  <2> QED BY <1>2, <1>5, <2>1, <2>10
<1> QED BY <1>9, <1>10

(* What a node reads has a home on the way to it, or the node is apart.     *)
LEMMA ReadsReach ==
  ASSUME Sited, NEW n \in InTree, NEW r0 \in nodes[n].reads, NEW r, r = Surfaced(n, r0), ~Apart(n, r),
         r0.loop = None /\ r0.ch.src = "task" => r0.ch.of \in InTree
  PROVE  /\ \E h : Reaches(n, r, h)
         /\ r.how \in {"value", "text", "collected"} /\ (r.loop = None => r.how # "text")
<1>1. /\ Tree(nodes) /\ Ranked(nodes) /\ Earlier(nodes) /\ (\A m \in Node : Leads(m))
      /\ n \in Node /\ n \in Nat /\ Node \subseteq Nat /\ None \notin Node
  BY DEF Sited, InTree, Tree, Node, None
<1>2. r0 \in ReadType
  <2>1. nodes[n] \in NodeType
    BY <1>1 DEF Tree, Node
  <2> QED BY <2>1 DEF NodeType
<1>3. /\ Kind(n) \notin {"pipeline", "branches"}
      /\ r0.ch.fan = None /\ (r0.ch.src = "task" => IsTask(nodes, r0.ch.of) /\ r0.ch.of < n)
      /\ r0.loop = None => r0.how # "text" /\ r0.ch.depth = 0 /\ r0.ch.src # "raw"
      /\ r0.loop # None => r0.how # "collected"
      /\ r0.how = "collected" => r0.ch.src = "task"
  <2>1. Named(nodes, nodes[n].reads) /\ Fits(nodes[n].kind, nodes[n].reads)
    BY <1>1 DEF Earlier, Node
  <2>2. r0.ch.src = "task" => r0.ch.of < n
    BY <1>1 DEF Earlier, Node
  <2>3. Kind(n) \notin {"pipeline", "branches"}
    BY <2>1 DEF Fits, Kind
  <2> QED BY <2>1, <2>2, <2>3 DEF Named
<1>4. /\ r.how = r0.how /\ r.loop = r0.loop /\ r.ch.src = r0.ch.src /\ r.ch.of = r0.ch.of /\ r.ch.depth = r0.ch.depth
      /\ r0.how # "collected" => r = r0
      /\ r0.how = "collected" => r = [r0 EXCEPT !.ch.fan = Uncommon(r0.ch.of, n)[1]]
  BY <1>2 DEF Surfaced, ReadType, ChannelType
<1>5. r.how \in {"value", "text", "collected"} /\ (r.loop = None => r.how # "text")
  BY <1>2, <1>3, <1>4 DEF ReadType
<1>6. PICK p, L : p = Path[n] /\ L = Len(Path[n])
  OBVIOUS
<1>7. /\ L \in Nat /\ L >= 1 /\ DOMAIN p = 1..L /\ p[1] = 1 /\ p[L] = n
      /\ \A i \in 1..L : i < L => Kind(p[i]) # "task"
      /\ Above(n) = {p[i] : i \in 1..(L - 1)}
  BY <1>6, PathsAreLaid DEF Laid
<1>8. L # 1
  <2>1. n # 1
    BY <1>1, <1>3 DEF Tree, Kind
  <2> QED BY <1>7, <2>1
<1>9. CASE r.loop # None
  <2>1. r.loop \in Above(n) /\ r.loop \in Node /\ Kind(r.loop) = "loop" /\ r.ch = Item(r.loop)
    BY <1>3, <1>4, <1>9, LoopsAreAround
  <2>2. PICK h \in 1..(L - 1) : r.loop = p[h]
    BY <1>7, <2>1
  <2>3. r.loop \in InTree
    <3>1. h \in 1..L
      BY <1>7, <2>2
    <3> QED BY <1>6, <2>2, <3>1, PathsAreLaid DEF Laid
  <2>4. r.ch \in ChannelType
    BY <2>1, <2>3, ItemFacts
  <2>5. Reaches(n, r, h)
    BY <1>3, <1>4, <1>6, <1>9, <2>1, <2>2, <2>3, <2>4 DEF Reaches, Home
  <2> QED BY <1>5, <2>5
<1>10. CASE r.loop = None /\ r.ch.src # "task"
  <2>1. r = r0 /\ r.ch.src = "param" /\ r.ch.depth = 0
    BY <1>2, <1>3, <1>4, <1>10 DEF ReadType, ChannelType
  <2>2. 1 \in 1..(L - 1)
    BY <1>7, <1>8
  <2>3. Home(r) = 1
    BY <1>10 DEF Home, Producer
  <2>4. r.ch \in ChannelType
    BY <1>2, <2>1 DEF ReadType
  <2>5. Reaches(n, r, 1)
    BY <1>6, <1>7, <1>10, <2>1, <2>2, <2>3, <2>4 DEF Reaches
  <2> QED BY <1>5, <2>5
<1>11. CASE r.loop = None /\ r.ch.src = "task"
  <2>1. PICK w : w = r0.ch.of
    OBVIOUS
  <2>2. w \in InTree /\ w \in Node /\ w # None /\ Kind(w) = "task" /\ w < n /\ w # n
    BY <1>1, <1>3, <1>4, <1>11, <2>1 DEF IsTask, InTree, Kind
  <2>3. PICK q, K : q = Path[w] /\ K = Len(Path[w])
    OBVIOUS
  <2>4. K \in Nat /\ K >= 1 /\ DOMAIN q = 1..K /\ q[K] = w /\ \A i \in 1..K : q[i] \in InTree
    BY <2>2, <2>3, PathsAreLaid DEF Laid
  <2>5. PICK k \in Nat : Fork(w, n, k)
    BY <1>1, <2>2, PathsFork
  <2>6. k <= K /\ k <= L /\ \A i \in 1..k : q[i] = p[i]
    BY <1>6, <2>3, <2>5 DEF Fork
  <2>7. ~IsOn(q, n)
    BY <1>1, <1>3, <2>2, <2>3, NotAround
  <2>8. k # L
    <3>1. SUFFICES ASSUME k = L PROVE FALSE
      OBVIOUS
    <3>2. L \in 1..k /\ L \in 1..K
      BY <1>7, <2>4, <2>6, <3>1
    <3> QED BY <1>7, <2>4, <2>6, <2>7, <3>2 DEF IsOn
  <2>9. k # K
    <3>1. SUFFICES ASSUME k = K PROVE FALSE
      OBVIOUS
    <3>2. K \in 1..k /\ K \in 1..L /\ K < L
      BY <1>7, <2>4, <2>6, <2>8, <3>1
    <3> QED BY <1>7, <2>2, <2>4, <2>6, <3>2
  <2>10. k < K /\ k < L
    BY <1>7, <2>4, <2>6, <2>8, <2>9
  <2>11. PICK f : f = q[k + 1]
    OBVIOUS
  <2>12. /\ k >= 1 /\ Len(Uncommon(w, n)) = K - k /\ Uncommon(w, n)[1] = f
         /\ f # p[k + 1] /\ nodes[f].parent = p[k]
    <3>1. /\ k >= 1 /\ Len(Uncommon(w, n)) = Len(Path[w]) - k
          /\ \A i \in 1..(Len(Path[w]) - k) : Uncommon(w, n)[i] = Path[w][k + i]
          /\ k < Len(Path[w]) /\ k < Len(Path[n]) =>
               /\ Path[w][k + 1] # Path[n][k + 1]
               /\ nodes[Path[w][k + 1]].parent = Path[w][k]
      BY <1>1, <2>2, <2>5, ForkInTree
    <3>2. 1 \in 1..(K - k)
      BY <2>4, <2>10
    <3>3. q[k] = p[k]
      BY <2>6, <3>1
    <3> QED BY <1>6, <2>3, <2>10, <2>11, <3>1, <3>2, <3>3
  <2>13. f \in InTree /\ f \in Nat /\ f # None
    <3>1. k + 1 \in 1..K
      BY <2>4, <2>10
    <3> QED BY <1>1, <2>4, <2>11, <3>1 DEF InTree
  <2>14. r.ch \in ChannelType /\ Producer(r.ch) = f /\ (r.ch.fan # None <=> r.how = "collected")
    <3>1. CASE r0.how = "collected"
      <4>1. r.ch = [r0.ch EXCEPT !.fan = f]
        BY <1>2, <1>4, <2>1, <2>12, <3>1 DEF ReadType
      <4>2. r.ch \in ChannelType /\ r.ch.fan = f
        BY <1>2, <2>13, <4>1 DEF ReadType, ChannelType
      <4> QED BY <1>4, <1>11, <2>13, <3>1, <4>2 DEF Producer
    <3>2. CASE r0.how # "collected"
      <4>1. r = r0 /\ r.ch.fan = None /\ r.ch \in ChannelType
        BY <1>2, <1>3, <1>4, <3>2 DEF ReadType
      <4>2. Producer(r.ch) = w
        BY <1>11, <2>1, <4>1 DEF Producer
      <4>3. Len(Uncommon(w, n)) <= 1
        <5>1. ~(Len(Uncommon(r.ch.of, n)) > 1)
          BY <1>11, <3>2, <4>1 DEF Apart
        <5> QED BY <2>1, <2>4, <2>12, <4>1, <5>1
      <4>4. f = w
        <5>1. K = k + 1
          BY <2>4, <2>10, <2>12, <4>3
        <5> QED BY <2>4, <2>11, <5>1
      <4> QED BY <3>2, <4>1, <4>2, <4>4
    <3> QED BY <3>1, <3>2
  <2>15. k \in 1..(L - 1)
    BY <1>7, <2>10, <2>12
  <2>16. Home(r) = p[k]
    BY <1>11, <2>12, <2>13, <2>14 DEF Home
  <2>17. r.ch.depth = 0
    BY <1>3, <1>4, <1>11
  <2>18. Reaches(n, r, k)
    BY <1>6, <1>11, <2>12, <2>13, <2>14, <2>15, <2>16, <2>17 DEF Reaches
  <2> QED BY <1>5, <2>18
<1> QED BY <1>9, <1>10, <1>11

(* In its home group it is taken from there.                                *)
LEMMA ReadAtHome ==
  ASSUME Sited, NEW t \in Tasks, NEW r, NEW h, Reaches(t, r, h), AtHome(t, r)
  PROVE  ReadIn(nodes[t].parent, r) = Meant(r)
<1>1. PICK p, L, g, c : p = Path[t] /\ L = Len(Path[t]) /\ g = nodes[t].parent /\ c = r.ch
  OBVIOUS
<1>2. t \in InTree
  BY DEF Tasks
<1>3. /\ L \in Nat /\ h \in 1..(L - 1) /\ h \in 1..L /\ h \in h..L /\ p[h] = g /\ g \in InTree
  <2>1. h \in 1..(L - 1) /\ p[h] = g
    BY <1>1 DEF Reaches, AtHome
  <2>2. L \in Nat /\ \A i \in 1..L : p[i] \in InTree
    BY <1>1, <1>2, PathsAreLaid DEF Laid
  <2>3. h \in 1..L /\ h \in h..L
    BY <2>1, <2>2
  <2> QED BY <2>1, <2>2, <2>3
<1>4. nodes[1].kind = "pipeline" /\ None \notin InTree
  BY DEF Sited, Tree, InTree, Node, None
<1>5. /\ r.loop # None => Producer(c) \notin Children(g)
      /\ r.loop = None /\ c.src = "task" => Producer(c) \in Children(g)
  BY <1>1, <1>2, <1>3, HomeIsAbove
<1>6. CASE r.loop # None
  <2>1. g = r.loop /\ Kind(g) = "loop" /\ c = Item(g)
    BY <1>1, <1>6 DEF Reaches, AtHome, Home
  <2>2. g # 1
    BY <1>4, <2>1 DEF Kind
  <2>3. c \in Passed(g)
    BY <2>1 DEF Passed
  <2>4. PICK K : K = Len(Path[g])
    OBVIOUS
  <2>5. K \in Nat /\ K >= 1 /\ Path[g][K] = g /\ Path[g][1] = 1
    BY <1>3, <2>4, PathsAreLaid DEF Laid
  <2>6. K \in 2..Len(Path[g]) /\ \A j \in (K + 1)..Len(Path[g]) : ~EndsAt(Path[g][j], c)
    <3>1. K # 1
      BY <2>2, <2>5
    <3>2. K \in 2..K
      BY <2>5, <3>1
    <3>3. (K + 1)..K = {}
      BY <2>5
    <3> QED BY <2>4, <3>2, <3>3
  <2>7. EndsAt(Path[g][K], c)
    BY <2>1, <2>5 DEF EndsAt
  <2>8. InputOf(g, c) = <<"item", g>>
    BY <1>3, <2>1, <2>5, <2>6, <2>7, WayUp
  <2>9. ReadIn(g, r) = InputOf(g, c)
    BY <1>1, <1>5, <1>6, <2>2, <2>3 DEF ReadIn, Sibling
  <2> QED BY <1>1, <1>6, <2>1, <2>8, <2>9 DEF Meant
<1>7. CASE r.loop = None
  <2>1. c.depth = 0 /\ c.src \in {"param", "task"}
    BY <1>1, <1>7 DEF Reaches
  <2>2. ~IsLoopArgument(r)
    BY <1>1, <2>1 DEF IsLoopArgument
  <2>3. CASE c.src = "task"
    <3>1. ReadIn(g, r) = OutputOf(c)
      BY <1>1, <1>5, <1>7, <2>2, <2>3 DEF ReadIn, Sibling
    <3>2. OutputOf(c) = <<IF c.fan # None THEN "collected" ELSE "output", c.of>>
      BY <2>1 DEF OutputOf
    <3>3. c.fan # None <=> r.how = "collected"
      BY <1>1, <1>7, <2>3 DEF Reaches
    <3> QED BY <1>1, <1>7, <2>3, <3>1, <3>2, <3>3 DEF Meant
  <2>4. CASE c.src = "param"
    <3>1. Producer(c) = None
      BY <2>4 DEF Producer
    <3>2. g = 1
      BY <1>1, <1>7, <3>1 DEF AtHome, Home
    <3>3. Producer(c) \notin Children(g)
      BY <1>4, <3>1 DEF Children
    <3>4. ReadIn(g, r) = ParameterOf(c)
      BY <1>1, <3>2, <3>3 DEF ReadIn, Sibling
    <3>5. ParameterOf(c) = <<"parameter", c.of>>
      BY <2>1, <2>4 DEF ParameterOf
    <3> QED BY <1>1, <1>7, <2>4, <3>4, <3>5 DEF Meant
  <2> QED BY <2>1, <2>3, <2>4
<1> QED BY <1>6, <1>7

(* From further out it comes down to the task's group.                      *)
LEMMA ReadFromAbove ==
  ASSUME Sited, NEW t \in Tasks, NEW r, NEW h, Reaches(t, r, h), Clear(t, r), ~AtHome(t, r), Says(t, r, r),
         r.how \in {"value", "text", "collected"}
  PROVE  ReadIn(nodes[t].parent, r) = Meant(r)
<1>1. PICK p, L, g, c : p = Path[t] /\ L = Len(Path[t]) /\ g = nodes[t].parent /\ c = r.ch
  OBVIOUS
<1>2. t \in InTree /\ None \notin InTree
  BY DEF Tasks, Sited, Tree, InTree, Node, None
<1>3. /\ L \in Nat /\ h \in 1..(L - 1) /\ h + 1 \in 1..(L - 1) /\ r.how # "text"
      /\ \A j \in (h + 1)..(L - 1) : Kind(p[j]) = "loop" => Item(p[j]) # c
  <2>1. L \in Nat
    BY <1>1, <1>2, PathsAreLaid DEF Laid
  <2>2. h \in 1..(L - 1)
    BY <1>1 DEF Reaches
  <2>3. /\ h + 1 \in 1..(L - 1) /\ r.how # "text"
        /\ \A j \in (h + 1)..(L - 1) : Kind(p[j]) = "loop" => Item(p[j]) # c
    BY <1>1, <1>2, ClearAbove
  <2> QED BY <2>1, <2>2, <2>3
<1>4. /\ p[L] = t /\ DOMAIN p = 1..L
      /\ \A i \in 1..L : /\ p[i] \in InTree /\ Len(Path[p[i]]) = i /\ \A j \in 1..i : Path[p[i]][j] = p[j]
                         /\ nodes[p[i]].parent = IF i = 1 THEN None ELSE p[i - 1]
                         /\ p[i] = 1 => i = 1
      /\ \A i, j \in 1..L : p[i] = p[j] => i = j
  BY <1>1, <1>2, PathsAreLaid DEF Laid
<1>5. L \in 1..L /\ L # 1 /\ L - 1 \in 1..L /\ L - 1 # 1 /\ h # L - 1 /\ h \in 1..L /\ h \in 1..((L - 1) - 1) /\ h + 1 \in 1..L
  BY <1>3
<1>6. g = p[L - 1] /\ g \in InTree /\ g # 1 /\ Len(Path[g]) = L - 1 /\ \A j \in 1..(L - 1) : Path[g][j] = p[j]
  <2>1. g = p[L - 1]
    BY <1>1, <1>4, <1>5
  <2> QED BY <1>4, <1>5, <2>1
<1>7. ASSUME NEW b \in (h + 1)..(L - 1) PROVE c \in Passed(p[b])
  <2>1. IsOn(Path[t], t)
    BY <1>1, <1>4, <1>5 DEF IsOn
  <2> QED BY <1>1, <1>2, <2>1, Brought
<1>8. Reaches(g, r, h)
  <2>1. Path[g][h] = p[h] /\ Path[g][h + 1] = p[h + 1]
    BY <1>3, <1>6
  <2> QED BY <1>1, <1>5, <1>6, <2>1 DEF Reaches
<1>9. InputOf(g, c) = Meant(r)
  <2>1. \A j \in (h + 1)..Len(Path[g]) : ~(Kind(Path[g][j]) = "loop" /\ Item(Path[g][j]) = c)
    <3>1. ASSUME NEW j \in (h + 1)..(L - 1) PROVE Path[g][j] = p[j]
      <4>1. j \in 1..(L - 1)
        BY <1>3
      <4> QED BY <1>6, <4>1
    <3> QED BY <1>3, <1>6, <3>1
  <2>2. \A b \in (h + 1)..(Len(Path[g]) - 1) : c \in Passed(Path[g][b])
    <3>1. ASSUME NEW b \in (h + 1)..((L - 1) - 1) PROVE b \in 1..(L - 1) /\ b \in (h + 1)..(L - 1)
      BY <1>3
    <3> QED BY <1>6, <1>7, <3>1
  <2> QED BY <1>1, <1>6, <1>8, <2>1, <2>2, ComesFromHome
<1>10. c \in Passed(g)
  <2>1. L - 1 \in (h + 1)..(L - 1)
    BY <1>3
  <2> QED BY <1>6, <1>7, <2>1
<1>11. ~Sibling(g, r)
  <2>1. CASE r.loop # None
    <3>1. L - 1 \in h..L
      BY <1>3
    <3>2. Producer(c) \notin Children(g)
      BY <1>1, <1>2, <1>6, <2>1, <3>1, HomeIsAbove
    <3> QED BY <1>1, <3>2 DEF Sibling
  <2>2. CASE r.loop = None /\ c.src = "task"
    <3>1. Producer(c) \in Children(p[h])
      BY <1>1, <1>2, <2>2, HomeIsAbove
    <3>2. p[h] # g
      BY <1>4, <1>5, <1>6
    <3> QED BY <1>1, <3>1, <3>2 DEF Sibling, Children
  <2>3. CASE r.loop = None /\ c.src # "task"
    <3>1. Producer(c) = None
      BY <2>3 DEF Producer
    <3> QED BY <1>1, <1>2, <3>1 DEF Sibling, Children
  <2> QED BY <2>1, <2>2, <2>3
<1>12. ReadIn(g, r) = InputOf(g, c)
  BY <1>1, <1>6, <1>10, <1>11 DEF ReadIn
<1> QED BY <1>1, <1>9, <1>12

LEMMA SurfacedStays ==
  ASSUME Sited, NEW n \in InTree, NEW r0 \in nodes[n].reads, NEW r, r = Surfaced(n, r0)
  PROVE  /\ r.how = r0.how /\ r.loop = r0.loop /\ r.ch.src = r0.ch.src /\ r.ch.of = r0.ch.of
         /\ r0.how # "collected" => r = r0
<1>1. nodes[n] \in NodeType
  BY DEF Sited, InTree, Tree, Node
<1>2. r0 \in ReadType
  BY <1>1 DEF NodeType
<1> QED BY <1>2 DEF Surfaced, ReadType, ChannelType

(* What a task of the compiled pipeline is given is what the author passed  *)
(* to it, through all the dags in between: in every pipeline that           *)
(* create_pipeline_spec accepts (get_inputs_for_all_groups,                 *)
(* build_spec_by_group, build_task_spec_for_task).                          *)
THEOREM TasksAreGivenWhatWasMeant == Spec => []TasksReadWhatWasWritten
<1>1. Wired => TasksReadWhatWasWritten
  <2>1. SUFFICES ASSUME Wired, Compiled, NEW t \in Tasks, NEW r \in Reads(t), Clear(t, r), ~Apart(t, r)
                 PROVE  ReadIn(nodes[t].parent, r) = Meant(r)
    BY DEF TasksReadWhatWasWritten
  <2>2. Sited /\ Accepted
    BY <2>1, WiredIsSited DEF Wired
  <2>3. t \in InTree
    BY DEF Tasks
  <2>4. PICK r0 \in nodes[t].reads : r = Surfaced(t, r0)
    BY DEF Reads
  <2>5. r0.ch.src = "task" => r0.ch.of \in InTree
    BY <2>2 DEF Accepted, Known
  <2>6. PICK h : Reaches(t, r, h)
    BY <2>1, <2>2, <2>3, <2>4, <2>5, ReadsReach
  <2>7. r.how \in {"value", "text", "collected"}
    BY <2>1, <2>2, <2>3, <2>4, <2>5, ReadsReach
  <2>8. CASE AtHome(t, r)
    BY <2>2, <2>6, <2>8, ReadAtHome
  <2>9. CASE ~AtHome(t, r)
    <3>1. r.how # "text" /\ (r.ch.src = "raw" => r.ch.depth = 0)
      BY <2>1, <2>2, <2>3, <2>6, <2>9, ClearAbove
    <3>2. r.ch.src = r0.ch.src /\ r.ch.of = r0.ch.of
      BY <2>2, <2>3, <2>4, SurfacedStays
    <3>3. r.ch \in ChannelType
      BY <2>6 DEF Reaches
    <3>4. CASE r.loop # None
      <4>1. r.loop \in InTree /\ Kind(r.loop) = "loop" /\ r.ch = Item(r.loop) /\ r.how = "value"
        BY <2>6, <2>7, <3>1, <3>4 DEF Reaches
      <4>2. r.ch.fan = None /\ (r.ch.src # "raw" => r.ch.depth >= 1)
        BY <2>2, <4>1, ItemFacts
      <4>3. r.ch.src = "task" => Producer(r.ch) \in InTree
        BY <2>5, <3>2, <4>2 DEF Producer
      <4>4. r.ch.src # "raw" => IsLoopArgument(r)
        BY <3>3, <4>1, <4>2 DEF IsLoopArgument, ChannelType
      <4>5. r.ch.depth <= r.ch.depth
        BY <3>3 DEF ChannelType
      <4>6. Says(t, r, r)
        BY <2>1, <3>3, <4>1, <4>3, <4>4, <4>5 DEF Says
      <4> QED BY <2>1, <2>2, <2>6, <2>7, <2>9, <4>6, ReadFromAbove
    <3>5. CASE r.loop = None
      <4>1. r.ch.depth = 0 /\ r.ch.src # "raw" /\ (r.ch.src = "task" => Producer(r.ch) \in InTree)
        BY <2>6, <3>5 DEF Reaches
      <4>2. Says(t, r, r)
        BY <2>1, <3>3, <4>1 DEF Says
      <4> QED BY <2>1, <2>2, <2>6, <2>7, <2>9, <4>2, ReadFromAbove
    <3> QED BY <3>4, <3>5
  <2> QED BY <2>8, <2>9
<1> QED BY <1>1, WiringIsSound, PTL

(* A task in the block says what the block's condition or list says: the    *)
(* condition is read by all of them, the list by those that read the item.  *)
LEMMA Spoken ==
  ASSUME Sited, Accepted, NEW g \in Groups, NEW r \in nodes[g].reads,
         \/ r.ch.src # "raw" /\ Needed(g)
         \/ Kind(g) # "loop" /\ \E t \in Tasks : g \in Above(t) /\ Clear(t, r)
  PROVE  \E t, q : Says(t, q, r) /\ IsOn(Path[t], g)
<1>1. /\ g \in InTree /\ g \in Node /\ Kind(g) # "task" /\ g # None
      /\ nodes[g] \in NodeType /\ Named(nodes, nodes[g].reads) /\ Fits(nodes[g].kind, nodes[g].reads)
  BY DEF Groups, Tasks, InTree, Sited, Tree, Earlier, Node, None
<1>2. r \in ReadType
  BY <1>1 DEF NodeType
<1>3. r.ch \in ChannelType /\ r.ch.depth \in Nat /\ r.ch.fan = None /\ r.how = "value"
  <2>1. r.ch.fan = None
    BY <1>1 DEF Named
  <2>2. r.how = "value"
    BY <1>1 DEF Fits, Kind
  <2> QED BY <1>2, <2>1, <2>2 DEF ReadType, ChannelType
<1>4. Kind(g) \in Condition \cup {"loop"}
  <2>1. Kind(g) \in Kinds /\ Kind(g) \notin {"pipeline", "branches", "exit"}
    BY <1>1 DEF NodeType, Fits, Kind
  <2> QED BY <1>1, <2>1 DEF Kinds, Block
<1>5. \A t \in Tasks : /\ t \in InTree /\ DOMAIN Path[t] = 1..Len(Path[t]) /\ Len(Path[t]) \in Nat
                       /\ Above(t) = {Path[t][i] : i \in 1..(Len(Path[t]) - 1)}
  BY PathsAreLaid DEF Tasks, Laid
<1>6. ASSUME NEW t \in Tasks, g \in Above(t)
      PROVE  IsOn(Path[t], g) /\ (Kind(g) \in Condition => r \in ConditionReads(t))
  <2>1. PICK i \in 1..(Len(Path[t]) - 1) : g = Path[t][i]
    BY <1>5, <1>6
  <2>2. i \in DOMAIN Path[t]
    BY <1>5
  <2> QED BY <2>1, <2>2 DEF IsOn, ConditionReads
<1>7. CASE Kind(g) # "loop"
  <2>1. PICK t \in Tasks : g \in Above(t) /\ (r.ch.src = "raw" => Clear(t, r))
    BY <1>7 DEF Needed
  <2>2. r \in ConditionReads(t) /\ IsOn(Path[t], g)
    BY <1>4, <1>6, <1>7, <2>1
  <2>3. r.ch.src = "task" => Producer(r.ch) \in InTree
    <3>1. r.ch.src = "task" => r.ch.of \in InTree
      BY <2>2 DEF Accepted, Known
    <3> QED BY <1>3, <3>1 DEF Producer
  <2>4. IsLoopArgument(r) \/ r.ch.depth = 0
    BY <1>3 DEF IsLoopArgument
  <2>5. r.ch.depth <= r.ch.depth
    BY <1>3
  <2>6. Says(t, r, r)
    BY <1>3, <2>1, <2>2, <2>3, <2>4, <2>5 DEF Says
  <2> QED BY <2>2, <2>6
<1>8. CASE Kind(g) = "loop"
  <2>1. r.ch.src # "raw" /\ Needed(g)
    BY <1>8
  <2>2. PICK t \in Tasks : g \in Above(t) /\ \E q \in Reads(t) : q.loop = g /\ q.how = "value"
    BY <1>8, <2>1 DEF Needed
  <2>3. PICK q \in Reads(t) : q.loop = g /\ q.how = "value"
    BY <2>2
  <2>4. q \in nodes[t].reads
    <3>1. PICK q0 \in nodes[t].reads : q = Surfaced(t, q0)
      BY DEF Reads
    <3> QED BY <1>5, <2>3, <3>1, SurfacedStays
  <2>5. q.ch = Item(g)
    BY <1>1, <1>5, <2>3, <2>4, LoopsAreAround
  <2>6. /\ Item(g) \in ChannelType /\ Item(g).fan = None /\ Item(g).depth = r.ch.depth + 1
        /\ Item(g).src = r.ch.src /\ Item(g).of = r.ch.of
    BY <1>1, <1>8, ItemFacts
  <2>7. r.ch.depth <= q.ch.depth /\ q.ch.depth > 0
    BY <1>3, <2>5, <2>6
  <2>8. IsLoopArgument(q)
    BY <2>3, <2>7 DEF IsLoopArgument
  <2>9. r.ch.src = "task" => Producer(r.ch) \in InTree
    <3>1. q.ch.src = "task" => q.ch.of \in InTree
      BY <2>4 DEF Accepted, Known
    <3> QED BY <1>3, <2>5, <2>6, <3>1 DEF Producer
  <2>10. Says(t, q, r)
    BY <1>3, <2>1, <2>5, <2>6, <2>7, <2>8, <2>9 DEF Says
  <2> QED BY <1>6, <2>2, <2>10
<1> QED BY <1>7, <1>8

(* The condition of a branch and the list of a loop come from what the      *)
(* author named: in every pipeline that create_pipeline_spec accepts        *)
(* (get_inputs_for_all_groups, build_task_spec_for_group).                  *)
THEOREM BlocksAreGivenWhatWasMeant == Spec => []BlocksReadWhatWasWritten
<1>1. Wired => BlocksReadWhatWasWritten
  <2>1. SUFFICES ASSUME Wired, Compiled, NEW g \in Groups, NEW r \in nodes[g].reads, Clear(g, r), ~Apart(g, r),
                        \/ AtHome(g, r)
                        \/ r.ch.src # "raw" /\ Needed(g)
                        \/ Kind(g) # "loop" /\ \E t \in Tasks : g \in Above(t) /\ Clear(t, r)
                 PROVE  InputOf(g, r.ch) = Meant(r)
    BY DEF BlocksReadWhatWasWritten
  <2>2. Sited /\ Accepted
    BY <2>1, WiredIsSited DEF Wired
  <2>3. /\ g \in InTree /\ g \in Node /\ Kind(g) # "task" /\ nodes[g] \in NodeType
        /\ Named(nodes, nodes[g].reads) /\ Fits(nodes[g].kind, nodes[g].reads)
        /\ Fits(nodes[1].kind, nodes[1].reads) /\ nodes[1].kind = "pipeline"
    BY <2>2 DEF Groups, Tasks, InTree, Sited, Tree, Earlier, Node
  <2>4. r \in ReadType /\ r.how = "value" /\ r.ch.fan = None /\ g # 1
    <3>1. r \in ReadType
      BY <2>3 DEF NodeType
    <3>2. r.how = "value"
      BY <2>3 DEF Fits, Kind
    <3>3. g # 1
      BY <2>3 DEF Fits
    <3> QED BY <2>3, <3>1, <3>2, <3>3 DEF Named
  <2>5. r = Surfaced(g, r)
    BY <2>4 DEF Surfaced
  <2>6. ~AtHome(g, r) => \E t, q : Says(t, q, r) /\ IsOn(Path[t], g)
    BY <2>1, <2>2, Spoken
  <2>7. r.loop = None /\ r.ch.src = "task" => r.ch.of \in InTree
    <3>1. SUFFICES ASSUME r.loop = None, r.ch.src = "task" PROVE r.ch.of \in InTree
      OBVIOUS
    <3>2. Producer(r.ch) = r.ch.of /\ r.ch.of \in Node /\ r.ch.of # None
      BY <2>2, <2>3, <2>4, <3>1 DEF Producer, Named, IsTask, Node, Sited, Tree, None
    <3>3. CASE AtHome(g, r)
      <4>1. nodes[g].parent = nodes[r.ch.of].parent
        BY <3>1, <3>2, <3>3 DEF AtHome, Home
      <4> QED BY <2>3, <2>4, <3>2, <4>1 DEF InTree
    <3>4. CASE ~AtHome(g, r)
      BY <2>6, <3>1, <3>2, <3>4 DEF Says
    <3> QED BY <3>3, <3>4
  <2>8. PICK h : Reaches(g, r, h)
    BY <2>1, <2>2, <2>3, <2>5, <2>7, ReadsReach
  <2>9. PICK p, L : p = Path[g] /\ L = Len(Path[g])
    OBVIOUS
  <2>10. /\ L \in Nat /\ h \in 1..(L - 1) /\ p[h] = Home(r) /\ p[L] = g
         /\ \A i \in 1..L : nodes[p[i]].parent = IF i = 1 THEN None ELSE p[i - 1]
         /\ \A i, j \in 1..L : p[i] = p[j] => i = j
    <3>1. h \in 1..(L - 1) /\ p[h] = Home(r)
      BY <2>8, <2>9 DEF Reaches
    <3>2. Laid(g)
      BY <2>2, <2>3, PathsAreLaid
    <3> QED BY <2>9, <3>1, <3>2 DEF Laid
  <2>11. Kind(g) = "loop" => Item(g) # r.ch
    <3>1. Kind(g) = "loop" => Item(g).depth = r.ch.depth + 1 /\ r.ch.depth \in Nat
      BY <2>2, <2>3, <2>4, ItemFacts DEF ReadType, ChannelType
    <3>2. r.ch.depth \in Nat => r.ch.depth + 1 # r.ch.depth
      OBVIOUS
    <3> QED BY <3>1, <3>2
  <2>12. CASE AtHome(g, r)
    <3>1. L \in 1..L /\ L - 1 \in 1..L /\ h \in 1..L /\ L # 1
      BY <2>10
    <3>2. p[h] = p[L - 1]
      BY <2>10, <2>12, <3>1 DEF AtHome
    <3>3. h = L - 1
      BY <2>10, <3>1, <3>2
    <3>4. ASSUME NEW j \in (h + 1)..L PROVE p[j] = g
      <4>1. j = L
        BY <2>10, <3>3
      <4> QED BY <2>10, <4>1
    <3>5. (h + 1)..(L - 1) = {}
      BY <2>10, <3>3
    <3> QED BY <2>2, <2>3, <2>8, <2>9, <2>11, <3>4, <3>5, ComesFromHome
  <2>13. CASE ~AtHome(g, r)
    <3>1. PICK t, q : Says(t, q, r) /\ IsOn(Path[t], g)
      BY <2>6, <2>13
    <3>2. \A b \in (h + 1)..(Len(Path[g]) - 1) : r.ch \in Passed(Path[g][b])
      BY <2>1, <2>2, <2>3, <2>8, <2>13, <3>1, Brought
    <3>3. \A j \in (h + 1)..(L - 1) : Kind(p[j]) = "loop" => Item(p[j]) # r.ch
      BY <2>1, <2>2, <2>3, <2>8, <2>9, <2>13, ClearAbove
    <3>4. ASSUME NEW j \in (h + 1)..L PROVE ~(Kind(p[j]) = "loop" /\ Item(p[j]) = r.ch)
      <4>1. j = L \/ j \in (h + 1)..(L - 1)
        BY <2>10
      <4> QED BY <2>10, <2>11, <3>3, <4>1
    <3> QED BY <2>2, <2>3, <2>8, <2>9, <3>2, <3>4, ComesFromHome
  <2> QED BY <2>12, <2>13
<1> QED BY <1>1, WiringIsSound, PTL
=============================================================================
