--------------------------- MODULE LocalDagProofs ---------------------------
(***************************************************************************)
(* The local runner for every well-formed pipeline, however deep its dags  *)
(* and loops are nested, with either runner.                               *)
(*                                                                         *)
(* The invariant has three parts: what holds within one frame (Local),     *)
(* what holds between a frame and the frames it called (Called), and that  *)
(* the frames form a tree under the root frame. Where the values come from *)
(* that a frame keeps and returns is a second one on top (Published).      *)
(***************************************************************************)
EXTENDS LocalDag, FiniteSetTheorems, WellFoundedInduction, TLAPS

Paths == Seq(STRING \X Nat)
Outcomes == {"none", "SUCCESS", "FAILURE", "raised"}
Loops == [n : Nat, next : Nat, raised : SUBSET Nat, got : SUBSET Nat, bad : BOOLEAN]

(* The record of a frame; its inputs, outputs and statuses are any mappings. *)
Shape(fr) ==
  fr \in [comp : {fr.comp}, todo : SUBSET STRING, exits : SUBSET STRING, cur : STRING \cup {NoTask}, att : Nat,
          ins : {fr.ins}, out : {fr.out}, st : {fr.st}, failed : SUBSET STRING, saw : {fr.saw},
          loop : Loops, ret : [k : Outcomes, out : {fr.ret.out}]]

Waiting(fr) == fr.todo \cup fr.exits
Settled(fr, ts) == {t \in DOMAIN ts : t \notin Waiting(fr) /\ t # fr.cur}

(* Within a frame: where its tasks may be ...                               *)
Placed(fr, ts) ==
  /\ fr.todo \subseteq {t \in DOMAIN ts : ~ExitTask(ts[t])}
  /\ fr.exits \subseteq {t \in DOMAIN ts : ExitTask(ts[t])}
  /\ fr.cur # NoTask => fr.cur \in DOMAIN ts /\ fr.cur \notin Waiting(fr)
  /\ \A t \in DOMAIN ts : ExitTask(ts[t]) /\ t \notin fr.exits =>
       fr.todo = {} /\ (fr.cur # NoTask => ExitTask(ts[fr.cur]))

(* ... that a task is taken up after its upstream tasks, and fails with them ... *)
Ordered(fr, ts) ==
  \A t \in DOMAIN ts : t \notin Waiting(fr) =>
    /\ ts[t].deps \cap Waiting(fr) = {}
    /\ fr.cur # NoTask => fr.cur \notin ts[t].deps
    /\ ts[t].strategy # "all_completed" /\ ts[t].deps \cap fr.failed # {} => t \in fr.failed

(* ... that the recorded statuses are true ...                              *)
Recorded(fr, ts) ==
  /\ fr.failed \subseteq Settled(fr, ts) /\ DOMAIN fr.st \subseteq Settled(fr, ts)
  /\ \A t \in DOMAIN fr.st : fr.st[t] = IF t \in fr.failed THEN "FAILED" ELSE "SUCCEEDED"
  /\ \A t \in Settled(fr, ts) : Kind(ts[t]) = "regular" => t \in DOMAIN fr.st

Watches(T) == {T.params[n].name : n \in {m \in DOMAIN T.params : T.params[m].kind = "final_status"}}

(* ... and so is what the exit tasks were told ...                          *)
Told(fr, ts) ==
  \A t \in DOMAIN fr.saw :
    /\ t \in DOMAIN ts /\ ExitTask(ts[t]) /\ t \notin fr.exits
    /\ \A u \in Watches(ts[t]) : (fr.saw[t] = "FAILED") <=> (u \in fr.failed)

(* ... where its loop is, and with what it may return.                      *)
LoopOK(fr, ts) ==
  IF fr.cur # NoTask /\ Kind(ts[fr.cur]) = "parallel_for"
  THEN /\ fr.loop.n > 0 /\ fr.loop.next \in 1 .. fr.loop.n + 1
       /\ fr.loop.raised \subseteq 1 .. fr.loop.next - 1
       /\ fr.loop.got \subseteq 1 .. fr.loop.next - 1
  ELSE fr.loop.n = 0

ReturnOK(fr) == fr.ret.k = "SUCCESS" => fr.failed = {} /\ fr.cur = NoTask

Local(fr, ts) ==
  Placed(fr, ts) /\ Ordered(fr, ts) /\ Recorded(fr, ts) /\ Told(fr, ts) /\ LoopOK(fr, ts) /\ ReturnOK(fr)

(* Between a frame and the call of its task t, iteration i, which has       *)
(* returned k: a call that runs has its caller waiting for it, and a caller *)
(* without a failure has been told of none.                                 *)
Called(fr, ts, C, k, t, i) ==
  /\ t \in DOMAIN ts /\ t \notin Waiting(fr) /\ ts[t].comp \in C
  /\ k = "none" => fr.ret.k = "none" /\ fr.cur = t
  /\ fr.cur = t /\ fr.loop.n = 0 => i = 0
  /\ fr.cur = t /\ fr.loop.n > 0 => /\ i \in 1 .. fr.loop.next - 1 /\ i \notin fr.loop.raised
                                    /\ i \in fr.loop.got => k = "SUCCESS"
  /\ fr.cur # t /\ fr.failed = {} => k = "SUCCESS"

TasksOf(f) == DagOf(f).tasks
Call(f, t, i) == Append(f, <<t, i>>)

Locals ==
  \A f \in Frames : Shape(frame[f]) /\ frame[f].comp \in Components /\ Local(frame[f], TasksOf(f))

Tree ==
  /\ <<>> \in Frames /\ Frames \subseteq Paths
  /\ \A g \in Frames : g # <<>> => \E f \in Frames, t \in STRING, i \in Nat : g = Call(f, t, i)
  /\ \A f \in Frames, t \in STRING, i \in Nat : Call(f, t, i) \in Frames =>
       Called(frame[f], TasksOf(f), Components, frame[Call(f, t, i)].ret.k, t, i)

(* The end of the run, and the containers that exited with an error.        *)
Ending ==
  /\ result # "running" => ~Active(<<>>) /\ result = frame[<<>>].ret.k
  /\ ~workspace => result # "running"
  /\ runner = "subprocess" => \A b \in broken : \E f \in Frames : \E t \in frame[f].failed : b = <<f, t>>

IInv == pipeline \in Pipelines /\ Locals /\ Tree /\ Ending

(* What a step may do to a frame, in the terms of DagRun: nothing, settle   *)
(* or take up one task, or return.                                          *)
StateOf(fr, t) ==
  IF t \in Waiting(fr) THEN "pending"
  ELSE IF t = fr.cur THEN "running"
  ELSE IF t \in fr.failed THEN "failed"
  ELSE IF t \in DOMAIN fr.st THEN "succeeded" ELSE "skipped"

SameStates(fr, new, ts) == \A t \in DOMAIN ts : StateOf(new, t) = StateOf(fr, t)

BeginsIn(fr, ts, t) ==
  /\ StateOf(fr, t) = "pending"
  /\ IF ExitTask(ts[t]) THEN \A u \in DOMAIN ts : ExitTask(ts[u]) \/ u \in Settled(fr, ts)
                        ELSE ts[t].deps \cap DOMAIN ts \subseteq Settled(fr, ts)

Moves(fr, new, ts, t) ==
  /\ \A u \in DOMAIN ts : u # t => StateOf(new, u) = StateOf(fr, u)
  /\ \/ /\ BeginsIn(fr, ts, t) /\ StateOf(new, t) = "running"
        /\ ts[t].deps \cap fr.failed = {} \/ ts[t].strategy = "all_completed"
     \/ /\ BeginsIn(fr, ts, t) /\ StateOf(new, t) = "failed"
        /\ ts[t].deps \cap fr.failed # {} /\ ts[t].strategy # "all_completed"
     \/ BeginsIn(fr, ts, t) /\ StateOf(new, t) = "skipped"
     \/ StateOf(fr, t) = "running" /\ StateOf(new, t) \in {"succeeded", "failed"}

Concludes(fr, new, ts) ==
  /\ SameStates(fr, new, ts)
  /\ \/ new.ret.k = "raised"
     \/ new.ret.k = "FAILURE" /\ fr.failed # {} /\ fr.cur = NoTask
     \/ new.ret.k = "SUCCESS" /\ fr.failed = {} /\ Settled(fr, ts) = DOMAIN ts

Progress(fr, new, ts) ==
  \/ SameStates(fr, new, ts) /\ new.ret.k = fr.ret.k
  \/ fr.ret.k = "none" /\ new.ret.k = "none" /\ \E t \in DOMAIN ts : Moves(fr, new, ts, t)
  \/ fr.ret.k = "none" /\ Concludes(fr, new, ts)
-----------------------------------------------------------------------------
(* Pipelines *)

(* WellFormed, of one dag.                                                  *)
Good(ts, C) ==
  /\ DOMAIN ts \subseteq STRING \ {NoTask}
  /\ \A t \in DOMAIN ts :
       /\ ts[t].iter.kind # "none" => ts[t].comp \in C
       /\ ts[t].iter.max \in Nat
       /\ \A u \in DOMAIN ts : ExitTask(ts[u]) => u \notin ts[t].deps
       /\ \A u, v \in Watches(ts[t]) :
            u = v /\ u \in DOMAIN ts /\ Kind(ts[u]) = "regular" /\ ExitTask(ts[t])

LEMMA GoodDag ==
  ASSUME NEW p \in Pipelines
  PROVE  /\ p.root \in DOMAIN p.components
         /\ \A c \in DOMAIN p.components : Good(p.components[c].tasks, DOMAIN p.components)
<1>1. WellFormed(p)
  BY PipelinesAssumption
<1>2. ASSUME NEW c \in DOMAIN p.components PROVE Good(p.components[c].tasks, DOMAIN p.components)
  <2> DEFINE ts == p.components[c].tasks
  <2>1. /\ DOMAIN ts \subseteq STRING \ {NoTask}
        /\ \A t \in DOMAIN ts :
             /\ ts[t].iter.kind # "none" => ts[t].comp \in DOMAIN p.components
             /\ ts[t].iter.max \in Nat
             /\ \A u \in DOMAIN ts : ExitTask(ts[u]) => u \notin ts[t].deps
    BY <1>1 DEF WellFormed
  <2>2. ASSUME NEW t \in DOMAIN ts, NEW u \in Watches(ts[t]), NEW v \in Watches(ts[t])
        PROVE  u = v /\ u \in DOMAIN ts /\ Kind(ts[u]) = "regular" /\ ExitTask(ts[t])
    <3>1. PICK m \in DOMAIN ts[t].params : ts[t].params[m].kind = "final_status" /\ u = ts[t].params[m].name
      BY DEF Watches
    <3>2. PICK n \in DOMAIN ts[t].params : ts[t].params[n].kind = "final_status" /\ v = ts[t].params[n].name
      BY DEF Watches
    <3>3. /\ ts[t].params[m].name = ts[t].params[n].name
          /\ ts[t].params[m].name \in DOMAIN ts
          /\ Kind(ts[ts[t].params[m].name]) = "regular"
          /\ ts[t].strategy = "all_completed"
      BY <1>1, <3>1, <3>2 DEF WellFormed
    <3>4. ExitTask(ts[t])
      BY <3>1, <3>3 DEF ExitTask
    <3> QED
      BY <3>1, <3>2, <3>3, <3>4
  <2> QED
    BY <2>1, <2>2 DEF Good
<1> QED
  BY <1>1, <1>2 DEF WellFormed

LEMMA Kinds ==
  ASSUME NEW T
  PROVE  /\ ExitTask(T) => T.strategy = "all_completed" /\ Kind(T) = "exit"
         /\ ~ExitTask(T) => Kind(T) # "exit"
         /\ Kind(T) = "parallel_for" => T.iter.kind # "none"
<1>1. ExitTask(T) => T.strategy = "all_completed"
  BY DEF ExitTask
<1>2. ExitTask(T) \in BOOLEAN
  BY DEF ExitTask
<1>3. /\ ExitTask(T) => Kind(T) = "exit"
      /\ ~ExitTask(T) => Kind(T) # "exit"
      /\ Kind(T) = "parallel_for" => T.iter.kind # "none"
  BY <1>2 DEF Kind
<1> QED
  BY <1>1, <1>3

-----------------------------------------------------------------------------
(* Paths *)

LEMMA AppendFacts ==
  ASSUME NEW S, NEW f \in Seq(S), NEW x \in S
  PROVE  /\ Append(f, x) \in Seq(S) /\ Append(f, x) # <<>> /\ Append(f, x) # f
         /\ Len(Append(f, x)) = Len(f) + 1 /\ Len(f) \in Nat
         /\ \A g \in Seq(S), y \in S : Append(f, x) = Append(g, y) => f = g /\ x = y
OBVIOUS

LEMMA PathFacts ==
  ASSUME NEW f \in Paths, NEW t \in STRING, NEW i \in Nat
  PROVE  /\ Call(f, t, i) \in Paths /\ Call(f, t, i) # <<>> /\ Call(f, t, i) # f
         /\ Len(Call(f, t, i)) = Len(f) + 1 /\ Len(f) \in Nat
         /\ \A g \in Paths, u \in STRING, j \in Nat :
              Call(f, t, i) = Call(g, u, j) => f = g /\ t = u /\ i = j
<1> DEFINE S == STRING \X Nat
           x == <<t, i>>
<1>1. x \in S /\ f \in Seq(S) /\ Paths = Seq(S)
  BY DEF Paths
<1>2. \A u, j : Call(f, u, j) = Append(f, <<u, j>>)
  BY DEF Call
<1>3. ASSUME NEW g \in Paths, NEW u \in STRING, NEW j \in Nat, Append(f, x) = Append(g, <<u, j>>)
      PROVE  f = g /\ t = u /\ i = j
  <2> DEFINE y == <<u, j>>
  <2>1. y \in S /\ g \in Seq(S)
    BY <1>1
  <2>2. Append(f, x) = Append(g, y)
    BY <1>3
  <2> HIDE DEF S, x, y
  <2>3. f = g /\ x = y
    BY <1>1, <2>1, <2>2, AppendFacts
  <2> QED
    BY <2>3 DEF x, y
<1> HIDE DEF S, x
<1>4. /\ Append(f, x) \in Seq(S) /\ Append(f, x) # <<>> /\ Append(f, x) # f
      /\ Len(Append(f, x)) = Len(f) + 1 /\ Len(f) \in Nat
  BY <1>1, AppendFacts
<1> QED
  BY <1>1, <1>3, <1>4 DEF Call, x

(* Every set of lengths has a least one.                                    *)
Below == {p \in Nat \X Nat : p[1] < p[2]}

LEMMA LeastNat ==
  ASSUME NEW T, T \subseteq Nat, T # {}
  PROVE  \E x \in T : \A y \in T : x <= y
<1>1. OpToRel(<, Nat) = Below
  BY DEF OpToRel, Below
<1>2. IsWellFoundedOn(Below, Nat)
  BY <1>1, NatLessThanWellFounded
<1>3. PICK x \in T : \A y \in T : ~(<<y, x>> \in Below)
  BY <1>2, WFMin
<1>4. ASSUME NEW y \in T PROVE x <= y
  <2>1. x \in Nat /\ y \in Nat /\ <<y, x>> \in Nat \X Nat
    OBVIOUS
  <2>2. ~(<<y, x>>[1] < <<y, x>>[2])
    BY <1>3, <2>1 DEF Below
  <2> QED
    BY <2>1, <2>2
<1> QED
  BY <1>4

(* What holds of the root, and of a call when it holds of the caller, holds *)
(* of every frame: otherwise take a shortest path without it.               *)
LEMMA DownTheTree ==
  ASSUME Tree, NEW Q \in SUBSET Frames, <<>> \in Q,
         \A f \in Q, t \in STRING, i \in Nat : Call(f, t, i) \in Frames => Call(f, t, i) \in Q
  PROVE  Q = Frames
<1> SUFFICES ASSUME Q # Frames PROVE FALSE
  OBVIOUS
<1> DEFINE T == {Len(f) : f \in Frames \ Q}
<1>1. Frames \subseteq Paths
  BY DEF Tree
<1>2. T \subseteq Nat /\ T # {}
  <2>1. \A f \in Frames : Len(f) \in Nat
    BY <1>1 DEF Paths
  <2> QED
    BY <2>1
<1>3. PICK n \in T : \A m \in T : n <= m
  BY <1>2, LeastNat
<1>4. PICK g \in Frames \ Q : Len(g) = n
  BY <1>3
<1>5. PICK f \in Frames, t \in STRING, i \in Nat : g = Call(f, t, i)
  BY <1>4 DEF Tree
<1>6. f \notin Q
  BY <1>4, <1>5
<1>7. Len(g) = Len(f) + 1 /\ Len(f) \in Nat
  BY <1>1, <1>5, PathFacts
<1>8. n <= Len(f)
  BY <1>3, <1>6
<1> QED
  BY <1>4, <1>7, <1>8

-----------------------------------------------------------------------------
(* What a step of the runner does to the record of its frame *)

LEMMA NewFrameOK ==
  ASSUME NEW comp \in Components, NEW ins, pipeline \in Pipelines
  PROVE  LET fr == NewFrame(comp, ins)
             ts == pipeline.components[comp].tasks
         IN Shape(fr) /\ fr.comp = comp /\ fr.ret.k = "none" /\ Local(fr, ts)
<1> DEFINE ts == pipeline.components[comp].tasks
           exits == {t \in DOMAIN ts : ExitTask(ts[t])}
           fr == NewFrame(comp, ins)
<1>1. Good(ts, Components) /\ DOMAIN ts \subseteq STRING /\ NoTask \notin DOMAIN ts
  BY GoodDag DEF Components, Good
<1>2. fr = [comp |-> comp, todo |-> DOMAIN ts \ exits, exits |-> exits, cur |-> NoTask, att |-> 0,
            ins |-> ins, out |-> <<>>, st |-> <<>>, failed |-> {}, saw |-> <<>>, loop |-> NoLoop,
            ret |-> NotReturned]
  BY DEF NewFrame
<1>3. /\ NoLoop \in Loops /\ NoLoop.n = 0 /\ DOMAIN <<>> = {}
      /\ NotReturned.k = "none" /\ NotReturned \in [k : Outcomes, out : {NotReturned.out}]
  <2>1. NoLoop \in Loops /\ NoLoop.n = 0
    BY DEF NoLoop, Loops
  <2>2. NotReturned.k = "none" /\ NotReturned \in [k : Outcomes, out : {NotReturned.out}]
    BY DEF NotReturned, Outcomes
  <2>3. DOMAIN <<>> = {}
    OBVIOUS
  <2> QED
    BY <2>1, <2>2, <2>3
<1>5. Shape(fr)
  BY <1>1, <1>2, <1>3 DEF Shape
<1>6. /\ fr.todo = DOMAIN ts \ exits /\ fr.exits = exits /\ fr.cur = NoTask /\ fr.failed = {}
      /\ fr.st = <<>> /\ fr.saw = <<>> /\ fr.loop = NoLoop /\ fr.ret = NotReturned /\ fr.comp = comp
  BY <1>2
<1> HIDE DEF fr
<1>7. Local(fr, ts)
  <2>1. Placed(fr, ts)
    BY <1>6 DEF Placed, Waiting
  <2>2. \A t \in DOMAIN ts : t \in Waiting(fr)
    BY <1>6 DEF Waiting
  <2>3. Ordered(fr, ts) /\ Recorded(fr, ts)
    BY <1>3, <1>6, <2>2 DEF Ordered, Recorded, Settled
  <2>4. Told(fr, ts) /\ LoopOK(fr, ts) /\ ReturnOK(fr)
    BY <1>3, <1>6 DEF Told, LoopOK, ReturnOK
  <2> QED
    BY <2>1, <2>3, <2>4 DEF Local
<1> QED
  BY <1>3, <1>5, <1>6, <1>7 DEF fr

(* A task is settled without being run: it fails with its upstream, or is   *)
(* skipped.                                                                 *)
LEMMA PassOver ==
  ASSUME NEW fr, NEW new, NEW ts, NEW C, NEW t \in fr.todo, Good(ts, C), Local(fr, ts),
         fr.cur = NoTask, fr.ret.k = "none", ts[t].deps \cap fr.todo = {},
         new.todo = fr.todo \ {t}, new.exits = fr.exits, new.cur = NoTask, new.saw = fr.saw,
         new.loop.n = 0, new.ret = fr.ret,
         \/ /\ new.failed = fr.failed \cup {t} /\ new.st = Put(fr.st, t, "FAILED")
            /\ ts[t].deps \cap fr.failed # {} /\ ts[t].strategy # "all_completed"
         \/ /\ new.failed = fr.failed /\ new.st = fr.st /\ Kind(ts[t]) # "regular"
            /\ ts[t].deps \cap fr.failed = {} \/ ts[t].strategy = "all_completed"
  PROVE  /\ Local(new, ts) /\ Progress(fr, new, ts)
         /\ \A k, u, i : Called(fr, ts, C, k, u, i) => Called(new, ts, C, k, u, i)
<1> USE DEF Local
<1>1. t \in DOMAIN ts /\ ~ExitTask(ts[t]) /\ t # NoTask /\ t \notin fr.exits
  BY DEF Placed, Good
<1>2. Placed(new, ts)
  BY <1>1 DEF Placed, Waiting
<1>3. \A u \in DOMAIN ts : ExitTask(ts[u]) => u \in fr.exits
  BY DEF Placed
<1>4. DOMAIN fr.saw = {}
  BY <1>3 DEF Told
<1>5. Told(new, ts) /\ ReturnOK(new) /\ LoopOK(new, ts)
  BY <1>4 DEF Told, ReturnOK, LoopOK
<1>6. Ordered(new, ts)
  <2>1. ts[t].deps \cap Waiting(fr) = {}
    BY <1>1 DEF Waiting, Placed, Good
  <2> QED
    BY <1>1, <2>1 DEF Ordered, Waiting
<1>7. Settled(new, ts) = Settled(fr, ts) \cup {t}
  BY <1>1 DEF Settled, Waiting
<1>8. Recorded(new, ts)
  <2>1. t \notin Settled(fr, ts)
    BY DEF Settled, Waiting
  <2> QED
    BY <1>7, <2>1 DEF Recorded, Put
<1>9. ASSUME NEW k, NEW u, NEW i, Called(fr, ts, C, k, u, i) PROVE Called(new, ts, C, k, u, i)
  BY <1>9 DEF Called, Waiting, Good
<1>10. Moves(fr, new, ts, t)
  <2>1. BeginsIn(fr, ts, t)
    BY <1>1 DEF BeginsIn, StateOf, Settled, Waiting, Placed, Good
  <2>2. \A u \in DOMAIN ts : u # t => StateOf(new, u) = StateOf(fr, u)
    BY DEF StateOf, Waiting, Put
  <2>3. t \notin fr.failed /\ t \notin DOMAIN fr.st
    BY DEF Recorded, Settled, Waiting
  <2>4. StateOf(new, t) = IF t \in new.failed THEN "failed" ELSE "skipped"
    BY <1>1, <2>3 DEF StateOf, Waiting, Put
  <2> QED
    BY <2>1, <2>2, <2>3, <2>4 DEF Moves
<1> QED
  BY <1>1, <1>2, <1>5, <1>6, <1>8, <1>9, <1>10 DEF Progress

(* A task is taken up.                                                      *)
LEMMA TakeUp ==
  ASSUME NEW fr, NEW new, NEW ts, NEW C, NEW t \in Waiting(fr), Good(ts, C), Local(fr, ts),
         fr.cur = NoTask, fr.ret.k = "none",
         \/ /\ t \in fr.todo /\ ts[t].deps \cap fr.todo = {}
            /\ ts[t].deps \cap fr.failed = {} \/ ts[t].strategy = "all_completed"
         \/ t \in fr.exits /\ fr.todo = {},
         new.todo = fr.todo \ {t}, new.exits = fr.exits \ {t}, new.cur = t, new.failed = fr.failed,
         new.st = fr.st, new.ret = fr.ret, LoopOK(new, ts),
         \/ new.saw = fr.saw
         \/ \E x : /\ new.saw = Put(fr.saw, t, x) /\ Watches(ts[t]) # {}
                   /\ \A u \in Watches(ts[t]) : (x = "FAILED") <=> (u \in fr.failed)
  PROVE  /\ Local(new, ts) /\ Progress(fr, new, ts)
         /\ \A k, u, i : Called(fr, ts, C, k, u, i) => Called(new, ts, C, k, u, i)
<1> USE DEF Local
<1>1. t \in DOMAIN ts /\ t # NoTask /\ (t \in fr.todo => t \notin fr.exits /\ ~ExitTask(ts[t]))
      /\ (t \in fr.exits => t \notin fr.todo /\ ExitTask(ts[t]))
  BY DEF Placed, Good, Waiting
<1>2. Placed(new, ts)
  BY <1>1 DEF Placed, Waiting
<1>3. Ordered(new, ts)
  <2>1. ts[t].deps \cap Waiting(fr) = {}
    BY <1>1 DEF Waiting, Placed, Good
  <2>2. ts[t].strategy = "all_completed" \/ ts[t].deps \cap fr.failed = {}
    BY <1>1, Kinds
  <2>3. \A u \in DOMAIN ts : u \notin Waiting(fr) => t \notin ts[u].deps
    BY DEF Ordered
  <2>4. \A u \in DOMAIN ts : u \notin Waiting(new) => u = t \/ u \notin Waiting(fr)
    BY DEF Waiting
  <2>5. Waiting(new) \subseteq Waiting(fr) /\ t \notin ts[t].deps
    BY <2>1 DEF Waiting
  <2> QED
    BY <1>1, <2>1, <2>2, <2>3, <2>4, <2>5 DEF Ordered
<1>4. Settled(new, ts) = Settled(fr, ts)
  BY <1>1 DEF Settled, Waiting, Good
<1>5. Recorded(new, ts)
  BY <1>4 DEF Recorded
<1>6. Told(new, ts)
  <2>1. CASE new.saw = fr.saw
    BY <2>1 DEF Told
  <2>2. CASE new.saw # fr.saw
    <3>1. PICK x : /\ new.saw = Put(fr.saw, t, x) /\ Watches(ts[t]) # {}
                   /\ \A u \in Watches(ts[t]) : (x = "FAILED") <=> (u \in fr.failed)
      BY <2>2
    <3>2. ExitTask(ts[t])
      BY <1>1, <3>1 DEF Good
    <3>3. DOMAIN new.saw = DOMAIN fr.saw \cup {t} /\ new.saw[t] = x
          /\ \A u \in DOMAIN fr.saw : u # t => new.saw[u] = fr.saw[u]
      BY <3>1 DEF Put
    <3> QED
      BY <1>1, <3>1, <3>2, <3>3 DEF Told
  <2> QED
    BY <2>1, <2>2
<1>7. ReturnOK(new)
  BY DEF ReturnOK
<1>8. ASSUME NEW k, NEW u, NEW i, Called(fr, ts, C, k, u, i) PROVE Called(new, ts, C, k, u, i)
  <2>1. u # t /\ u # NoTask /\ u \notin Waiting(new) /\ k # "none"
    BY <1>8 DEF Called, Waiting, Good
  <2> QED
    BY <1>8, <2>1 DEF Called
<1>9. Moves(fr, new, ts, t)
  <2>1. BeginsIn(fr, ts, t)
    BY <1>1 DEF BeginsIn, StateOf, Settled, Waiting, Placed, Good
  <2>2. \A u \in DOMAIN ts : u # t => StateOf(new, u) = StateOf(fr, u)
    BY DEF StateOf, Waiting, Good
  <2>3. ts[t].deps \cap fr.failed = {} \/ ts[t].strategy = "all_completed"
    BY <1>1, Kinds
  <2>4. StateOf(new, t) = "running"
    BY <1>1 DEF StateOf, Waiting
  <2> QED
    BY <2>1, <2>2, <2>3, <2>4 DEF Moves
<1> QED
  BY <1>1, <1>2, <1>3, <1>5, <1>6, <1>7, <1>8, <1>9 DEF Progress

(* The task in progress ends.                                               *)
LEMMA Settle ==
  ASSUME NEW fr, NEW new, NEW ts, NEW C, Good(ts, C), Local(fr, ts), fr.cur # NoTask,
         new.todo = fr.todo, new.exits = fr.exits, new.cur = NoTask, new.saw = fr.saw,
         new.loop.n = 0, fr.ret.k = "none", new.ret = fr.ret,
         \/ /\ new.failed = fr.failed \cup {fr.cur}
            /\ \/ new.st = Put(fr.st, fr.cur, "FAILED")
               \/ new.st = fr.st /\ Kind(ts[fr.cur]) = "parallel_for"
         \/ new.failed = fr.failed /\ new.st = Put(fr.st, fr.cur, "SUCCEEDED")
  PROVE  /\ Local(new, ts) /\ Progress(fr, new, ts)
         /\ \A k, u, i : /\ Called(fr, ts, C, k, u, i)
                         /\ u = fr.cur => k # "none" /\ (new.failed = fr.failed => k = "SUCCESS")
                         => Called(new, ts, C, k, u, i)
<1> USE DEF Local
<1> DEFINE t == fr.cur
<1>1. t \in DOMAIN ts /\ t \notin Waiting(fr) /\ Waiting(new) = Waiting(fr) /\ t \notin Settled(fr, ts)
  BY DEF Placed, Waiting, Settled
<1>2. Placed(new, ts)
  BY <1>1 DEF Placed
<1>3. Ordered(new, ts)
  BY <1>1 DEF Ordered
<1>4. Settled(new, ts) = Settled(fr, ts) \cup {t}
  BY <1>1 DEF Settled, Good
<1>5. Recorded(new, ts)
  <2>1. /\ DOMAIN new.st \subseteq DOMAIN fr.st \cup {t}
        /\ \A u \in DOMAIN fr.st : u # t => u \in DOMAIN new.st /\ new.st[u] = fr.st[u]
        /\ t \in DOMAIN new.st => new.st[t] = IF t \in new.failed THEN "FAILED" ELSE "SUCCEEDED"
        /\ Kind(ts[t]) = "regular" => t \in DOMAIN new.st
    <3>1. t \notin DOMAIN fr.st /\ t \notin fr.failed
      BY <1>1 DEF Recorded
    <3> QED
      BY <3>1 DEF Put
  <2> QED
    BY <1>1, <1>4, <2>1 DEF Recorded
<1>6. Told(new, ts)
  <2>1. ASSUME NEW e \in DOMAIN fr.saw, NEW u \in Watches(ts[e]) PROVE u # t
    <3>1. e \in DOMAIN ts /\ ExitTask(ts[e]) /\ e \notin fr.exits
      BY DEF Told
    <3>2. ExitTask(ts[t])
      BY <3>1 DEF Placed
    <3>3. Kind(ts[u]) = "regular"
      BY <3>1 DEF Good
    <3> QED
      BY <3>2, <3>3, Kinds
  <2> QED
    BY <2>1 DEF Told
<1>7. ReturnOK(new) /\ LoopOK(new, ts)
  BY DEF ReturnOK, LoopOK
<1>8. ASSUME NEW k, NEW u, NEW i, Called(fr, ts, C, k, u, i),
             u = t => k # "none" /\ (new.failed = fr.failed => k = "SUCCESS")
      PROVE  Called(new, ts, C, k, u, i)
  <2>1. u # NoTask /\ (new.failed = fr.failed \/ new.failed # {})
    BY <1>8 DEF Called, Good
  <2>2. k # "none"
    BY <1>8 DEF Called
  <2> QED
    BY <1>1, <1>8, <2>1, <2>2 DEF Called
<1>9. Moves(fr, new, ts, t)
  <2>1. \A u \in DOMAIN ts : u # t => StateOf(new, u) = StateOf(fr, u)
    BY <1>1 DEF StateOf, Put, Good
  <2>2. StateOf(fr, t) = "running" /\ StateOf(new, t) \in {"succeeded", "failed"}
    BY <1>1 DEF StateOf, Put
  <2> QED
    BY <2>1, <2>2 DEF Moves
<1> QED
  BY <1>1, <1>2, <1>3, <1>5, <1>6, <1>7, <1>8, <1>9 DEF Progress

(* Nothing but the loop, the attempt and the result changes.                *)
LEMMA Stay ==
  ASSUME NEW fr, NEW new, NEW ts, Local(fr, ts),
         new.todo = fr.todo, new.exits = fr.exits, new.cur = fr.cur, new.saw = fr.saw,
         new.failed = fr.failed, new.st = fr.st, LoopOK(new, ts), ReturnOK(new)
  PROVE  Local(new, ts) /\ SameStates(fr, new, ts)
<1>1. Waiting(new) = Waiting(fr) /\ Settled(new, ts) = Settled(fr, ts)
  BY DEF Waiting, Settled
<1> QED
  BY <1>1 DEF Local, Placed, Ordered, Recorded, Told, SameStates, StateOf

-----------------------------------------------------------------------------
(* What a step does to the tree of frames *)

(* A call that runs may end in any way.                                     *)
LEMMA CallEnds ==
  ASSUME NEW fr, NEW ts, NEW C, NEW t, NEW i, Called(fr, ts, C, "none", t, i), NEW k
  PROVE  Called(fr, ts, C, k, t, i)
BY DEF Called

(* One frame changes.                                                       *)
LEMMA UpdateKeeps ==
  ASSUME IInv, NEW f \in Frames, Active(f), NEW new, Update(f, new), UNCHANGED pipeline,
         Shape(new), new.comp = frame[f].comp, Local(new, TasksOf(f)),
         \A t \in STRING, i \in Nat :
            /\ Call(f, t, i) \in Frames
            /\ Called(frame[f], TasksOf(f), Components, frame[Call(f, t, i)].ret.k, t, i)
            => Called(new, TasksOf(f), Components, frame[Call(f, t, i)].ret.k, t, i)
  PROVE  Locals' /\ Tree'
<1> USE DEF IInv
<1>1. Frames' = Frames /\ Components' = Components /\ frame'[f] = new
      /\ (\A g \in Frames : g # f => frame'[g] = frame[g])
      /\ (\A g \in Frames : TasksOf(g)' = TasksOf(g) /\ frame'[g].comp = frame[g].comp)
  BY DEF Update, Frames, Components, TasksOf, DagOf
<1>2. Locals'
  BY <1>1 DEF Locals
<1>3. Tree'
  <2>1. ASSUME NEW g \in Frames, NEW t \in STRING, NEW i \in Nat, Call(g, t, i) \in Frames
        PROVE  Called(frame'[g], TasksOf(g), Components, frame'[Call(g, t, i)].ret.k, t, i)
    <3>1. Called(frame[g], TasksOf(g), Components, frame[Call(g, t, i)].ret.k, t, i)
      BY <2>1 DEF Tree
    <3>2. CASE g = f
      <4>1. Call(g, t, i) # f
        BY <3>2, PathFacts DEF Tree
      <4> QED
        BY <1>1, <2>1, <3>1, <3>2, <4>1
    <3>3. CASE g # f /\ Call(g, t, i) = f
      <4>1. Called(frame[g], TasksOf(g), Components, "none", t, i)
        BY <3>1, <3>3 DEF Active
      <4> QED
        BY <1>1, <3>3, <4>1, CallEnds
    <3>4. CASE g # f /\ Call(g, t, i) # f
      BY <1>1, <2>1, <3>1, <3>4
    <3> QED
      BY <3>2, <3>3, <3>4
  <2> QED
    BY <1>1, <2>1 DEF Tree
<1> QED
  BY <1>2, <1>3

(* A frame calls a new one.                                                 *)
LEMMA SpawnKeeps ==
  ASSUME IInv, NEW f \in Frames, Active(f), NEW new, NEW t \in STRING, NEW i \in Nat,
         NEW comp \in Components, NEW ins,
         Call(f, t, i) \notin Frames,
         frame' = Put([frame EXCEPT ![f] = new], Call(f, t, i), NewFrame(comp, ins)),
         UNCHANGED pipeline,
         Shape(new), new.comp = frame[f].comp, Local(new, TasksOf(f)), new.ret.k = "none",
         Called(new, TasksOf(f), Components, "none", t, i),
         \A u \in STRING, j \in Nat :
            /\ Call(f, u, j) \in Frames
            /\ Called(frame[f], TasksOf(f), Components, frame[Call(f, u, j)].ret.k, u, j)
            => Called(new, TasksOf(f), Components, frame[Call(f, u, j)].ret.k, u, j)
  PROVE  Locals' /\ Tree' /\ Frames' = Frames \cup {Call(f, t, i)}
<1> USE DEF IInv
<1> DEFINE c == Call(f, t, i)
           nf == NewFrame(comp, ins)
<1>1. f \in Paths /\ c \in Paths /\ c # f /\ c # <<>>
  BY PathFacts DEF Tree
<1>2. /\ Shape(nf) /\ nf.comp = comp /\ nf.ret.k = "none" /\ Local(nf, pipeline.components[comp].tasks)
  BY NewFrameOK
<1> HIDE DEF nf, c
<1>3. Frames' = Frames \cup {c} /\ frame'[c] = nf /\ frame'[f] = new
      /\ \A g \in Frames : g # f => frame'[g] = frame[g]
  BY <1>1 DEF Frames, Put, c, nf
<1>4. Components' = Components /\ (\A g \in Frames : TasksOf(g)' = TasksOf(g) /\ frame'[g].comp = frame[g].comp)
      /\ TasksOf(c)' = pipeline.components[comp].tasks
  BY <1>2, <1>3 DEF Components, TasksOf, DagOf
<1>5. Locals'
  BY <1>2, <1>3, <1>4 DEF Locals
<1>6. Tree'
  <2>1. Frames' \subseteq Paths /\ <<>> \in Frames'
    BY <1>1, <1>3 DEF Tree
  <2>2. ASSUME NEW g \in Frames', g # <<>>
        PROVE  \E h \in Frames', u \in STRING, j \in Nat : g = Call(h, u, j)
    BY <1>3, <2>2 DEF Tree, c
  <2>3. ASSUME NEW g \in Frames', NEW u \in STRING, NEW j \in Nat, Call(g, u, j) \in Frames'
        PROVE  Called(frame'[g], TasksOf(g)', Components, frame'[Call(g, u, j)].ret.k, u, j)
    <3>1. g \in Paths
      BY <2>1
    <3>2. CASE Call(g, u, j) = c
      <4>1. g = f /\ u = t /\ j = i
        BY <1>1, <3>1, <3>2, PathFacts DEF c
      <4> QED
        BY <1>2, <1>3, <1>4, <3>2, <4>1
    <3>3. CASE Call(g, u, j) # c
      <4>1. Call(g, u, j) \in Frames /\ Call(g, u, j) # <<>>
        BY <1>3, <2>3, <3>1, <3>3, PathFacts
      <4>2. PICK h \in Frames, v \in STRING, m \in Nat : Call(g, u, j) = Call(h, v, m)
        BY <4>1 DEF Tree
      <4>3. g \in Frames
        BY <3>1, <4>2, PathFacts DEF Tree
      <4>4. Called(frame[g], TasksOf(g), Components, frame[Call(g, u, j)].ret.k, u, j)
        BY <4>1, <4>3 DEF Tree
      <4>5. CASE g = f
        <5>1. Call(g, u, j) # f
          BY <3>1, <4>5, PathFacts
        <5> QED
          BY <1>3, <1>4, <4>1, <4>4, <4>5, <5>1
      <4>6. CASE g # f /\ Call(g, u, j) = f
        <5>1. frame[f].ret.k = "none" /\ frame'[f].ret.k = "none"
          BY <1>3 DEF Active
        <5> QED
          BY <1>3, <1>4, <4>3, <4>4, <4>6, <5>1
      <4>7. CASE g # f /\ Call(g, u, j) # f
        BY <1>3, <1>4, <4>1, <4>3, <4>4, <4>7
      <4> QED
        BY <4>5, <4>6, <4>7
    <3> QED
      BY <3>2, <3>3
  <2> QED
    BY <1>4, <2>1, <2>2, <2>3 DEF Tree
<1> QED
  BY <1>3, <1>5, <1>6 DEF c

LEMMA FrameFacts ==
  ASSUME IInv, NEW f \in Frames
  PROVE  /\ f \in Paths /\ Shape(frame[f]) /\ Local(frame[f], TasksOf(f)) /\ Good(TasksOf(f), Components)
         /\ \A t : Task(f, t) = TasksOf(f)[t]
<1>1. Good(TasksOf(f), Components)
  BY GoodDag DEF IInv, Locals, TasksOf, DagOf, Components
<1> QED
  BY <1>1 DEF IInv, Locals, Tree, Task, TasksOf

(* What is shown of each step of the thread of frame f.                     *)
Done(f) ==
  /\ IInv' /\ pipeline' = pipeline /\ Frames \subseteq Frames'
  /\ \A g \in Frames : g # f => frame'[g] = frame[g]
  /\ frame'[f].comp = frame[f].comp /\ Progress(frame[f], frame'[f], TasksOf(f))

LEMMA EndingKept ==
  ASSUME IInv, NEW f \in Frames, Active(f), UNCHANGED <<runner, result, workspace>>,
         Frames \subseteq Frames', frame[f].failed \subseteq frame'[f].failed,
         \A g \in Frames : g # f => frame'[g] = frame[g],
         runner = "subprocess" => \A b \in broken' : b \in broken \/ \E t \in frame'[f].failed : b = <<f, t>>
  PROVE  Ending'
<1>1. result # "running" => f # <<>>
  BY DEF IInv, Ending
<1>2. result' # "running" => ~Active(<<>>)' /\ result' = frame'[<<>>].ret.k
  BY <1>1 DEF IInv, Ending, Tree, Active
<1>3. ASSUME runner = "subprocess", NEW b \in broken' PROVE \E g \in Frames' : \E t \in frame'[g].failed : b = <<g, t>>
  <2>1. CASE b \in broken
    <3>1. PICK g \in Frames : \E t \in frame[g].failed : b = <<g, t>>
      BY <1>3, <2>1 DEF IInv, Ending
    <3> QED
      BY <3>1
  <2>2. CASE b \notin broken
    BY <1>3, <2>2
  <2> QED
    BY <2>1, <2>2
<1> QED
  BY <1>2, <1>3 DEF IInv, Ending

LEMMA UpdateDone ==
  ASSUME IInv, NEW f \in Frames, Active(f), NEW new, Update(f, new),
         UNCHANGED <<pipeline, runner, result, workspace>>,
         runner = "subprocess" => \A b \in broken' : b \in broken \/ \E t \in new.failed : b = <<f, t>>,
         Shape(new), new.comp = frame[f].comp, frame[f].failed \subseteq new.failed,
         Local(new, TasksOf(f)), Progress(frame[f], new, TasksOf(f)),
         \A t \in STRING, i \in Nat :
            /\ Call(f, t, i) \in Frames
            /\ Called(frame[f], TasksOf(f), Components, frame[Call(f, t, i)].ret.k, t, i)
            => Called(new, TasksOf(f), Components, frame[Call(f, t, i)].ret.k, t, i)
  PROVE  Done(f)
<1>1. Frames' = Frames /\ frame'[f] = new /\ \A g \in Frames : g # f => frame'[g] = frame[g]
  BY DEF Update, Frames
<1>2. Locals' /\ Tree'
  BY UpdateKeeps
<1>3. Ending'
  BY <1>1, EndingKept
<1> QED
  BY <1>1, <1>2, <1>3 DEF Done, IInv

LEMMA SpawnDone ==
  ASSUME IInv, NEW f \in Frames, Active(f), NEW new, NEW t \in STRING, NEW i \in Nat,
         NEW comp \in Components, NEW ins,
         Call(f, t, i) \notin Frames,
         frame' = Put([frame EXCEPT ![f] = new], Call(f, t, i), NewFrame(comp, ins)), Quiet,
         Shape(new), new.comp = frame[f].comp, new.failed = frame[f].failed, new.ret.k = "none",
         Local(new, TasksOf(f)), Progress(frame[f], new, TasksOf(f)),
         Called(new, TasksOf(f), Components, "none", t, i),
         \A u \in STRING, j \in Nat :
            /\ Call(f, u, j) \in Frames
            /\ Called(frame[f], TasksOf(f), Components, frame[Call(f, u, j)].ret.k, u, j)
            => Called(new, TasksOf(f), Components, frame[Call(f, u, j)].ret.k, u, j)
  PROVE  Done(f)
<1>1. Call(f, t, i) # f
  BY PathFacts, FrameFacts
<1>2. frame'[f] = new /\ (\A g \in Frames : g # f => frame'[g] = frame[g]) /\ Frames \subseteq Frames'
  BY <1>1 DEF Frames, Put
<1>3. Locals' /\ Tree'
  BY SpawnKeeps DEF Quiet
<1>4. Ending'
  BY <1>2, EndingKept DEF Quiet
<1> QED
  BY <1>2, <1>3, <1>4 DEF Done, IInv, Quiet

-----------------------------------------------------------------------------
(* The steps *)

LEMMA RaiseDone ==
  ASSUME IInv, NEW f \in Frames, Active(f), Raise(f), Quiet,
         \A t \in STRING, i \in Nat : Call(f, t, i) \in Frames => ~Active(Call(f, t, i))
  PROVE  Done(f)
<1> DEFINE fr == frame[f]
           ts == TasksOf(f)
           new == [fr EXCEPT !.ret = Raised]
<1>1. Shape(fr) /\ Local(fr, ts)
  BY FrameFacts
<1>2. /\ Shape(new) /\ new.comp = fr.comp /\ new.todo = fr.todo /\ new.exits = fr.exits /\ new.cur = fr.cur
      /\ new.saw = fr.saw /\ new.failed = fr.failed /\ new.st = fr.st /\ new.loop = fr.loop
      /\ new.ret.k = "raised"
  BY <1>1 DEF Shape, Raised, Outcomes
<1>3. Update(f, new)
  BY DEF Raise
<1> HIDE DEF new
<1>4. Local(new, ts) /\ SameStates(fr, new, ts)
  <2>1. LoopOK(new, ts) /\ ReturnOK(new)
    BY <1>1, <1>2 DEF Local, LoopOK, ReturnOK
  <2> QED
    BY <1>1, <1>2, <2>1, Stay
<1>5. Progress(fr, new, ts)
  BY <1>2, <1>4 DEF Progress, Concludes, Active
<1>6. ASSUME NEW t \in STRING, NEW i \in Nat, NEW k, k # "none", Called(fr, ts, Components, k, t, i)
      PROVE  Called(new, ts, Components, k, t, i)
  BY <1>2, <1>6 DEF Called, Waiting
<1> QED
  BY <1>2, <1>3, <1>4, <1>5, <1>6, UpdateDone DEF Quiet, Active

(* A frame between two tasks has no call running.                           *)
LEMMA IdleAlone ==
  ASSUME IInv, NEW f \in Frames, frame[f].cur = NoTask
  PROVE  \A t \in STRING, i \in Nat : Call(f, t, i) \in Frames => ~Active(Call(f, t, i))
<1>1. NoTask \notin DOMAIN TasksOf(f)
  BY FrameFacts DEF Good
<1> QED
  BY <1>1 DEF IInv, Tree, Called, Active

LEMMA SkipForFailedUpstreamDone ==
  ASSUME IInv, NEW f \in Frames, NEW t, SkipForFailedUpstream(f, t)
  PROVE  Done(f)
<1> DEFINE fr == frame[f]
           ts == TasksOf(f)
           new == [fr EXCEPT !.todo = @ \ {t}, !.failed = @ \cup {t}, !.st = Put(@, t, "FAILED")]
<1>1. Shape(fr) /\ Local(fr, ts) /\ Good(ts, Components) /\ Task(f, t) = ts[t]
  BY FrameFacts
<1>2. /\ fr.cur = NoTask /\ Active(f) /\ t \in fr.todo /\ ts[t].deps \cap fr.todo = {}
      /\ ts[t].deps \cap fr.failed # {} /\ ts[t].strategy # "all_completed"
      /\ Update(f, new) /\ Quiet
  BY <1>1 DEF SkipForFailedUpstream, Idle, Ready, Gated, FailedDeps
<1>3. /\ Shape(new) /\ new.comp = fr.comp /\ new.todo = fr.todo \ {t} /\ new.exits = fr.exits /\ new.cur = fr.cur
      /\ new.saw = fr.saw /\ new.failed = fr.failed \cup {t} /\ new.st = Put(fr.st, t, "FAILED")
      /\ new.loop = fr.loop /\ new.ret = fr.ret
  BY <1>1, <1>2 DEF Shape
<1> HIDE DEF new
<1>4. fr.loop.n = 0 /\ fr.ret.k = "none"
  BY <1>1, <1>2 DEF Local, LoopOK, Active
<1>5. /\ Local(new, ts) /\ Progress(fr, new, ts)
      /\ \A k, u, i : Called(fr, ts, Components, k, u, i) => Called(new, ts, Components, k, u, i)
  BY <1>1, <1>2, <1>3, <1>4, PassOver
<1> QED
  BY <1>2, <1>3, <1>5, UpdateDone DEF Quiet

LEMMA SkipConditionDone ==
  ASSUME IInv, NEW f \in Frames, NEW t, SkipCondition(f, t)
  PROVE  Done(f)
<1> DEFINE fr == frame[f]
           ts == TasksOf(f)
           new == [fr EXCEPT !.todo = @ \ {t}]
<1>1. Shape(fr) /\ Local(fr, ts) /\ Good(ts, Components) /\ Task(f, t) = ts[t]
  BY FrameFacts
<1>2. /\ fr.cur = NoTask /\ Active(f) /\ t \in fr.todo /\ ts[t].deps \cap fr.todo = {}
      /\ ts[t].deps \cap fr.failed = {} \/ ts[t].strategy = "all_completed"
      /\ Kind(ts[t]) = "condition" /\ Update(f, new) /\ Quiet
  BY <1>1 DEF SkipCondition, Idle, Ready, Gated, FailedDeps
<1>3. /\ Shape(new) /\ new.comp = fr.comp /\ new.todo = fr.todo \ {t} /\ new.exits = fr.exits /\ new.cur = fr.cur
      /\ new.saw = fr.saw /\ new.failed = fr.failed /\ new.st = fr.st
      /\ new.loop = fr.loop /\ new.ret = fr.ret
  BY <1>1, <1>2 DEF Shape
<1> HIDE DEF new
<1>4. fr.loop.n = 0 /\ fr.ret.k = "none"
  BY <1>1, <1>2 DEF Local, LoopOK, Active
<1>5. /\ Local(new, ts) /\ Progress(fr, new, ts)
      /\ \A k, u, i : Called(fr, ts, Components, k, u, i) => Called(new, ts, Components, k, u, i)
  BY <1>1, <1>2, <1>3, <1>4, PassOver
<1> QED
  BY <1>2, <1>3, <1>5, UpdateDone DEF Quiet

LEMMA LastIsMax ==
  ASSUME NEW n \in Nat, NEW S \in SUBSET (0 .. n), n \in S
  PROVE  Max(S) = n
<1>1. \A y \in S : n >= y
  OBVIOUS
<1>2. \A x \in S : (\A y \in S : x >= y) => x = n
  OBVIOUS
<1> QED
  BY <1>1, <1>2 DEF Max

(* A status recorded in the frame itself is the one that is found.          *)
LEMMA OwnStatus ==
  ASSUME NEW f \in Paths, NEW u \in DOMAIN frame[f].st
  PROVE  FinalStatus(f, u) = frame[f].st[u]
<1> DEFINE H == HasStatus(f, u)
<1>1. Len(f) \in Nat /\ Prefix(f, Len(f)) = f
  BY DEF Paths, Prefix
<1>2. Len(f) \in H /\ H \in SUBSET (0 .. Len(f))
  BY <1>1 DEF HasStatus
<1>3. Max(H) = Len(f)
  BY <1>1, <1>2, LastIsMax
<1> QED
  BY <1>1, <1>2, <1>3 DEF FinalStatus

(* What an exit task is told, when its turn comes.                          *)
LEMMA WatchedIsKnown ==
  ASSUME IInv, NEW f \in Frames, frame[f].cur = NoTask, frame[f].todo = {},
         NEW t \in DOMAIN TasksOf(f), NEW u \in Watches(TasksOf(f)[t])
  PROVE  (FinalStatus(f, u) = "FAILED") <=> (u \in frame[f].failed)
<1> DEFINE fr == frame[f]
           ts == TasksOf(f)
<1>1. f \in Paths /\ Local(fr, ts) /\ Good(ts, Components)
  BY FrameFacts
<1>2. u \in DOMAIN ts /\ Kind(ts[u]) = "regular" /\ u # NoTask
  BY <1>1 DEF Good
<1>3. ~ExitTask(ts[u])
  BY <1>2, Kinds
<1>4. u \in Settled(fr, ts)
  BY <1>1, <1>2, <1>3 DEF Local, Placed, Settled, Waiting
<1>5. u \in DOMAIN fr.st /\ fr.st[u] = IF u \in fr.failed THEN "FAILED" ELSE "SUCCEEDED"
  BY <1>1, <1>2, <1>4 DEF Local, Recorded
<1>6. FinalStatus(f, u) = fr.st[u]
  BY <1>1, <1>5, OwnStatus
<1> QED
  BY <1>5, <1>6

(* execute_task, for a task whose turn has come.                            *)
LEMMA ExecuteDone ==
  ASSUME IInv, NEW f \in Frames, NEW t, Active(f), frame[f].cur = NoTask, execute_task(f, t), Quiet,
         Kind(TasksOf(f)[t]) # "parallel_for",
         \/ /\ t \in frame[f].todo /\ TasksOf(f)[t].deps \cap frame[f].todo = {}
            /\ \/ TasksOf(f)[t].deps \cap frame[f].failed = {}
               \/ TasksOf(f)[t].strategy = "all_completed"
         \/ t \in frame[f].exits /\ frame[f].todo = {}
  PROVE  Done(f)
<1> DEFINE fr == frame[f]
           ts == TasksOf(f)
           T == ts[t]
           statusOf == {n \in DOMAIN T.params : T.params[n].kind = "final_status"}
           seen == FinalStatus(f, T.params[CHOOSE n \in statusOf : TRUE].name)
           saw == IF statusOf = {} THEN fr.saw ELSE Put(fr.saw, t, seen)
           new == [fr EXCEPT !.todo = @ \ {t}, !.exits = @ \ {t}, !.cur = t, !.att = 0, !.saw = saw]
<1>1. f \in Paths /\ Shape(fr) /\ Local(fr, ts) /\ Good(ts, Components) /\ Task(f, t) = T
  BY FrameFacts
<1>2. t \in Waiting(fr) /\ t \in DOMAIN ts /\ t \in STRING /\ t # NoTask
  BY <1>1 DEF Local, Placed, Waiting, Good
<1>3. /\ Shape(new) /\ new.comp = fr.comp /\ new.todo = fr.todo \ {t} /\ new.exits = fr.exits \ {t} /\ new.cur = t
      /\ new.saw = saw /\ new.failed = fr.failed /\ new.st = fr.st
      /\ new.loop = fr.loop /\ new.ret = fr.ret
  <2> HIDE DEF saw
  <2> QED
    BY <1>1, <1>2 DEF Shape
<1>4. \/ saw = fr.saw
      \/ \E x : /\ saw = Put(fr.saw, t, x) /\ Watches(T) # {}
                /\ \A u \in Watches(T) : (x = "FAILED") <=> (u \in fr.failed)
  <2>1. CASE statusOf = {}
    BY <2>1
  <2>2. CASE statusOf # {}
    <3> DEFINE n == CHOOSE m \in statusOf : TRUE
    <3>1. n \in statusOf
      BY <2>2
    <3>2. T.params[n].name \in Watches(T)
      BY <3>1 DEF Watches
    <3>3. ExitTask(T) /\ \A u \in Watches(T) : u = T.params[n].name
      <4> DEFINE w == T.params[n].name
      <4>1. w \in Watches(T)
        BY <3>2
      <4>2. \A u, v \in Watches(T) : u = v /\ ExitTask(T)
        BY <1>1, <1>2 DEF Good
      <4> HIDE DEF w
      <4>3. ExitTask(T) /\ \A u \in Watches(T) : u = w
        BY <4>1, <4>2
      <4> QED
        BY <4>3 DEF w
    <3>4. fr.todo = {}
      BY <1>1, <3>3 DEF Local, Placed
    <3>5. saw = Put(fr.saw, t, seen) /\ seen = FinalStatus(f, T.params[n].name)
      BY <2>2
    <3>6. (seen = "FAILED") <=> (T.params[n].name \in fr.failed)
      BY <1>2, <3>2, <3>4, <3>5, WatchedIsKnown
    <3> QED
      BY <3>2, <3>3, <3>5, <3>6
  <2> QED
    BY <2>1, <2>2
<1>5. fr.loop.n = 0 /\ fr.ret.k = "none"
  BY <1>1 DEF Local, LoopOK, Active
<1>6. \/ Raise(f)
      \/ /\ Nested(T)
         /\ frame' = Put([frame EXCEPT ![f] = new], Append(f, <<t, 0>>),
                         NewFrame(T.comp, build_nested_dag_arguments(f, T, Missing)))
      \/ Update(f, new)
  <2> DEFINE statusOf2 == {n \in DOMAIN Task(f, t).params : Task(f, t).params[n].kind = "final_status"}
  <2>1. statusOf2 = statusOf
    BY <1>1
  <2> QED
    BY <1>1, <2>1 DEF execute_task
<1> HIDE DEF new, saw
<1>7. /\ Local(new, ts) /\ Progress(fr, new, ts)
      /\ \A k, u, i : Called(fr, ts, Components, k, u, i) => Called(new, ts, Components, k, u, i)
  <2>1. LoopOK(new, ts)
    BY <1>3, <1>5 DEF LoopOK
  <2> QED
    BY <1>1, <1>2, <1>3, <1>4, <1>5, <2>1, TakeUp
<1>8. CASE Raise(f)
  BY <1>8, RaiseDone, IdleAlone
<1>9. CASE Update(f, new)
  BY <1>3, <1>7, <1>9, UpdateDone DEF Quiet
<1>10. CASE /\ Nested(T)
            /\ frame' = Put([frame EXCEPT ![f] = new], Append(f, <<t, 0>>),
                            NewFrame(T.comp, build_nested_dag_arguments(f, T, Missing)))
  <2> DEFINE ins == build_nested_dag_arguments(f, T, Missing)
  <2>1. T.comp \in Components
    BY <1>10 DEF Nested
  <2>2. Call(f, t, 0) \notin Frames
    BY <1>2 DEF IInv, Tree, Called
  <2>3. frame' = Put([frame EXCEPT ![f] = new], Call(f, t, 0), NewFrame(T.comp, ins))
    BY <1>10 DEF Call
  <2>4. Called(new, ts, Components, "none", t, 0)
    BY <1>2, <1>3, <1>5, <2>1 DEF Called, Waiting
  <2>5. new.ret.k = "none" /\ new.failed = fr.failed
    BY <1>3, <1>5
  <2> HIDE DEF ins
  <2> QED
    BY <1>2, <1>3, <1>7, <2>1, <2>2, <2>3, <2>4, <2>5, SpawnDone
<1> QED
  BY <1>6, <1>8, <1>9, <1>10

LEMMA RunTaskDone == ASSUME IInv, NEW f \in Frames, NEW t, RunTask(f, t) PROVE Done(f)
<1>1. \A u : Task(f, u) = TasksOf(f)[u]
  BY FrameFacts
<1>2. /\ Active(f) /\ frame[f].cur = NoTask /\ t \in frame[f].todo
      /\ TasksOf(f)[t].deps \cap frame[f].todo = {} /\ execute_task(f, t) /\ Quiet
      /\ \/ TasksOf(f)[t].deps \cap frame[f].failed = {}
         \/ TasksOf(f)[t].strategy = "all_completed"
      /\ Kind(TasksOf(f)[t]) # "parallel_for"
  BY <1>1 DEF RunTask, Idle, Ready, Gated, FailedDeps
<1> QED
  BY <1>2, ExecuteDone

LEMMA RunExitTaskDone == ASSUME IInv, NEW f \in Frames, NEW t, RunExitTask(f, t) PROVE Done(f)
<1>1. Active(f) /\ frame[f].cur = NoTask /\ frame[f].todo = {} /\ t \in frame[f].exits /\ execute_task(f, t) /\ Quiet
  BY DEF RunExitTask, Idle
<1>2. ExitTask(TasksOf(f)[t])
  BY <1>1, FrameFacts DEF Local, Placed
<1>3. Kind(TasksOf(f)[t]) # "parallel_for"
  BY <1>2, Kinds
<1> QED
  BY <1>1, <1>3, ExecuteDone

-----------------------------------------------------------------------------
(* The task in progress *)

(* The frame waits for a task that is no dag: it has no call running.       *)
LEMMA ExecutingAlone ==
  ASSUME IInv, NEW f \in Frames, NEW t, Executing(f, t)
  PROVE  /\ \A i \in Nat : Call(f, t, i) \notin Frames
         /\ \A u \in STRING, i \in Nat : Call(f, u, i) \in Frames => ~Active(Call(f, u, i))
         /\ Kind(TasksOf(f)[t]) # "parallel_for" /\ t = frame[f].cur /\ t # NoTask /\ Active(f)
         /\ t \in DOMAIN TasksOf(f) /\ t \in STRING
<1>1. /\ Task(f, t) = TasksOf(f)[t] /\ Good(TasksOf(f), Components) /\ Local(frame[f], TasksOf(f))
  BY FrameFacts
<1>2. t = frame[f].cur /\ t # NoTask /\ Active(f) /\ TasksOf(f)[t].comp \notin Components
  BY <1>1 DEF Executing, Nested
<1>3. t \in DOMAIN TasksOf(f) /\ t \in STRING
  BY <1>1, <1>2 DEF Local, Placed, Good
<1>4. Kind(TasksOf(f)[t]) # "parallel_for"
  BY <1>1, <1>2, <1>3, Kinds DEF Good
<1>5. \A u \in STRING, i \in Nat : Call(f, u, i) \in Frames =>
         Called(frame[f], TasksOf(f), Components, frame[Call(f, u, i)].ret.k, u, i)
  BY DEF IInv, Tree
<1>6. \A i \in Nat : Call(f, t, i) \notin Frames
  BY <1>2, <1>3, <1>5 DEF Called
<1>7. \A u \in STRING, i \in Nat : Call(f, u, i) \in Frames => ~Active(Call(f, u, i))
  BY <1>2, <1>5 DEF Called, Active
<1> QED
  BY <1>2, <1>3, <1>4, <1>6, <1>7

(* The task in progress succeeds or fails, and its calls have returned as   *)
(* the outcome says.                                                        *)
LEMMA SettleDone ==
  ASSUME IInv, NEW f \in Frames, Active(f), frame[f].cur # NoTask, NEW v,
         TaskFails(f, frame[f].cur) \/ TaskSucceeds(f, frame[f].cur, v), frame[f].loop.n = 0,
         UNCHANGED <<pipeline, runner, result, workspace>>,
         \/ broken' = broken
         \/ broken' = broken \cup {<<f, frame[f].cur>>} /\ (runner = "docker" \/ TaskFails(f, frame[f].cur)),
         \A i \in Nat : Call(f, frame[f].cur, i) \in Frames =>
            /\ ~Active(Call(f, frame[f].cur, i))
            /\ frame[Call(f, frame[f].cur, i)].ret.k = "SUCCESS" \/ TaskFails(f, frame[f].cur)
  PROVE  Done(f)
<1> DEFINE fr == frame[f]
           ts == TasksOf(f)
           t == fr.cur
           bad == [fr EXCEPT !.cur = NoTask, !.failed = @ \cup {t}, !.st = Put(@, t, "FAILED")]
           good == [fr EXCEPT !.cur = NoTask, !.st = Put(@, t, "SUCCEEDED"),
                              !.out = IF v = Missing THEN @ ELSE Put(@, t, v)]
<1>1. Shape(fr) /\ Local(fr, ts) /\ Good(ts, Components) /\ fr.ret.k = "none" /\ t \in STRING
  BY FrameFacts DEF Active, Shape
<1>2. ASSUME NEW k, NEW u \in STRING, NEW i \in Nat, Call(f, u, i) \in Frames, k = frame[Call(f, u, i)].ret.k,
             Called(fr, ts, Components, k, u, i)
      PROVE  u = t => k # "none" /\ (k = "SUCCESS" \/ TaskFails(f, t))
  BY <1>2 DEF Active
<1>3. CASE TaskFails(f, t)
  <2>1. /\ Shape(bad) /\ bad.comp = fr.comp /\ bad.todo = fr.todo /\ bad.exits = fr.exits /\ bad.cur = NoTask
        /\ bad.saw = fr.saw /\ bad.failed = fr.failed \cup {t} /\ bad.st = Put(fr.st, t, "FAILED")
        /\ bad.loop = fr.loop /\ bad.ret = fr.ret
    BY <1>1 DEF Shape
  <2>2. Update(f, bad)
    BY <1>3 DEF TaskFails
  <2> HIDE DEF bad
  <2>3. t \notin fr.failed
    BY <1>1 DEF Local, Recorded, Settled
  <2>4. /\ Local(bad, ts) /\ Progress(fr, bad, ts)
        /\ \A k, u, i : /\ Called(fr, ts, Components, k, u, i)
                        /\ u = t => k # "none" /\ (bad.failed = fr.failed => k = "SUCCESS")
                        => Called(bad, ts, Components, k, u, i)
    BY <1>1, <2>1, Settle
  <2>5. bad.failed # fr.failed
    BY <2>1, <2>3
  <2> QED
    BY <1>2, <2>1, <2>2, <2>4, <2>5, UpdateDone
<1>4. CASE TaskSucceeds(f, t, v) /\ ~TaskFails(f, t)
  <2>1. /\ Shape(good) /\ good.comp = fr.comp /\ good.todo = fr.todo /\ good.exits = fr.exits /\ good.cur = NoTask
        /\ good.saw = fr.saw /\ good.failed = fr.failed /\ good.st = Put(fr.st, t, "SUCCEEDED")
        /\ good.loop = fr.loop /\ good.ret = fr.ret
    BY <1>1 DEF Shape
  <2>2. Update(f, good)
    BY <1>4 DEF TaskSucceeds
  <2> HIDE DEF good
  <2>3. /\ Local(good, ts) /\ Progress(fr, good, ts)
        /\ \A k, u, i : /\ Called(fr, ts, Components, k, u, i)
                        /\ u = t => k # "none" /\ (good.failed = fr.failed => k = "SUCCESS")
                        => Called(good, ts, Components, k, u, i)
    BY <1>1, <2>1, Settle
  <2>4. runner = "subprocess" => broken' = broken
    BY <1>4
  <2> QED
    BY <1>2, <1>4, <2>1, <2>2, <2>3, <2>4, UpdateDone
<1> QED
  BY <1>3, <1>4

LEMMA AttemptSucceedsDone == ASSUME IInv, NEW f \in Frames, NEW t, AttemptSucceeds(f, t) PROVE Done(f)
<1>1. Executing(f, t) /\ Quiet
  BY DEF AttemptSucceeds
<1>2. PICK v : TaskSucceeds(f, t, v)
  BY DEF AttemptSucceeds
<1>3. /\ \A i \in Nat : Call(f, t, i) \notin Frames
      /\ Kind(TasksOf(f)[t]) # "parallel_for" /\ t = frame[f].cur /\ t # NoTask /\ Active(f)
  BY <1>1, ExecutingAlone
<1>4. frame[f].loop.n = 0
  BY <1>3, FrameFacts DEF Local, LoopOK
<1> QED
  BY <1>1, <1>2, <1>3, <1>4, SettleDone DEF Quiet

LEMMA ExitCodeLostDone == ASSUME IInv, NEW f \in Frames, NEW t, ExitCodeLost(f, t) PROVE Done(f)
<1>1. Executing(f, t) /\ runner = "docker" /\ TaskSucceeds(f, t, Missing) /\ broken' = broken \cup {<<f, t>>}
      /\ UNCHANGED <<pipeline, runner, result, workspace>>
  BY DEF ExitCodeLost
<1>2. /\ \A i \in Nat : Call(f, t, i) \notin Frames
      /\ Kind(TasksOf(f)[t]) # "parallel_for" /\ t = frame[f].cur /\ t # NoTask /\ Active(f)
  BY <1>1, ExecutingAlone
<1>3. frame[f].loop.n = 0
  BY <1>2, FrameFacts DEF Local, LoopOK
<1> QED
  BY <1>1, <1>2, <1>3, SettleDone

LEMMA AttemptFailsDone == ASSUME IInv, NEW f \in Frames, NEW t, AttemptFails(f, t) PROVE Done(f)
<1> DEFINE fr == frame[f]
           ts == TasksOf(f)
           new == [fr EXCEPT !.att = @ + 1]
<1>1. Executing(f, t) /\ UNCHANGED <<pipeline, runner, result, workspace>>
  BY DEF AttemptFails
<1>2. /\ \A i \in Nat : Call(f, t, i) \notin Frames
      /\ Kind(ts[t]) # "parallel_for" /\ t = fr.cur /\ t # NoTask /\ Active(f)
  BY <1>1, ExecutingAlone
<1>3. fr.loop.n = 0 /\ Shape(fr) /\ Local(fr, ts)
  BY <1>2, FrameFacts DEF Local, LoopOK
<1>4. CASE Update(f, new) /\ UNCHANGED broken
  <2>1. /\ Shape(new) /\ new.comp = fr.comp /\ new.todo = fr.todo /\ new.exits = fr.exits /\ new.cur = fr.cur
        /\ new.saw = fr.saw /\ new.failed = fr.failed /\ new.st = fr.st
        /\ new.loop = fr.loop /\ new.ret = fr.ret
    BY <1>3 DEF Shape
  <2> HIDE DEF new
  <2>2. LoopOK(new, ts) /\ ReturnOK(new)
    BY <1>3, <2>1 DEF Local, LoopOK, ReturnOK
  <2>3. Local(new, ts) /\ SameStates(fr, new, ts)
    BY <1>3, <2>1, <2>2, Stay
  <2>4. Progress(fr, new, ts)
    BY <2>1, <2>3 DEF Progress
  <2>5. \A k, u, i : Called(fr, ts, Components, k, u, i) => Called(new, ts, Components, k, u, i)
    BY <2>1 DEF Called, Waiting
  <2> QED
    BY <1>1, <1>2, <1>4, <2>1, <2>3, <2>4, <2>5, UpdateDone
<1>5. CASE TaskFails(f, t) /\ broken' = broken \cup {<<f, t>>}
  BY <1>1, <1>2, <1>3, <1>5, SettleDone
<1> QED
  BY <1>4, <1>5 DEF AttemptFails

LEMMA AttemptRaisesDone == ASSUME IInv, NEW f \in Frames, NEW t, AttemptRaises(f, t) PROVE Done(f)
BY ExecutingAlone, RaiseDone DEF AttemptRaises

LEMMA NestedReturnsDone == ASSUME IInv, NEW f \in Frames, NEW t, NestedReturns(f, t) PROVE Done(f)
<1> DEFINE fr == frame[f]
           ts == TasksOf(f)
           c == Call(f, t, 0)
           k == frame[c].ret.k
<1>1. /\ Active(f) /\ fr.cur = t /\ t # NoTask /\ c \in Frames /\ ~Active(c) /\ Quiet
      /\ k = "raised" => Raise(f)
      /\ k = "FAILURE" => TaskFails(f, t)
      /\ k \notin {"raised", "FAILURE"} => TaskSucceeds(f, t, frame[c].ret.out)
  BY DEF NestedReturns, Call
<1>2. Local(fr, ts) /\ t \in STRING /\ Shape(frame[c]) /\ k \in Outcomes
  BY <1>1, FrameFacts DEF Shape
<1>3. \A u \in STRING, i \in Nat : Call(f, u, i) \in Frames =>
         Called(fr, ts, Components, frame[Call(f, u, i)].ret.k, u, i)
  BY DEF IInv, Tree
<1>4. Called(fr, ts, Components, k, t, 0)
  BY <1>1, <1>2, <1>3
<1>5. fr.loop.n = 0
  <2>1. fr.loop.n \in Nat /\ ~(0 \in 1 .. fr.loop.next - 1)
    BY FrameFacts DEF Shape, Loops
  <2> QED
    BY <1>1, <1>4, <2>1 DEF Called
<1>6. \A i \in Nat : Call(f, t, i) \in Frames => i = 0
  BY <1>1, <1>2, <1>3, <1>5 DEF Called
<1>7. CASE k = "raised"
  <2>1. \A u \in STRING, i \in Nat : Call(f, u, i) \in Frames => ~Active(Call(f, u, i))
    BY <1>1, <1>3, <1>6 DEF Called, Active
  <2> QED
    BY <1>1, <1>7, <2>1, RaiseDone
<1>8. CASE k = "FAILURE"
  BY <1>1, <1>5, <1>6, <1>8, SettleDone DEF Quiet
<1>9. CASE k \notin {"raised", "FAILURE"}
  <2>1. k = "SUCCESS"
    BY <1>1, <1>2, <1>9 DEF Outcomes, Active
  <2> QED
    BY <1>1, <1>5, <1>6, <1>9, <2>1, SettleDone DEF Quiet
<1> QED
  BY <1>7, <1>8, <1>9

-----------------------------------------------------------------------------
(* Loops *)

LEMMA BeginLoopDone == ASSUME IInv, NEW f \in Frames, NEW t, BeginLoop(f, t) PROVE Done(f)
<1> DEFINE fr == frame[f]
           ts == TasksOf(f)
           skip == [fr EXCEPT !.todo = @ \ {t}]
           Begun(n) == [fr EXCEPT !.todo = @ \ {t}, !.cur = IF n = 0 THEN NoTask ELSE t,
                                  !.loop = [NoLoop EXCEPT !.n = n]]
<1>1. Shape(fr) /\ Local(fr, ts) /\ Good(ts, Components) /\ Task(f, t) = ts[t]
  BY FrameFacts
<1>2. /\ fr.cur = NoTask /\ Active(f) /\ t \in fr.todo /\ ts[t].deps \cap fr.todo = {}
      /\ ts[t].deps \cap fr.failed = {} \/ ts[t].strategy = "all_completed"
      /\ Kind(ts[t]) = "parallel_for" /\ Quiet
  BY <1>1 DEF BeginLoop, Idle, Ready, Gated, FailedDeps
<1>3. \/ Raise(f)
      \/ Update(f, skip)
      \/ \E n \in 0 .. ts[t].iter.max : Update(f, Begun(n))
  BY <1>1 DEF BeginLoop
<1>4. fr.loop.n = 0 /\ fr.ret.k = "none" /\ t \in DOMAIN ts /\ t \in STRING /\ t # NoTask /\ t \notin fr.exits
  BY <1>1, <1>2 DEF Local, LoopOK, Active, Placed, Good
<1>5. CASE Raise(f)
  BY <1>2, <1>5, RaiseDone, IdleAlone
<1>6. CASE Update(f, skip)
  <2>1. /\ Shape(skip) /\ skip.comp = fr.comp /\ skip.todo = fr.todo \ {t} /\ skip.exits = fr.exits
        /\ skip.cur = fr.cur /\ skip.saw = fr.saw /\ skip.failed = fr.failed /\ skip.st = fr.st
        /\ skip.loop = fr.loop /\ skip.ret = fr.ret
    BY <1>1, <1>2 DEF Shape
  <2> HIDE DEF skip
  <2>2. /\ Local(skip, ts) /\ Progress(fr, skip, ts)
        /\ \A k, u, i : Called(fr, ts, Components, k, u, i) => Called(skip, ts, Components, k, u, i)
    BY <1>1, <1>2, <1>4, <2>1, PassOver
  <2> QED
    BY <1>2, <1>6, <2>1, <2>2, UpdateDone DEF Quiet
<1>7. ASSUME NEW n \in 0 .. ts[t].iter.max, Update(f, Begun(n)) PROVE Done(f)
  <2> DEFINE new == Begun(n)
             l == [NoLoop EXCEPT !.n = n]
             cur == IF n = 0 THEN NoTask ELSE t
  <2>1. n \in Nat
    BY <1>1, <1>4 DEF Good
  <2>2. l \in Loops /\ l.n = n /\ l.next = 1 /\ l.raised = {} /\ l.got = {}
    BY <2>1 DEF NoLoop, Loops
  <2> HIDE DEF l, cur
  <2>3. /\ Shape(new) /\ new.comp = fr.comp /\ new.todo = fr.todo \ {t} /\ new.exits = fr.exits
        /\ new.cur = cur /\ new.saw = fr.saw /\ new.failed = fr.failed /\ new.st = fr.st
        /\ new.loop = l /\ new.ret = fr.ret
    <3>1. new = [fr EXCEPT !.todo = @ \ {t}, !.cur = cur, !.loop = l]
      BY DEF l, cur
    <3>2. cur \in STRING \cup {NoTask}
      BY <1>4 DEF cur
    <3> HIDE DEF new
    <3> QED
      BY <1>1, <1>2, <2>2, <3>1, <3>2 DEF Shape
  <2>4. Update(f, new)
    BY <1>7
  <2> HIDE DEF new
  <2>5. /\ Local(new, ts) /\ Progress(fr, new, ts)
        /\ \A k, u, i : Called(fr, ts, Components, k, u, i) => Called(new, ts, Components, k, u, i)
    <3>1. CASE n = 0
      <4>1. new.cur = NoTask /\ new.loop.n = 0
        BY <2>2, <2>3, <3>1 DEF cur
      <4> QED
        BY <1>1, <1>2, <1>4, <2>3, <4>1, PassOver
    <3>2. CASE n # 0
      <4>1. new.cur = t /\ new.exits = fr.exits \ {t} /\ t \in Waiting(fr)
        BY <1>2, <1>4, <2>3, <3>2 DEF cur, Waiting
      <4>2. LoopOK(new, ts)
        BY <1>2, <1>4, <2>1, <2>2, <2>3, <3>2, <4>1 DEF LoopOK
      <4> QED
        BY <1>1, <1>2, <1>4, <2>3, <4>1, <4>2, TakeUp
    <3> QED
      BY <3>1, <3>2
  <2> QED
    BY <1>2, <2>3, <2>4, <2>5, UpdateDone DEF Quiet
<1> QED
  BY <1>3, <1>5, <1>6, <1>7

(* A frame in the middle of its loop.                                       *)
LEMMA LoopingFacts ==
  ASSUME IInv, NEW f \in Frames, NEW t, Looping(f, t)
  PROVE  LET L == frame[f].loop IN
         /\ Active(f) /\ frame[f].cur = t /\ t # NoTask /\ t \in DOMAIN TasksOf(f) /\ t \in STRING
         /\ Kind(TasksOf(f)[t]) = "parallel_for" /\ TasksOf(f)[t].comp \in Components
         /\ L \in Loops /\ L.n \in Nat \ {0} /\ L.next \in 1 .. L.n + 1 /\ L.next \in Nat
         /\ L.raised \subseteq 1 .. L.next - 1 /\ L.got \subseteq 1 .. L.next - 1
<1> DEFINE L == frame[f].loop
<1>1. Shape(frame[f]) /\ Local(frame[f], TasksOf(f)) /\ Good(TasksOf(f), Components)
  BY FrameFacts
<1>2. Active(f) /\ frame[f].cur = t /\ t # NoTask /\ L.n > 0 /\ L \in Loops
  BY <1>1 DEF Looping, Shape
<1>3. t \in DOMAIN TasksOf(f) /\ t \in STRING
  BY <1>1, <1>2 DEF Local, Placed, Good
<1>4. L.n \in Nat \ {0} /\ L.next \in Nat
  BY <1>2 DEF Loops
<1>5. /\ Kind(TasksOf(f)[t]) = "parallel_for" /\ L.next \in 1 .. L.n + 1
      /\ L.raised \subseteq 1 .. L.next - 1 /\ L.got \subseteq 1 .. L.next - 1
  BY <1>1, <1>2, <1>4 DEF Local, LoopOK
<1>6. TasksOf(f)[t].comp \in Components
  BY <1>1, <1>3, <1>5, Kinds DEF Good
<1> QED
  BY <1>2, <1>3, <1>4, <1>5, <1>6

(* The loop goes on: nothing but its record changes.                        *)
LEMMA LoopOn ==
  ASSUME IInv, NEW f \in Frames, NEW t, Looping(f, t), NEW l \in Loops,
         l.n = frame[f].loop.n, l.next \in 1 .. l.n + 1, l.next >= frame[f].loop.next,
         l.raised \subseteq 1 .. l.next - 1, l.got \subseteq 1 .. l.next - 1
  PROVE  LET fr == frame[f]
             ts == TasksOf(f)
             new == [fr EXCEPT !.loop = l]
         IN /\ Shape(new) /\ new.comp = fr.comp /\ new.todo = fr.todo /\ new.exits = fr.exits
            /\ new.cur = t /\ new.saw = fr.saw /\ new.failed = fr.failed /\ new.st = fr.st
            /\ new.loop = l /\ new.ret = fr.ret
            /\ Local(new, ts) /\ Progress(fr, new, ts)
            /\ \A k, u, i : /\ Called(fr, ts, Components, k, u, i)
                            /\ u = t /\ i \notin fr.loop.raised => i \notin l.raised
                            /\ u = t /\ i \in l.got => i \in fr.loop.got \/ k = "SUCCESS"
                            => Called(new, ts, Components, k, u, i)
<1> DEFINE fr == frame[f]
           ts == TasksOf(f)
           new == [fr EXCEPT !.loop = l]
<1>1. Shape(fr) /\ Local(fr, ts)
  BY FrameFacts
<1>2. /\ Active(f) /\ fr.cur = t /\ t # NoTask /\ Kind(ts[t]) = "parallel_for"
      /\ fr.loop \in Loops /\ fr.loop.n \in Nat \ {0} /\ fr.loop.next \in Nat
  BY LoopingFacts
<1>3. /\ Shape(new) /\ new.comp = fr.comp /\ new.todo = fr.todo /\ new.exits = fr.exits
      /\ new.cur = t /\ new.saw = fr.saw /\ new.failed = fr.failed /\ new.st = fr.st
      /\ new.loop = l /\ new.ret = fr.ret
  BY <1>1, <1>2 DEF Shape
<1> HIDE DEF new
<1>4. LoopOK(new, ts) /\ ReturnOK(new)
  BY <1>1, <1>2, <1>3 DEF Local, LoopOK, ReturnOK
<1>5. Local(new, ts) /\ SameStates(fr, new, ts)
  BY <1>1, <1>2, <1>3, <1>4, Stay
<1>6. Progress(fr, new, ts)
  BY <1>3, <1>5 DEF Progress
<1>7. ASSUME NEW k, NEW u, NEW i, Called(fr, ts, Components, k, u, i),
             u = t /\ i \notin fr.loop.raised => i \notin l.raised,
             u = t /\ i \in l.got => i \in fr.loop.got \/ k = "SUCCESS"
      PROVE  Called(new, ts, Components, k, u, i)
  <2>1. l.next \in Nat /\ Waiting(new) = Waiting(fr)
    BY <1>3 DEF Loops, Waiting
  <2>2. CASE u = t
    <3>1. i \in 1 .. fr.loop.next - 1 /\ i \notin fr.loop.raised /\ (i \in fr.loop.got => k = "SUCCESS")
      BY <1>2, <1>7, <2>2 DEF Called
    <3>2. i \in 1 .. l.next - 1
      BY <1>2, <2>1, <3>1
    <3>3. i \in l.got => k = "SUCCESS"
      BY <1>7, <2>2, <3>1
    <3> QED
      BY <1>2, <1>3, <1>7, <2>1, <2>2, <3>1, <3>2, <3>3 DEF Called
  <2>3. CASE u # t
    BY <1>2, <1>3, <1>7, <2>1, <2>3 DEF Called
  <2> QED
    BY <2>2, <2>3
<1> QED
  BY <1>3, <1>5, <1>6, <1>7 DEF new

LEMMA IterationStartsDone == ASSUME IInv, NEW f \in Frames, NEW t, IterationStarts(f, t) PROVE Done(f)
<1> DEFINE fr == frame[f]
           ts == TasksOf(f)
           L == fr.loop
           ran == [L EXCEPT !.next = @ + 1]
           bad == [L EXCEPT !.next = @ + 1, !.raised = @ \cup {L.next}]
           ins == build_nested_dag_arguments(f, ts[t], Item(f, t, L.next))
<1>1. Looping(f, t) /\ L.next <= L.n /\ Quiet /\ Task(f, t) = ts[t] /\ Shape(fr)
  BY FrameFacts DEF IterationStarts, Queued
<1>2. /\ Active(f) /\ fr.cur = t /\ t # NoTask /\ t \in DOMAIN ts /\ t \in STRING
      /\ ts[t].comp \in Components /\ L \in Loops /\ L.n \in Nat \ {0} /\ L.next \in 1 .. L.n + 1 /\ L.next \in Nat
      /\ L.raised \subseteq 1 .. L.next - 1 /\ L.got \subseteq 1 .. L.next - 1
  BY <1>1, LoopingFacts
<1>3. \/ Update(f, [fr EXCEPT !.loop = bad])
      \/ frame' = Put([frame EXCEPT ![f] = [fr EXCEPT !.loop = ran]], Call(f, t, L.next),
                      NewFrame(ts[t].comp, ins))
  <2>1. [fr EXCEPT !.loop.next = @ + 1, !.loop.raised = @ \cup {L.next}] = [fr EXCEPT !.loop = bad]
    BY <1>1 DEF Shape, Loops
  <2>2. [frame EXCEPT ![f].loop.next = @ + 1] = [frame EXCEPT ![f] = [fr EXCEPT !.loop = ran]]
    BY <1>1
  <2> HIDE DEF bad, ran
  <2> QED
    BY <1>1, <2>1, <2>2 DEF IterationStarts, Iteration, Call
<1>4. /\ bad \in Loops /\ bad.n = L.n /\ bad.next = L.next + 1 /\ bad.raised = L.raised \cup {L.next}
      /\ bad.got = L.got
  <2>1. L.next + 1 \in Nat /\ L.raised \cup {L.next} \in SUBSET Nat
    BY <1>2 DEF Loops
  <2> DEFINE r == L.raised \cup {L.next}
             m == L.next + 1
  <2>2. bad = [L EXCEPT !.next = m, !.raised = r]
    OBVIOUS
  <2> HIDE DEF r, m, bad
  <2>3. bad \in Loops /\ bad.n = L.n /\ bad.next = m /\ bad.raised = r /\ bad.got = L.got
    BY <1>2, <2>1, <2>2 DEF Loops, r, m
  <2> QED
    BY <2>3 DEF r, m
<1>5. ran \in Loops /\ ran.n = L.n /\ ran.next = L.next + 1 /\ ran.raised = L.raised /\ ran.got = L.got
  BY <1>2 DEF Loops
<1>6. ASSUME NEW k, NEW i, Called(fr, ts, Components, k, t, i) PROVE i \in 1 .. L.next - 1
  BY <1>2, <1>6 DEF Called
<1> HIDE DEF bad, ran
<1>7. CASE Update(f, [fr EXCEPT !.loop = bad])
  <2> DEFINE new == [fr EXCEPT !.loop = bad]
  <2>1. bad.next \in 1 .. bad.n + 1 /\ bad.next >= L.next /\ bad.raised \subseteq 1 .. bad.next - 1
        /\ bad.got \subseteq 1 .. bad.next - 1
    BY <1>1, <1>2, <1>4
  <2>2. /\ Shape(new) /\ new.comp = fr.comp /\ new.failed = fr.failed
        /\ Local(new, ts) /\ Progress(fr, new, ts)
        /\ \A k, u, i : /\ Called(fr, ts, Components, k, u, i)
                        /\ u = t /\ i \notin L.raised => i \notin bad.raised
                        /\ u = t /\ i \in bad.got => i \in L.got \/ k = "SUCCESS"
                        => Called(new, ts, Components, k, u, i)
    BY <1>1, <1>4, <2>1, LoopOn
  <2>3. Update(f, new)
    BY <1>7
  <2> HIDE DEF new
  <2>4. ASSUME NEW k, NEW u, NEW i, Called(fr, ts, Components, k, u, i) PROVE Called(new, ts, Components, k, u, i)
    <3>1. u = t => i \in 1 .. L.next - 1 /\ i # L.next
      BY <1>2, <1>6, <2>4
    <3> QED
      BY <1>4, <2>2, <2>4, <3>1
  <2> QED
    BY <1>1, <1>2, <2>2, <2>3, <2>4, UpdateDone DEF Quiet
<1>8. CASE frame' = Put([frame EXCEPT ![f] = [fr EXCEPT !.loop = ran]], Call(f, t, L.next),
                        NewFrame(ts[t].comp, ins))
  <2> DEFINE new == [fr EXCEPT !.loop = ran]
  <2>1. ran.next \in 1 .. ran.n + 1 /\ ran.next >= L.next /\ ran.raised \subseteq 1 .. ran.next - 1
        /\ ran.got \subseteq 1 .. ran.next - 1
    BY <1>1, <1>2, <1>5
  <2>2. /\ Shape(new) /\ new.comp = fr.comp /\ new.todo = fr.todo /\ new.exits = fr.exits
        /\ new.cur = t /\ new.failed = fr.failed /\ new.loop = ran /\ new.ret = fr.ret
        /\ Local(new, ts) /\ Progress(fr, new, ts)
        /\ \A k, u, i : /\ Called(fr, ts, Components, k, u, i)
                        /\ u = t /\ i \notin L.raised => i \notin ran.raised
                        /\ u = t /\ i \in ran.got => i \in L.got \/ k = "SUCCESS"
                        => Called(new, ts, Components, k, u, i)
    BY <1>1, <1>5, <2>1, LoopOn
  <2>3. frame' = Put([frame EXCEPT ![f] = new], Call(f, t, L.next), NewFrame(ts[t].comp, ins))
    BY <1>8
  <2> HIDE DEF new, ins
  <2>4. \A k, u, i : Called(fr, ts, Components, k, u, i) => Called(new, ts, Components, k, u, i)
    BY <1>5, <2>2
  <2>5. Call(f, t, L.next) \notin Frames
    <3>1. ~(L.next \in 1 .. L.next - 1)
      BY <1>2
    <3> QED
      BY <1>2, <1>6, <3>1 DEF IInv, Tree
  <2>6. fr.ret.k = "none" /\ t \notin Waiting(fr)
    BY <1>2, FrameFacts DEF Active, Local, Placed
  <2>7. Called(new, ts, Components, "none", t, L.next)
    <3>1. L.next \in 1 .. ran.next - 1 /\ L.next \notin ran.raised /\ L.next \notin ran.got /\ ran.n # 0
      BY <1>2, <1>5
    <3> QED
      BY <1>2, <2>2, <2>6, <3>1 DEF Called, Waiting
  <2> QED
    BY <1>1, <1>2, <2>2, <2>3, <2>4, <2>5, <2>6, <2>7, SpawnDone
<1> QED
  BY <1>3, <1>7, <1>8

LEMMA CollectIterationDone == ASSUME IInv, NEW f \in Frames, NEW t, CollectIteration(f, t) PROVE Done(f)
<1> DEFINE fr == frame[f]
           ts == TasksOf(f)
           L == fr.loop
           bad == [L EXCEPT !.bad = TRUE]
           Got(i) == [L EXCEPT !.got = @ \cup {i}]
<1>1. Looping(f, t) /\ Quiet /\ Shape(fr)
  BY FrameFacts DEF CollectIteration
<1>2. PICK i \in 1 .. L.next - 1 :
        \/ Update(f, [fr EXCEPT !.loop.got = @ \cup {i}]) /\ IterationOk(f, t, i)
        \/ Update(f, [fr EXCEPT !.loop.bad = TRUE])
  BY DEF CollectIteration
<1>3. /\ Active(f) /\ L \in Loops /\ L.n \in Nat \ {0} /\ L.next \in 1 .. L.n + 1 /\ L.next \in Nat
      /\ L.raised \subseteq 1 .. L.next - 1 /\ L.got \subseteq 1 .. L.next - 1
  BY <1>1, LoopingFacts
<1>4. ASSUME NEW l \in Loops, l.n = L.n, l.next = L.next, l.raised = L.raised, l.got \subseteq 1 .. L.next - 1,
             Update(f, [fr EXCEPT !.loop = l]),
             \A j \in l.got : j \in L.got \/ frame[Call(f, t, j)].ret.k = "SUCCESS"
      PROVE  Done(f)
  <2> DEFINE new == [fr EXCEPT !.loop = l]
  <2>1. l.next \in 1 .. l.n + 1 /\ l.next >= L.next /\ l.raised \subseteq 1 .. l.next - 1
    BY <1>3, <1>4
  <2>2. /\ Shape(new) /\ new.comp = fr.comp /\ new.failed = fr.failed
        /\ Local(new, ts) /\ Progress(fr, new, ts)
        /\ \A k, u, j : /\ Called(fr, ts, Components, k, u, j)
                        /\ u = t /\ j \notin L.raised => j \notin l.raised
                        /\ u = t /\ j \in l.got => j \in L.got \/ k = "SUCCESS"
                        => Called(new, ts, Components, k, u, j)
    BY <1>1, <1>4, <2>1, LoopOn
  <2>3. Update(f, new)
    BY <1>4
  <2> HIDE DEF new
  <2> QED
    BY <1>1, <1>3, <1>4, <2>2, <2>3, UpdateDone DEF Quiet
<1>5. CASE Update(f, [fr EXCEPT !.loop.got = @ \cup {i}]) /\ IterationOk(f, t, i)
  <2>1. [fr EXCEPT !.loop.got = @ \cup {i}] = [fr EXCEPT !.loop = Got(i)]
    BY <1>1
  <2> DEFINE g == L.got \cup {i}
             l == Got(i)
  <2>2. g \subseteq 1 .. L.next - 1 /\ g \in SUBSET Nat
    BY <1>3
  <2>3. l = [L EXCEPT !.got = g]
    OBVIOUS
  <2> HIDE DEF g, l
  <2>4. l \in Loops /\ l.n = L.n /\ l.next = L.next /\ l.raised = L.raised /\ l.got = g
    BY <1>3, <2>2, <2>3 DEF Loops
  <2>5. \A j \in l.got : j \in L.got \/ frame[Call(f, t, j)].ret.k = "SUCCESS"
    BY <1>5, <2>4 DEF g, IterationOk, Iteration, Call
  <2>6. Update(f, [fr EXCEPT !.loop = l])
    BY <1>5, <2>1 DEF l
  <2> QED
    BY <1>4, <2>2, <2>4, <2>5, <2>6
<1>6. CASE Update(f, [fr EXCEPT !.loop.bad = TRUE])
  <2>1. [fr EXCEPT !.loop.bad = TRUE] = [fr EXCEPT !.loop = bad]
    BY <1>1
  <2>2. bad \in Loops /\ bad.n = L.n /\ bad.next = L.next /\ bad.raised = L.raised /\ bad.got = L.got
    BY <1>3 DEF Loops
  <2> HIDE DEF bad
  <2> QED
    BY <1>3, <1>4, <1>6, <2>1, <2>2
<1> QED
  BY <1>2, <1>5, <1>6

LEMMA EndLoopDone == ASSUME IInv, NEW f \in Frames, NEW t, EndLoop(f, t) PROVE Done(f)
<1> DEFINE fr == frame[f]
           ts == TasksOf(f)
           L == fr.loop
           v == Value(f, t, 0, TRUE, Aggregate(f, t))
           bad == [fr EXCEPT !.cur = NoTask, !.loop = NoLoop, !.failed = @ \cup {t}]
           Good2(o) == [fr EXCEPT !.cur = NoTask, !.loop = NoLoop, !.st = Put(@, t, "SUCCEEDED"), !.out = o]
<1>1. Looping(f, t) /\ Quiet /\ Shape(fr) /\ Local(fr, ts) /\ Good(ts, Components)
      /\ (L.bad \/ L.got = 1 .. L.n) /\ PoolShutDown(f, t)
  BY FrameFacts DEF EndLoop
<1>2. /\ Active(f) /\ fr.ret.k = "none" /\ fr.cur = t /\ t # NoTask /\ t \in STRING /\ Kind(ts[t]) = "parallel_for"
      /\ L \in Loops /\ L.n \in Nat \ {0} /\ L.next \in 1 .. L.n + 1 /\ L.next \in Nat
  BY <1>1, LoopingFacts DEF Active
<1>3. ASSUME NEW i \in Nat, Call(f, t, i) \in Frames
      PROVE  /\ Called(fr, ts, Components, frame[Call(f, t, i)].ret.k, t, i)
             /\ frame[Call(f, t, i)].ret.k # "none" /\ i \in 1 .. L.n
             /\ i \in L.got => frame[Call(f, t, i)].ret.k = "SUCCESS"
  <2>1. Called(fr, ts, Components, frame[Call(f, t, i)].ret.k, t, i)
    BY <1>2, <1>3 DEF IInv, Tree
  <2>2. /\ i \in 1 .. L.next - 1 /\ i \notin L.raised
        /\ i \in L.got => frame[Call(f, t, i)].ret.k = "SUCCESS"
    BY <1>2, <2>1 DEF Called
  <2>3. i \in 1 .. L.n
    BY <1>2, <2>2
  <2>4. IterationEnded(f, t, i)
    BY <1>1, <2>3 DEF PoolShutDown
  <2> QED
    BY <2>1, <2>2, <2>3, <2>4 DEF IterationEnded, Iteration, Call, Active
<1>4. \/ Update(f, bad)
      \/ L.got = 1 .. L.n /\ \E o : Update(f, Good2(o))
  <2>1. CASE L.bad
    <3>1. Update(f, [[fr EXCEPT !.cur = NoTask, !.loop = NoLoop] EXCEPT !.failed = @ \cup {t}])
      BY <2>1 DEF EndLoop
    <3>2. [[fr EXCEPT !.cur = NoTask, !.loop = NoLoop] EXCEPT !.failed = @ \cup {t}] = bad
      BY <1>1 DEF Shape
    <3>3. Update(f, bad)
      BY <3>1, <3>2
    <3> HIDE DEF bad, Good2
    <3> QED
      BY <3>3
  <2>2. CASE ~L.bad
    <3> DEFINE done == [fr EXCEPT !.cur = NoTask, !.loop = NoLoop]
               o == IF \A i \in DOMAIN Aggregate(f, t) : Aggregate(f, t)[i] = Missing THEN done.out
                    ELSE Put(done.out, t, v)
    <3>1. Update(f, [done EXCEPT !.st = Put(@, t, "SUCCEEDED"), !.out = o])
      BY <2>2 DEF EndLoop
    <3> HIDE DEF o
    <3>2. [done EXCEPT !.st = Put(@, t, "SUCCEEDED"), !.out = o] = Good2(o)
      BY <1>1 DEF Shape
    <3>3. Update(f, Good2(o))
      BY <3>1, <3>2
    <3>4. L.got = 1 .. L.n
      BY <1>1, <2>2
    <3> HIDE DEF Good2
    <3> QED
      BY <3>3, <3>4
  <2>3. L.bad \in BOOLEAN
    BY <1>2 DEF Loops
  <2> HIDE DEF bad, Good2
  <2> QED
    BY <2>1, <2>2, <2>3
<1>5. NoLoop \in Loops /\ NoLoop.n = 0
  BY DEF NoLoop, Loops
<1>6. CASE Update(f, bad)
  <2>1. /\ Shape(bad) /\ bad.comp = fr.comp /\ bad.todo = fr.todo /\ bad.exits = fr.exits /\ bad.cur = NoTask
        /\ bad.saw = fr.saw /\ bad.failed = fr.failed \cup {t} /\ bad.st = fr.st
        /\ bad.loop = NoLoop /\ bad.ret = fr.ret
    BY <1>1, <1>2, <1>5 DEF Shape
  <2> HIDE DEF bad
  <2>2. bad.failed # fr.failed
    BY <1>1, <1>2, <2>1 DEF Local, Recorded, Settled
  <2>3. /\ Local(bad, ts) /\ Progress(fr, bad, ts)
        /\ \A k, u, i : /\ Called(fr, ts, Components, k, u, i)
                        /\ u = t => k # "none" /\ (bad.failed = fr.failed => k = "SUCCESS")
                        => Called(bad, ts, Components, k, u, i)
    BY <1>1, <1>2, <1>5, <2>1, Settle
  <2> QED
    BY <1>1, <1>2, <1>3, <1>6, <2>1, <2>2, <2>3, UpdateDone DEF Quiet
<1>7. ASSUME L.got = 1 .. L.n, NEW o, Update(f, Good2(o)) PROVE Done(f)
  <2> DEFINE new == Good2(o)
  <2>1. /\ Shape(new) /\ new.comp = fr.comp /\ new.todo = fr.todo /\ new.exits = fr.exits /\ new.cur = NoTask
        /\ new.saw = fr.saw /\ new.failed = fr.failed /\ new.st = Put(fr.st, t, "SUCCEEDED")
        /\ new.loop = NoLoop /\ new.ret = fr.ret
    BY <1>1, <1>2, <1>5 DEF Shape
  <2>2. Update(f, new)
    BY <1>7
  <2> HIDE DEF new
  <2>3. /\ Local(new, ts) /\ Progress(fr, new, ts)
        /\ \A k, u, i : /\ Called(fr, ts, Components, k, u, i)
                        /\ u = t => k # "none" /\ (new.failed = fr.failed => k = "SUCCESS")
                        => Called(new, ts, Components, k, u, i)
    BY <1>1, <1>2, <1>5, <2>1, Settle
  <2> QED
    BY <1>1, <1>2, <1>3, <1>7, <2>1, <2>2, <2>3, UpdateDone DEF Quiet
<1> HIDE DEF bad, Good2
<1> QED
  BY <1>4, <1>6, <1>7

-----------------------------------------------------------------------------
(* The end *)

LEMMA FinishDone == ASSUME IInv, NEW f \in Frames, Finish(f) PROVE Done(f)
<1> DEFINE fr == frame[f]
           ts == TasksOf(f)
           r == IF fr.failed # {} THEN Failure ELSE DagOutputs(f)
           new == [fr EXCEPT !.ret = r]
<1>1. Shape(fr) /\ Local(fr, ts) /\ Good(ts, Components)
  BY FrameFacts
<1>2. /\ Active(f) /\ fr.cur = NoTask /\ Update(f, new) /\ Quiet /\ fr.ret.k = "none"
      /\ fr.failed # {} \/ (fr.todo = {} /\ fr.exits = {})
  BY DEF Finish, Stopped, Active
<1>3. /\ r \in [k : Outcomes, out : {r.out}] /\ r.k # "none"
      /\ IF fr.failed # {} THEN r.k = "FAILURE" ELSE r.k \in {"SUCCESS", "raised"}
  <2>1. Failure \in [k : Outcomes, out : {Failure.out}] /\ Failure.k = "FAILURE"
    BY DEF Failure, Outcomes
  <2>2. DagOutputs(f) \in [k : Outcomes, out : {DagOutputs(f).out}] /\ DagOutputs(f).k \in {"SUCCESS", "raised"}
    <3>1. DagOutputs(f) = Raised \/ \E v : DagOutputs(f) = [k |-> "SUCCESS", out |-> v]
      BY DEF DagOutputs
    <3> QED
      BY <3>1 DEF Raised, Outcomes
  <2> QED
    BY <2>1, <2>2
<1> HIDE DEF r
<1>4. /\ Shape(new) /\ new.comp = fr.comp /\ new.todo = fr.todo /\ new.exits = fr.exits /\ new.cur = fr.cur
      /\ new.saw = fr.saw /\ new.failed = fr.failed /\ new.st = fr.st /\ new.loop = fr.loop /\ new.ret = r
  BY <1>1, <1>3 DEF Shape
<1> HIDE DEF new
<1>5. Local(new, ts) /\ SameStates(fr, new, ts)
  <2>1. LoopOK(new, ts) /\ ReturnOK(new)
    BY <1>1, <1>2, <1>3, <1>4 DEF Local, LoopOK, ReturnOK
  <2> QED
    BY <1>1, <1>4, <2>1, Stay
<1>6. fr.failed = {} => Settled(fr, ts) = DOMAIN ts
  BY <1>1, <1>2 DEF Settled, Waiting, Good
<1>7. Progress(fr, new, ts)
  BY <1>2, <1>3, <1>4, <1>5, <1>6 DEF Progress, Concludes
<1>8. ASSUME NEW t \in STRING, NEW i \in Nat, Call(f, t, i) \in Frames,
             Called(fr, ts, Components, frame[Call(f, t, i)].ret.k, t, i)
      PROVE  Called(new, ts, Components, frame[Call(f, t, i)].ret.k, t, i)
  <2>1. frame[Call(f, t, i)].ret.k # "none"
    BY <1>2, <1>8, IdleAlone DEF Active
  <2> QED
    BY <1>4, <1>8, <2>1 DEF Called, Waiting
<1> QED
  BY <1>2, <1>4, <1>5, <1>7, <1>8, UpdateDone DEF Quiet

LEMMA StepDone == ASSUME IInv, NEW f \in Frames, Step(f) PROVE Done(f)
<1>1. ASSUME NEW t \in frame[f].todo,
             SkipForFailedUpstream(f, t) \/ RunTask(f, t) \/ SkipCondition(f, t) \/ BeginLoop(f, t)
      PROVE  Done(f)
  BY <1>1, SkipForFailedUpstreamDone, RunTaskDone, SkipConditionDone, BeginLoopDone
<1>2. ASSUME NEW t \in frame[f].exits, RunExitTask(f, t) PROVE Done(f)
  BY <1>2, RunExitTaskDone
<1>3. ASSUME NEW t, \/ AttemptSucceeds(f, t) \/ AttemptFails(f, t) \/ ExitCodeLost(f, t) \/ AttemptRaises(f, t)
                    \/ NestedReturns(f, t)
      PROVE  Done(f)
  BY <1>3, AttemptSucceedsDone, AttemptFailsDone, ExitCodeLostDone, AttemptRaisesDone, NestedReturnsDone
<1>4. ASSUME NEW t, IterationStarts(f, t) \/ CollectIteration(f, t) \/ EndLoop(f, t) PROVE Done(f)
  BY <1>4, IterationStartsDone, CollectIterationDone, EndLoopDone
<1> QED
  BY <1>1, <1>2, <1>3, <1>4, FinishDone DEF Step

LEMMA ReturnKeeps == ASSUME IInv, Return PROVE IInv' /\ UNCHANGED <<pipeline, frame>>
<1>1. UNCHANGED <<pipeline, runner, frame, broken>> /\ result' = frame[<<>>].ret.k /\ ~Active(<<>>)
  BY DEF Return
<1>2. Locals' /\ Tree' /\ pipeline' \in Pipelines
  BY <1>1 DEF IInv, Locals, Tree, Frames, TasksOf, DagOf, Components
<1>3. Ending'
  <2>1. result' # "running" => ~Active(<<>>)' /\ result' = frame'[<<>>].ret.k
    BY <1>1 DEF Active
  <2>2. result' # "running"
    <3>1. Shape(frame[<<>>])
      BY DEF IInv, Locals, Tree
    <3> QED
      BY <1>1, <3>1 DEF Shape, Outcomes
  <2> QED
    BY <1>1, <2>1, <2>2 DEF IInv, Ending, Frames
<1> QED
  BY <1>1, <1>2, <1>3 DEF IInv

LEMMA InitIInv == Init => IInv
<1> SUFFICES ASSUME Init PROVE IInv
  OBVIOUS
<1> DEFINE ins == [n \in pipeline.components[pipeline.root].params |-> Default]
           fr == NewFrame(pipeline.root, ins)
<1>1. pipeline \in Pipelines /\ frame = [f \in {<<>>} |-> fr] /\ broken = {} /\ result = "running" /\ workspace = TRUE
  BY DEF Init
<1> HIDE DEF ins
<1>2. pipeline.root \in Components
  BY <1>1, GoodDag DEF Components
<1>3. Shape(fr) /\ fr.comp = pipeline.root /\ Local(fr, pipeline.components[pipeline.root].tasks)
  BY <1>1, <1>2, NewFrameOK
<1> HIDE DEF fr
<1>4. Frames = {<<>>} /\ frame[<<>>] = fr
  BY <1>1 DEF Frames
<1>5. Locals
  BY <1>2, <1>3, <1>4 DEF Locals, TasksOf, DagOf
<1>6. Tree
  <2>1. <<>> \in Paths
    BY DEF Paths
  <2>2. \A t \in STRING, i \in Nat : Call(<<>>, t, i) \notin Frames
    BY <1>4, <2>1, PathFacts
  <2> QED
    BY <1>4, <2>1, <2>2 DEF Tree
<1>7. Ending
  BY <1>1 DEF Ending
<1> QED
  BY <1>1, <1>5, <1>6, <1>7 DEF IInv

LEMMA NextIInv == IInv /\ [Next]_vars => IInv'
<1> SUFFICES ASSUME IInv, [Next]_vars PROVE IInv'
  OBVIOUS
<1>1. ASSUME NEW f \in Frames, Step(f) PROVE IInv'
  BY <1>1, StepDone DEF Done
<1>2. CASE Return
  BY <1>2, ReturnKeeps
<1>3. CASE UNCHANGED vars
  BY <1>3 DEF vars, IInv, Locals, Tree, Ending, Frames, TasksOf, DagOf, Components, Active
<1> QED
  BY <1>1, <1>2, <1>3 DEF Next

(* The inductive invariant of every run of every well-formed pipeline.      *)
THEOREM Invariance == Spec => []IInv
<1> QED
  BY InitIInv, NextIInv, PTL DEF Spec

-----------------------------------------------------------------------------
(* The properties *)

(* A task of any dag is taken up after its upstream tasks, and none that    *)
(* did not opt in to failures succeeds after a failed one.                  *)
THEOREM UpstreamComesFirst == Spec => []UpstreamFirst
<1>1. ASSUME IInv PROVE UpstreamFirst
  <2> SUFFICES ASSUME NEW f \in Frames, NEW t \in DOMAIN TasksOf(f), t \notin Waiting(frame[f])
               PROVE  /\ Task(f, t).deps \cap Waiting(frame[f]) = {}
                      /\ /\ t \in DOMAIN frame[f].st /\ frame[f].st[t] = "SUCCEEDED"
                         /\ Task(f, t).strategy # "all_completed"
                         => Task(f, t).deps \cap frame[f].failed = {}
    BY DEF UpstreamFirst, Waiting, TasksOf
  <2>1. Local(frame[f], TasksOf(f)) /\ Task(f, t) = TasksOf(f)[t]
    BY <1>1, FrameFacts
  <2>2. t \in DOMAIN frame[f].st /\ t \in frame[f].failed => frame[f].st[t] = "FAILED"
    BY <2>1 DEF Local, Recorded
  <2> QED
    BY <2>1, <2>2 DEF Local, Ordered
<1> QED
  BY <1>1, Invariance, PTL

(* What an exit task is told of the task it watches is true.                *)
THEOREM ExitTasksAreToldTheTruth == Spec => []FinalStatusIsTruthful
<1>1. ASSUME IInv PROVE FinalStatusIsTruthful
  <2> SUFFICES ASSUME NEW f \in Frames, NEW t \in DOMAIN frame[f].saw, NEW n \in DOMAIN Task(f, t).params,
                      Task(f, t).params[n].kind = "final_status"
               PROVE  (frame[f].saw[t] = "FAILED") = (Task(f, t).params[n].name \in frame[f].failed)
    BY DEF FinalStatusIsTruthful
  <2>1. Told(frame[f], TasksOf(f)) /\ Task(f, t) = TasksOf(f)[t]
    BY <1>1, FrameFacts DEF Local
  <2>2. Task(f, t).params[n].name \in Watches(TasksOf(f)[t])
    BY <2>1 DEF Watches
  <2> QED
    BY <2>1, <2>2 DEF Told
<1> QED
  BY <1>1, Invariance, PTL

(* When the pipeline has returned, so has every frame: a frame that runs    *)
(* has a caller that runs, and so on up to the root.                        *)
THEOREM EveryThreadIsJoined == Spec => []NothingOutlivesThePipeline
<1>1. ASSUME IInv PROVE NothingOutlivesThePipeline
  <2> SUFFICES ASSUME ~workspace PROVE \A f \in Frames : ~Active(f)
    BY DEF NothingOutlivesThePipeline
  <2> DEFINE Q == {f \in Frames : ~Active(f)}
  <2>1. Tree /\ <<>> \in Q
    BY <1>1 DEF IInv, Ending, Tree
  <2>2. ASSUME NEW f \in Q, NEW t \in STRING, NEW i \in Nat, Call(f, t, i) \in Frames PROVE Call(f, t, i) \in Q
    BY <2>1, <2>2 DEF Tree, Called, Active
  <2>3. Q \in SUBSET Frames
    OBVIOUS
  <2> HIDE DEF Q
  <2>4. Q = Frames
    BY <2>1, <2>2, <2>3, DownTheTree
  <2> QED
    BY <2>4 DEF Q
<1> QED
  BY <1>1, Invariance, PTL

(* SUCCESS means that nothing failed, in any frame: a frame that returned   *)
(* SUCCESS has no failed task, so every frame it called returned SUCCESS.   *)
THEOREM SuccessCanBeTrusted == Spec => []SuccessIsSound
<1>1. ASSUME IInv PROVE SuccessIsSound
  <2> SUFFICES ASSUME result = "SUCCESS"
               PROVE  /\ runner = "subprocess" => broken = {}
                      /\ \A f \in Frames : frame[f].failed = {} /\ frame[f].ret.k = "SUCCESS"
    BY DEF SuccessIsSound
  <2> DEFINE Q == {f \in Frames : frame[f].ret.k = "SUCCESS"}
  <2>1. Tree /\ <<>> \in Q
    BY <1>1 DEF IInv, Ending, Tree
  <2>2. \A f \in Q : frame[f].failed = {} /\ frame[f].cur = NoTask
    BY <1>1 DEF IInv, Locals, Local, ReturnOK
  <2>3. ASSUME NEW f \in Q, NEW t \in STRING, NEW i \in Nat, Call(f, t, i) \in Frames PROVE Call(f, t, i) \in Q
    <3>1. NoTask \notin DOMAIN TasksOf(f)
      BY <1>1, FrameFacts DEF Good
    <3> QED
      BY <2>1, <2>2, <2>3, <3>1 DEF Tree, Called
  <2>4. Q \in SUBSET Frames
    OBVIOUS
  <2>5. Q = Frames
    <3> HIDE DEF Q
    <3> QED
      BY <2>1, <2>3, <2>4, DownTheTree
  <2>6. runner = "subprocess" => broken = {}
    BY <1>1, <2>2, <2>5 DEF IInv, Ending
  <2> QED
    BY <2>2, <2>5, <2>6
<1> QED
  BY <1>1, Invariance, PTL

-----------------------------------------------------------------------------
(* The promise of DagRun *)

Rooted == frame[<<>>].comp = pipeline.root

(* The mapping, in the terms of the root frame.                             *)
LEMMA Mapping ==
  ASSUME IInv, Rooted
  PROVE  LET fr == frame[<<>>]
             ts == TasksOf(<<>>)
         IN /\ RootDag = [t \in DOMAIN ts |-> [deps |-> ts[t].deps, tolerant |-> ts[t].strategy = "all_completed",
                                               exit |-> ExitTask(ts[t])]]
            /\ \A t : RootState(t) = StateOf(fr, t)
            /\ Promise!Settled = Settled(fr, ts) /\ Promise!Failed = fr.failed /\ fr.failed \subseteq DOMAIN ts
            /\ fr.cur = NoTask => \A t \in DOMAIN ts : StateOf(fr, t) # "running"
<1> DEFINE fr == frame[<<>>]
           ts == TasksOf(<<>>)
<1>1. RootDag = [t \in DOMAIN ts |-> [deps |-> ts[t].deps, tolerant |-> ts[t].strategy = "all_completed",
                                      exit |-> ExitTask(ts[t])]]
  BY DEF RootDag, Rooted, TasksOf, DagOf
<1>2. \A t : RootState(t) = StateOf(fr, t)
  BY DEF RootState, StateOf, Waiting
<1>3. Local(fr, ts) /\ Good(ts, Components)
  BY FrameFacts DEF IInv, Tree
<1>4. DOMAIN RootDag = DOMAIN ts
  BY <1>1
<1>5. Promise!Settled = Settled(fr, ts)
  <2>1. \A t : StateOf(fr, t) \in {"succeeded", "failed", "skipped"} <=> t \notin Waiting(fr) /\ t # fr.cur
    BY DEF StateOf
  <2> QED
    BY <1>2, <1>4, <2>1 DEF Promise!Settled, Promise!Tasks, Settled
<1>6. Promise!Failed = fr.failed /\ fr.failed \subseteq DOMAIN ts
  <2>1. \A t : StateOf(fr, t) = "failed" <=> t \notin Waiting(fr) /\ t # fr.cur /\ t \in fr.failed
    BY DEF StateOf
  <2>2. \A t \in fr.failed : t \in DOMAIN ts /\ t \notin Waiting(fr) /\ t # fr.cur
    BY <1>3 DEF Local, Recorded, Settled
  <2> QED
    BY <1>2, <1>4, <2>1, <2>2 DEF Promise!Failed, Promise!Tasks
<1>7. fr.cur = NoTask => \A t \in DOMAIN ts : StateOf(fr, t) # "running"
  BY <1>3 DEF StateOf, Good
<1> QED
  BY <1>1, <1>2, <1>5, <1>6, <1>7

(* A step of the root frame is a step of DagRun, or none.                   *)
LEMMA RootStep ==
  ASSUME IInv, Rooted, IInv', Rooted', pipeline' = pipeline,
         Progress(frame[<<>>], frame'[<<>>], TasksOf(<<>>))
  PROVE  [Promise!Next]_(Promise!vars)
<1> DEFINE fr == frame[<<>>]
           new == frame'[<<>>]
           ts == TasksOf(<<>>)
           S == [t \in DOMAIN RootDag |-> RootState(t)]
           V == IF fr.ret.k = "none" THEN "running" ELSE fr.ret.k
           W == IF new.ret.k = "none" THEN "running" ELSE new.ret.k
<1>1. RootDag' = RootDag /\ DOMAIN RootDag = DOMAIN ts
  BY Mapping DEF RootDag
<1>2. S = [t \in DOMAIN ts |-> StateOf(fr, t)] /\ S' = [t \in DOMAIN ts |-> StateOf(new, t)]
  <2>1. \A t : RootState(t)' = StateOf(new, t)
    BY DEF RootState, StateOf, Waiting
  <2> QED
    BY <1>1, <2>1, Mapping
<1>3. ASSUME SameStates(fr, new, ts) PROVE S' = S
  BY <1>2, <1>3 DEF SameStates
<1>4. CASE SameStates(fr, new, ts) /\ new.ret.k = fr.ret.k
  BY <1>1, <1>3, <1>4 DEF Promise!vars
<1>5. CASE fr.ret.k = "none" /\ new.ret.k = "none" /\ \E t \in DOMAIN ts : Moves(fr, new, ts, t)
  <2>1. PICK t \in DOMAIN ts : Moves(fr, new, ts, t)
    BY <1>5
  <2>2. ASSUME NEW s, StateOf(new, t) = s PROVE Promise!Set(t, s)
    <3>1. S' = [S EXCEPT ![t] = s]
      BY <1>2, <2>1, <2>2 DEF Moves
    <3> QED
      BY <1>1, <1>5, <3>1 DEF Promise!Set
  <2>3. BeginsIn(fr, ts, t) => Promise!MayBegin(t)
    BY <1>1, <1>2, <1>5, Mapping DEF BeginsIn, Promise!MayBegin, Promise!Tasks, Promise!Upstream
  <2>4. Promise!Upstream(t) \cap Promise!Failed = ts[t].deps \cap fr.failed /\ Promise!Tasks = DOMAIN ts
    BY <1>1, Mapping DEF Promise!Upstream, Promise!Tasks
  <2>5. RootDag[t].tolerant = (ts[t].strategy = "all_completed")
    BY Mapping
  <2>6. Promise!Begin(t) \/ Promise!Cascade(t) \/ Promise!Skip(t) \/ Promise!Settle(t)
    <3>1. CASE /\ BeginsIn(fr, ts, t) /\ StateOf(new, t) = "running"
               /\ ts[t].deps \cap fr.failed = {} \/ ts[t].strategy = "all_completed"
      BY <2>2, <2>3, <2>4, <2>5, <3>1 DEF Promise!Begin
    <3>2. CASE /\ BeginsIn(fr, ts, t) /\ StateOf(new, t) = "failed"
               /\ ts[t].deps \cap fr.failed # {} /\ ts[t].strategy # "all_completed"
      BY <2>2, <2>3, <2>4, <2>5, <3>2 DEF Promise!Cascade
    <3>3. CASE BeginsIn(fr, ts, t) /\ StateOf(new, t) = "skipped"
      BY <2>2, <2>3, <3>3 DEF Promise!Skip
    <3>4. CASE StateOf(fr, t) = "running" /\ StateOf(new, t) \in {"succeeded", "failed"}
      <4>1. S[t] = "running" /\ V = "running"
        BY <1>2, <1>5, <3>4
      <4> QED
        BY <2>2, <3>4, <4>1 DEF Promise!Settle
    <3> QED
      BY <2>1, <3>1, <3>2, <3>3, <3>4 DEF Moves
  <2> QED
    BY <2>4, <2>6 DEF Promise!Next
<1>6. CASE fr.ret.k = "none" /\ Concludes(fr, new, ts)
  <2>1. S' = S
    BY <1>3, <1>6 DEF Concludes
  <2>2. fr.cur = NoTask => \A t \in DOMAIN ts : S[t] # "running"
    BY <1>2, Mapping
  <2>3. Promise!Conclude
    <3>1. Promise!Tasks = DOMAIN ts /\ Promise!Settled = Settled(fr, ts) /\ Promise!Failed = fr.failed
      BY <1>1, Mapping DEF Promise!Tasks
    <3> QED
      BY <1>1, <1>6, <2>1, <2>2, <3>1 DEF Concludes, Promise!Conclude
  <2> QED
    BY <2>3 DEF Promise!Next
<1> QED
  BY <1>4, <1>5, <1>6 DEF Progress

(* The runner keeps the promise of DagRun for the dag of the pipeline.      *)
THEOREM ThePromiseIsKept == Spec => ImplementsDagRun
<1>1. ASSUME Init PROVE Promise!Init /\ Rooted
  <2>1. frame[<<>>] = NewFrame(pipeline.root, [n \in pipeline.components[pipeline.root].params |-> Default])
    BY <1>1 DEF Init
  <2> DEFINE ts == pipeline.components[pipeline.root].tasks
  <2>2. /\ frame[<<>>].todo \cup frame[<<>>].exits = DOMAIN ts /\ frame[<<>>].ret.k = "none"
        /\ frame[<<>>].comp = pipeline.root
    BY <2>1 DEF NewFrame, NotReturned
  <2>3. DOMAIN RootDag = DOMAIN ts
    BY DEF RootDag
  <2>4. \A t \in DOMAIN ts : RootState(t) = "pending"
    BY <2>2 DEF RootState
  <2> QED
    BY <2>2, <2>3, <2>4 DEF Promise!Init, Promise!Tasks, Rooted
<1>2. ASSUME IInv, Rooted, [Next]_vars, IInv' PROVE Rooted' /\ [Promise!Next]_(Promise!vars)
  <2>1. ASSUME NEW f \in Frames, Step(f) PROVE Rooted' /\ [Promise!Next]_(Promise!vars)
    <3>1. Done(f)
      BY <1>2, <2>1, StepDone
    <3>2. CASE f = <<>>
      <4>1. Rooted'
        BY <1>2, <3>1, <3>2 DEF Done, Rooted
      <4> QED
        BY <1>2, <3>1, <3>2, <4>1, RootStep DEF Done
    <3>3. CASE f # <<>>
      <4>1. frame'[<<>>] = frame[<<>>] /\ pipeline' = pipeline
        BY <1>2, <3>1, <3>3 DEF Done, IInv, Tree
      <4>2. Rooted' /\ Progress(frame[<<>>], frame'[<<>>], TasksOf(<<>>))
        BY <1>2, <4>1 DEF Rooted, Progress, SameStates
      <4> QED
        BY <1>2, <4>1, <4>2, RootStep
    <3> QED
      BY <3>2, <3>3
  <2>2. CASE Return \/ UNCHANGED vars
    <3>1. UNCHANGED <<pipeline, frame>>
      BY <2>2 DEF Return, vars
    <3>2. Rooted' /\ Progress(frame[<<>>], frame'[<<>>], TasksOf(<<>>))
      BY <1>2, <3>1 DEF Rooted, Progress, SameStates
    <3> QED
      BY <1>2, <3>1, <3>2, RootStep
  <2> QED
    BY <1>2, <2>1, <2>2 DEF Next
<1> QED
  BY <1>1, <1>2, Invariance, PTL DEF Spec, ImplementsDagRun, Promise!Spec
-----------------------------------------------------------------------------
(* What a loop publishes *)

(* The frames around a frame are its prefixes.                              *)
LEMMA PrefixFacts ==
  ASSUME NEW f \in Paths
  PROVE  /\ Prefix(f, Len(f)) = f /\ Prefix(f, 0) = <<>> /\ Len(f) \in Nat
         /\ \A k \in 0 .. Len(f) : /\ Prefix(f, k) \in Paths /\ Len(Prefix(f, k)) = k
                                   /\ \A j \in 0 .. k : Prefix(Prefix(f, k), j) = Prefix(f, j)
<1> DEFINE S == STRING \X Nat
<1>1. f \in Seq(S) /\ Paths = Seq(S)
  BY DEF Paths
<1> HIDE DEF S
<1>2. Prefix(f, Len(f)) = f /\ Prefix(f, 0) = <<>> /\ Len(f) \in Nat
  BY <1>1 DEF Prefix
<1>3. ASSUME NEW k \in 0 .. Len(f)
      PROVE  /\ Prefix(f, k) \in Seq(S) /\ Len(Prefix(f, k)) = k
             /\ \A j \in 0 .. k : Prefix(Prefix(f, k), j) = Prefix(f, j)
  <2>1. Prefix(f, k) \in Seq(S) /\ Len(Prefix(f, k)) = k /\ \A i \in 1 .. k : Prefix(f, k)[i] = f[i]
    BY <1>1, <1>3 DEF Prefix
  <2>2. ASSUME NEW j \in 0 .. k PROVE Prefix(Prefix(f, k), j) = Prefix(f, j)
    BY <1>1, <1>2, <2>1, <2>2 DEF Prefix
  <2> QED
    BY <2>1, <2>2
<1> QED
  BY <1>1, <1>2, <1>3

LEMMA PrefixOfCall ==
  ASSUME NEW f \in Paths, NEW t \in STRING, NEW i \in Nat
  PROVE  \A k \in 0 .. Len(f) : Prefix(Call(f, t, i), k) = Prefix(f, k)
<1> DEFINE S == STRING \X Nat
           x == <<t, i>>
<1>1. f \in Seq(S) /\ x \in S
  BY DEF Paths
<1> HIDE DEF S, x
<1>2. \A k \in 0 .. Len(f) : SubSeq(Append(f, x), 1, k) = SubSeq(f, 1, k)
  BY <1>1
<1> QED
  BY <1>2 DEF Prefix, Call, x

LEMMA PrefixesAreFrames ==
  ASSUME Tree
  PROVE  \A f \in Frames : \A k \in 0 .. Len(f) : Prefix(f, k) \in Frames
<1> DEFINE Q == {f \in Frames : \A k \in 0 .. Len(f) : Prefix(f, k) \in Frames}
<1>1. Frames \subseteq Paths /\ <<>> \in Frames
  BY DEF Tree
<1>2. <<>> \in Q
  <2>1. Len(<<>>) = 0 /\ Prefix(<<>>, 0) = <<>>
    BY <1>1, PrefixFacts
  <2> QED
    BY <1>1, <2>1
<1>3. ASSUME NEW f \in Q, NEW t \in STRING, NEW i \in Nat, Call(f, t, i) \in Frames PROVE Call(f, t, i) \in Q
  <2> DEFINE c == Call(f, t, i)
  <2>1. f \in Paths /\ c \in Paths /\ Len(c) = Len(f) + 1 /\ Len(f) \in Nat
    BY <1>1, <1>3, PathFacts
  <2>2. \A k \in 0 .. Len(f) : Prefix(c, k) = Prefix(f, k)
    BY <2>1, PrefixOfCall
  <2>3. Prefix(c, Len(c)) = c
    BY <2>1, PrefixFacts
  <2>4. c \in Frames
    BY <1>3
  <2> HIDE DEF c
  <2>5. ASSUME NEW k \in 0 .. Len(c) PROVE Prefix(c, k) \in Frames
    <3>1. CASE k = Len(c)
      BY <2>3, <2>4, <3>1
    <3>2. CASE k # Len(c)
      <4>1. k \in 0 .. Len(f)
        BY <2>1, <3>2
      <4> QED
        BY <1>3, <2>2, <4>1
    <3> QED
      BY <3>1, <3>2
  <2> QED
    BY <2>4, <2>5 DEF c
<1> HIDE DEF Q
<1>4. Q \in SUBSET Frames
  BY DEF Q
<1>5. Q = Frames
  BY <1>2, <1>3, <1>4, DownTheTree
<1> QED
  BY <1>5 DEF Q

(* What is under a call is under its caller, and the caller is not.         *)
LEMMA UnderFacts ==
  ASSUME Tree, NEW f \in Frames
  PROVE  /\ f \in Under(f)
         /\ \A t \in STRING, i \in Nat : Call(f, t, i) \in Frames =>
              /\ Under(Call(f, t, i)) \subseteq Under(f) /\ f \notin Under(Call(f, t, i))
              /\ Call(f, t, i) # f /\ Iteration(f, t, i) = Call(f, t, i)
<1>1. Frames \subseteq Paths /\ f \in Paths
  BY DEF Tree
<1>2. f \in Under(f)
  BY <1>1, PrefixFacts DEF Under
<1>3. ASSUME NEW t \in STRING, NEW i \in Nat, Call(f, t, i) \in Frames
      PROVE  /\ Under(Call(f, t, i)) \subseteq Under(f) /\ f \notin Under(Call(f, t, i))
             /\ Call(f, t, i) # f /\ Iteration(f, t, i) = Call(f, t, i)
  <2> DEFINE c == Call(f, t, i)
  <2>1. c \in Paths /\ c # f /\ Len(c) = Len(f) + 1 /\ Len(f) \in Nat
    BY <1>1, PathFacts
  <2> HIDE DEF c
  <2>2. Prefix(c, Len(f)) = f
    <3>1. Prefix(f, Len(f)) = f
      BY <1>1, PrefixFacts
    <3>2. Prefix(c, Len(f)) = Prefix(f, Len(f))
      <4>1. \A k \in 0 .. Len(f) : Prefix(c, k) = Prefix(f, k)
        BY <1>1, PrefixOfCall DEF c
      <4> QED
        BY <2>1, <4>1
    <3> QED
      BY <3>1, <3>2
  <2>3. Iteration(f, t, i) = c
    BY DEF Iteration, Call, c
  <2>4. ASSUME NEW h \in Under(c) PROVE h \in Under(f) /\ h # f
    <3>1. h \in Frames /\ h \in Paths /\ Len(h) \in Nat /\ Len(h) >= Len(c) /\ Prefix(h, Len(c)) = c
      BY <1>1, PrefixFacts DEF Under
    <3>2. Prefix(Prefix(h, Len(c)), Len(f)) = Prefix(h, Len(f))
      BY <2>1, <3>1, PrefixFacts
    <3> QED
      BY <2>1, <2>2, <3>1, <3>2 DEF Under
  <2> QED
    BY <2>1, <2>3, <2>4 DEF c
<1> QED
  BY <1>2, <1>3
(* The dags under a frame publish outputs of their own, and so do those     *)
(* that it called.                                                          *)
Sound(f) == \A h \in Under(f) : Own(h)
SoundBelow(f) == \A h \in Under(f) \ {f} : Own(h)

(* What frame f keeps as the output of its task t: a value from under f,    *)
(* and for a loop the list of what its iterations have returned.            *)
Kept(f, t, v) ==
  /\ t \in DOMAIN TasksOf(f)
  /\ SoundBelow(f) => v.by.f \in Under(f)
  /\ Kind(TasksOf(f)[t]) = "parallel_for" =>
       \A i \in DOMAIN v.list : /\ i \in Nat /\ Call(f, t, i) \in Frames /\ ~Active(Call(f, t, i))
                                /\ v.list[i] = frame[Call(f, t, i)].ret.out

Outputs(f) == \A t \in DOMAIN frame[f].out : Kept(f, t, frame[f].out[t])
Returned(f) == frame[f].ret.out # Missing /\ Sound(f) => frame[f].ret.out.by.f \in Under(f)
Gathered(f) ==
  /\ frame[f].loop.n = 0 => frame[f].loop.got = {}
  /\ frame[f].loop.got \cap frame[f].loop.raised = {}
  /\ \A i \in frame[f].loop.got : Call(f, frame[f].cur, i) \in Frames

(* An iteration was given its item.                                         *)
ItemsGiven ==
  \A f \in Frames, t \in STRING, i \in Nat :
    Call(f, t, i) \in Frames /\ Kind(TasksOf(f)[t]) = "parallel_for" =>
      frame[Call(f, t, i)].ins[TasksOf(f)[t].iter.item] = Item(f, t, i)

Published == (\A f \in Frames : Outputs(f) /\ Returned(f) /\ Gathered(f)) /\ ItemsGiven

(* What every step of the thread of frame f leaves as it is.                *)
Alone(f) ==
  /\ IInv /\ IInv' /\ pipeline' = pipeline /\ Active(f) /\ Frames \subseteq Frames'
  /\ \A g \in Frames : g # f => frame'[g] = frame[g]
  /\ frame'[f].comp = frame[f].comp

LEMMA DoneAlone ==
  ASSUME IInv, NEW f \in Frames, Active(f), Done(f)
  PROVE  Alone(f)
BY DEF Alone, Done

LEMMA AloneFacts ==
  ASSUME NEW f \in Frames, Alone(f)
  PROVE  /\ \A g \in Frames : /\ TasksOf(g)' = TasksOf(g) /\ Under(g) \subseteq Under(g)' /\ Under(g)' \cap Frames = Under(g)
                              /\ Own(g)' <=> Own(g)
                              /\ Sound(g)' => Sound(g)
                              /\ SoundBelow(g)' => SoundBelow(g)
<1>1. IInv /\ Tree /\ pipeline' = pipeline /\ Frames \subseteq Frames'
  BY DEF Alone, IInv
<1>2. \A g \in Frames : frame'[g].comp = frame[g].comp
  BY DEF Alone
<1>3. \A g \in Frames : TasksOf(g)' = TasksOf(g) /\ DagOf(g)' = DagOf(g)
  BY <1>1, <1>2 DEF TasksOf, DagOf
<1>4. \A g \in Frames : Under(g) \subseteq Under(g)' /\ Under(g)' \cap Frames = Under(g)
  BY <1>1 DEF Under
<1>5. \A g \in Frames : Own(g)' <=> Own(g)
  <2> SUFFICES ASSUME NEW g \in Frames PROVE Own(g)' <=> Own(g)
    OBVIOUS
  <2>1. g \in Paths /\ Len(g) \in Nat
    BY <1>1, PrefixFacts DEF Tree
  <2>2. \A k \in 0 .. (Len(g) - 1) : Prefix(g, k) \in Frames
    BY <1>1, <2>1, PrefixesAreFrames
  <2>3. \A k \in 0 .. (Len(g) - 1) : DagOf(Prefix(g, k))' = DagOf(Prefix(g, k))
    BY <1>3, <2>2
  <2> QED
    BY <1>3, <2>3 DEF Own
<1>6. \A g \in Frames : (Sound(g)' => Sound(g)) /\ (SoundBelow(g)' => SoundBelow(g))
  <2>1. \A g : Under(g) \subseteq Frames
    BY DEF Under
  <2> QED
    BY <1>4, <1>5, <2>1 DEF Sound, SoundBelow
<1> QED
  BY <1>3, <1>4, <1>5, <1>6

(* What was kept stays so.                                                  *)
LEMMA KeptStays ==
  ASSUME NEW f \in Frames, Alone(f), NEW g \in Frames, NEW t, NEW v, Kept(g, t, v)
  PROVE  Kept(g, t, v)'
<1>1. /\ TasksOf(g)' = TasksOf(g) /\ Under(g) \subseteq Under(g)' /\ (SoundBelow(g)' => SoundBelow(g))
  BY AloneFacts
<1>2. \A h \in Frames : ~Active(h) => h # f /\ frame'[h] = frame[h] /\ h \in Frames'
  BY DEF Alone
<1>3. ASSUME Kind(TasksOf(g)[t]) = "parallel_for", NEW i \in DOMAIN v.list
      PROVE  /\ i \in Nat /\ Call(g, t, i) \in Frames' /\ ~Active(Call(g, t, i))'
             /\ v.list[i] = frame'[Call(g, t, i)].ret.out
  <2>1. /\ i \in Nat /\ Call(g, t, i) \in Frames /\ ~Active(Call(g, t, i))
        /\ v.list[i] = frame[Call(g, t, i)].ret.out
    BY <1>3 DEF Kept
  <2> QED
    BY <1>2, <2>1 DEF Active
<1> QED
  BY <1>1, <1>3 DEF Kept, Call

(* What the frames other than f have kept and returned stays so.            *)
LEMMA OthersStay ==
  ASSUME Published, NEW f \in Frames, Alone(f), NEW g \in Frames, g # f
  PROVE  Outputs(g)' /\ Returned(g)' /\ Gathered(g)'
<1>1. /\ frame'[g] = frame[g] /\ Under(g) \subseteq Under(g)' /\ (Sound(g)' => Sound(g)) /\ Frames \subseteq Frames'
  BY AloneFacts DEF Alone
<1>2. Outputs(g) /\ Returned(g) /\ Gathered(g)
  BY DEF Published
<1>3. ASSUME NEW t \in DOMAIN frame'[g].out PROVE Kept(g, t, frame[g].out[t])'
  <2>1. PICK v : v = frame'[g].out[t]
    OBVIOUS
  <2>2. Kept(g, t, v)
    BY <1>1, <1>2, <2>1 DEF Outputs
  <2>3. Kept(g, t, v)'
    BY <2>2, KeptStays
  <2> QED
    BY <2>1, <2>3 DEF Kept
<1>4. Outputs(g)'
  BY <1>3 DEF Outputs
<1>5. Returned(g)' /\ Gathered(g)'
  BY <1>1, <1>2 DEF Returned, Gathered
<1> QED
  BY <1>4, <1>5

(* A step of frame f that calls nothing.                                    *)
LEMMA PublishedKept ==
  ASSUME Published, NEW f \in Frames, Alone(f), Frames' = Frames, frame'[f].ins = frame[f].ins,
         \A t \in DOMAIN frame'[f].out : Kept(f, t, frame'[f].out[t]),
         frame'[f].ret.out # Missing /\ Sound(f) => frame'[f].ret.out.by.f \in Under(f),
         Gathered(f)'
  PROVE  Published'
<1>1. \A g \in Frames : g # f => frame'[g] = frame[g]
  BY DEF Alone
<1>2. \A g \in Frames : /\ TasksOf(g)' = TasksOf(g) /\ Under(g) \subseteq Under(g)'
                        /\ (Sound(g)' => Sound(g))
  BY AloneFacts
<1>3. ASSUME NEW t \in DOMAIN frame'[f].out PROVE Kept(f, t, frame[f].out[t])'
  <2>1. PICK v : v = frame'[f].out[t]
    OBVIOUS
  <2>2. Kept(f, t, v)
    BY <2>1
  <2>3. Kept(f, t, v)'
    BY <2>2, KeptStays
  <2> QED
    BY <2>1, <2>3 DEF Kept
<1>4. Outputs(f)' /\ Returned(f)'
  BY <1>2, <1>3 DEF Outputs, Returned
<1>5. ASSUME NEW g \in Frames PROVE Outputs(g)' /\ Returned(g)' /\ Gathered(g)'
  BY <1>4, OthersStay
<1>6. \A g \in Frames : frame'[g].ins = frame[g].ins
  BY <1>1
<1>7. ItemsGiven'
  BY <1>2, <1>6 DEF Published, ItemsGiven
<1> QED
  BY <1>5, <1>7 DEF Published

(* A step of frame f that calls a new frame.                                *)
LEMMA PublishedSpawn ==
  ASSUME Published, NEW f \in Frames, Alone(f), NEW t \in STRING, NEW i \in Nat, NEW comp, NEW ins,
         Call(f, t, i) \notin Frames, Frames' = Frames \cup {Call(f, t, i)},
         frame'[Call(f, t, i)] = NewFrame(comp, ins),
         frame'[f].ins = frame[f].ins, frame'[f].out = frame[f].out, frame'[f].ret = frame[f].ret,
         Gathered(f)',
         Kind(TasksOf(f)[t]) = "parallel_for" => ins[TasksOf(f)[t].iter.item] = Item(f, t, i)
  PROVE  Published'
<1> DEFINE c == Call(f, t, i)
<1>1. \A g \in Frames : g # f => frame'[g] = frame[g]
  BY DEF Alone
<1>2. \A g \in Frames : /\ TasksOf(g)' = TasksOf(g) /\ Under(g) \subseteq Under(g)'
                        /\ (Sound(g)' => Sound(g))
  BY AloneFacts
<1>3. \A g \in Frames : frame'[g].ins = frame[g].ins /\ frame'[g].out = frame[g].out /\ frame'[g].ret = frame[g].ret
  BY <1>1
<1>4. Outputs(f)' /\ Returned(f)'
  <2>1. ASSUME NEW u \in DOMAIN frame'[f].out PROVE Kept(f, u, frame[f].out[u])'
    <3>1. PICK v : v = frame'[f].out[u]
      OBVIOUS
    <3>2. Kept(f, u, v)
      BY <1>3, <3>1 DEF Published, Outputs
    <3>3. Kept(f, u, v)'
      BY <3>2, KeptStays
    <3> QED
      BY <3>1, <3>3 DEF Kept
  <2> QED
    BY <1>2, <1>3, <2>1 DEF Outputs, Returned, Published
<1>5. frame'[c].out = <<>> /\ DOMAIN frame'[c].out = {} /\ frame'[c].ret = NotReturned /\ frame'[c].loop = NoLoop /\ frame'[c].ins = ins
  BY DEF NewFrame
<1>6. Outputs(c)' /\ Returned(c)' /\ Gathered(c)'
  <2>1. NotReturned.out = Missing
    BY DEF NotReturned
  <2>2. NoLoop.got = {}
    BY DEF NoLoop
  <2> HIDE DEF c
  <2> QED
    BY <1>5, <2>1, <2>2 DEF Outputs, Returned, Gathered
<1>7. ASSUME NEW g \in Frames' PROVE Outputs(g)' /\ Returned(g)' /\ Gathered(g)'
  BY <1>4, <1>6, OthersStay
<1>8. ItemsGiven'
  <2>1. ASSUME NEW g \in Frames', NEW u \in STRING, NEW j \in Nat,
               Call(g, u, j) \in Frames', Kind(TasksOf(g)'[u]) = "parallel_for"
        PROVE  frame'[Call(g, u, j)].ins[TasksOf(g)'[u].iter.item] = Item(g, u, j)
    <3>1. Tree /\ Tree' /\ f \in Paths /\ g \in Paths
      BY DEF Alone, IInv, Tree
    <3>2. CASE Call(g, u, j) = c
      <4>1. \A h \in Paths, w \in STRING, k \in Nat : Call(g, u, j) = Call(h, w, k) => g = h /\ u = w /\ j = k
        BY <2>1, <3>1, PathFacts
      <4>2. f \in Paths /\ t \in STRING /\ i \in Nat /\ Call(g, u, j) = Call(f, t, i)
        BY <3>1, <3>2
      <4>3. g = f /\ u = t /\ j = i
        BY <4>1, <4>2
      <4> QED
        BY <1>2, <1>5, <2>1, <4>3
    <3>3. CASE Call(g, u, j) \in Frames
      <4>2. \A h \in Paths, w \in STRING, k \in Nat : Call(g, u, j) = Call(h, w, k) => g = h /\ u = w /\ j = k
        BY <2>1, <3>1, PathFacts
      <4>3. Call(g, u, j) # <<>>
        BY <2>1, <3>1, PathFacts
      <4>1. g \in Frames
        <5>1. PICK h \in Frames, w \in STRING, k \in Nat : Call(g, u, j) = Call(h, w, k)
          BY <3>1, <3>3, <4>3 DEF Tree
        <5>2. h \in Paths
          BY <3>1 DEF Tree
        <5> QED
          BY <4>2, <5>1, <5>2
      <4> QED
        BY <1>2, <1>3, <2>1, <3>3, <4>1 DEF Published, ItemsGiven
    <3> QED
      BY <2>1, <3>2, <3>3
  <2> QED
    BY <2>1 DEF ItemsGiven
<1> QED
  BY <1>7, <1>8 DEF Published
LEMMA MissingFacts ==
  /\ Raised.out = Missing /\ Failure.out = Missing /\ NotReturned.out = Missing
  /\ NoLoop.got = {} /\ NoLoop.raised = {}
  /\ \A f, t, i, b, list : Value(f, t, i, b, list).by.f = f /\ Value(f, t, i, b, list).list = list
  /\ \A f, t, i : Item(f, t, i) # Missing
<1>1. Raised.out = Missing /\ Failure.out = Missing /\ NotReturned.out = Missing
  BY DEF Raised, Failure, NotReturned
<1>2. NoLoop.got = {} /\ NoLoop.raised = {}
  BY DEF NoLoop
<1>3. \A f, t, i, b, list : Value(f, t, i, b, list).by.f = f /\ Value(f, t, i, b, list).list = list
  BY DEF Value
<1>4. ASSUME NEW f, NEW t, NEW i PROVE Item(f, t, i) # Missing
  <2>1. \A g, u, j, k : Value(f, t, i, TRUE, k) # Value(g, u, j, FALSE, k)
    BY DEF Value
  <2> QED
    BY <2>1, Zenon DEF Item, Missing
<1> QED
  BY <1>1, <1>2, <1>3, <1>4

(* The record of f changes, but neither its outputs nor what its loop has.  *)
LEMMA PlainUpdate ==
  ASSUME Published, NEW f \in Frames, Alone(f), NEW new, Update(f, new),
         new.ins = frame[f].ins, new.out = frame[f].out,
         new.ret = frame[f].ret \/ new.ret.out = Missing,
         \/ new.loop = frame[f].loop /\ new.cur = frame[f].cur
         \/ new.loop = frame[f].loop /\ frame[f].loop.n = 0
         \/ new.loop.got = {}
  PROVE  Published'
<1>1. Frames' = Frames /\ frame'[f] = new
  BY DEF Update, Frames
<1>2. Outputs(f) /\ Returned(f) /\ Gathered(f)
  BY DEF Published
<1>3. \A t \in DOMAIN frame'[f].out : Kept(f, t, frame'[f].out[t])
  BY <1>1, <1>2 DEF Outputs
<1>4. frame'[f].ret.out # Missing /\ Sound(f) => frame'[f].ret.out.by.f \in Under(f)
  BY <1>1, <1>2 DEF Returned
<1>5. Gathered(f)'
  BY <1>1, <1>2 DEF Gathered
<1> QED
  BY <1>1, <1>3, <1>4, <1>5, PublishedKept

(* The task in progress succeeds, with the value v.                         *)
LEMMA SuccessKept ==
  ASSUME Published, NEW f \in Frames, Alone(f), NEW t, NEW v, TaskSucceeds(f, t, v),
         frame[f].loop.n = 0, Shape(frame[f]), v # Missing => Kept(f, t, v)
  PROVE  Published'
<1> DEFINE new == [frame[f] EXCEPT !.cur = NoTask, !.st = Put(@, t, "SUCCEEDED"),
                                   !.out = IF v = Missing THEN @ ELSE Put(@, t, v)]
<1>1. Update(f, new)
  BY DEF TaskSucceeds
<1>2. /\ new.ins = frame[f].ins /\ new.ret = frame[f].ret /\ new.loop = frame[f].loop
      /\ new.out = IF v = Missing THEN frame[f].out ELSE Put(frame[f].out, t, v)
  BY DEF Shape
<1> HIDE DEF new
<1>3. Frames' = Frames /\ frame'[f] = new
  BY <1>1 DEF Update, Frames
<1>4. Outputs(f) /\ Returned(f) /\ Gathered(f)
  BY DEF Published
<1>5. ASSUME NEW u \in DOMAIN frame'[f].out PROVE Kept(f, u, frame'[f].out[u])
  <2>1. CASE v = Missing
    BY <1>2, <1>3, <1>4, <2>1 DEF Outputs
  <2>2. CASE v # Missing
    <3>1. frame'[f].out[u] = IF u = t THEN v ELSE frame[f].out[u]
      BY <1>2, <1>3, <2>2 DEF Put
    <3>2. u = t \/ u \in DOMAIN frame[f].out
      BY <1>2, <1>3, <2>2 DEF Put
    <3> QED
      BY <1>4, <2>2, <3>1, <3>2 DEF Outputs
  <2> QED
    BY <2>1, <2>2
<1>6. frame'[f].ret.out # Missing /\ Sound(f) => frame'[f].ret.out.by.f \in Under(f)
  BY <1>2, <1>3, <1>4 DEF Returned
<1>7. Gathered(f)'
  BY <1>2, <1>3, <1>4 DEF Gathered
<1> QED
  BY <1>2, <1>3, <1>5, <1>6, <1>7, PublishedKept

LEMMA TaskFailsKept ==
  ASSUME Published, NEW f \in Frames, Alone(f), NEW t, TaskFails(f, t), frame[f].loop.n = 0, Shape(frame[f])
  PROVE  Published'
<1> DEFINE new == [frame[f] EXCEPT !.cur = NoTask, !.failed = @ \cup {t}, !.st = Put(@, t, "FAILED")]
<1>1. Update(f, new)
  BY DEF TaskFails
<1>2. new.ins = frame[f].ins /\ new.ret = frame[f].ret /\ new.loop = frame[f].loop /\ new.out = frame[f].out
  BY DEF Shape
<1> HIDE DEF new
<1> QED
  BY <1>1, <1>2, PlainUpdate

LEMMA RaiseKept ==
  ASSUME Published, NEW f \in Frames, Alone(f), Raise(f), Shape(frame[f])
  PROVE  Published'
<1> DEFINE new == [frame[f] EXCEPT !.ret = Raised]
<1>1. Update(f, new)
  BY DEF Raise
<1>2. new.ins = frame[f].ins /\ new.ret = Raised /\ new.loop = frame[f].loop /\ new.out = frame[f].out
      /\ new.cur = frame[f].cur
  BY DEF Shape
<1> HIDE DEF new
<1> QED
  BY <1>1, <1>2, MissingFacts, PlainUpdate

(* A task is taken up: it raises, starts a container, or calls a dag.       *)
LEMMA ExecuteKept ==
  ASSUME Published, NEW f \in Frames, Alone(f), NEW t \in DOMAIN TasksOf(f), execute_task(f, t),
         frame[f].cur = NoTask, Kind(TasksOf(f)[t]) # "parallel_for", Call(f, t, 0) \notin Frames
  PROVE  Published'
<1> DEFINE fr == frame[f]
           T == TasksOf(f)[t]
           statusOf == {n \in DOMAIN T.params : T.params[n].kind = "final_status"}
           saw == IF statusOf = {} THEN fr.saw
                  ELSE Put(fr.saw, t, FinalStatus(f, T.params[CHOOSE n \in statusOf : TRUE].name))
           new == [fr EXCEPT !.todo = @ \ {t}, !.exits = @ \ {t}, !.cur = t, !.att = 0, !.saw = saw]
           ins == build_nested_dag_arguments(f, T, Missing)
<1>1. IInv
  BY DEF Alone
<1>2. Task(f, t) = T /\ Shape(fr) /\ fr.loop.n = 0 /\ t \in STRING
  BY <1>1, FrameFacts DEF Local, LoopOK, Good
<1>3. \/ Raise(f)
      \/ frame' = Put([frame EXCEPT ![f] = new], Append(f, <<t, 0>>), NewFrame(T.comp, ins))
      \/ Update(f, new)
  BY <1>2 DEF execute_task
<1> HIDE DEF saw, ins
<1>4. new.ins = fr.ins /\ new.ret = fr.ret /\ new.loop = fr.loop /\ new.out = fr.out
  BY <1>2 DEF Shape
<1> HIDE DEF new
<1>5. CASE frame' = Put([frame EXCEPT ![f] = new], Append(f, <<t, 0>>), NewFrame(T.comp, ins))
  <2>1. frame' = Put([frame EXCEPT ![f] = new], Call(f, t, 0), NewFrame(T.comp, ins))
    BY <1>5 DEF Call
  <2>2. /\ Frames' = Frames \cup {Call(f, t, 0)} /\ frame'[Call(f, t, 0)] = NewFrame(T.comp, ins)
        /\ frame'[f] = new
    BY <2>1 DEF Frames, Put
  <2>3. Gathered(f)'
    BY <1>2, <1>4, <2>2 DEF Published, Gathered
  <2> QED
    BY <1>2, <1>4, <2>2, <2>3, PublishedSpawn
<1> QED
  BY <1>2, <1>3, <1>4, <1>5, RaiseKept, PlainUpdate
LEMMA ItemReachesTheDag ==
  ASSUME NEW f, NEW T, NEW item, item # Missing
  PROVE  build_nested_dag_arguments(f, T, item)[T.iter.item] = item
<1> DEFINE D == pipeline.components[T.comp]
           given == Arguments(f, T, item)
           inherited == [n \in {m \in (D.params \cup D.arts) \ DOMAIN given : HasInput(f, m) # {}} |->
                           get_parent_input(f, n)]
           defaults == [n \in D.params |-> Default]
           x == T.iter.item
<1>1. x \in DOMAIN given /\ given[x] = item
  BY DEF Arguments, create_loop_iteration_task_spec
<1>2. build_nested_dag_arguments(f, T, item) = Fill(Fill(given, inherited), defaults)
  BY DEF build_nested_dag_arguments
<1> HIDE DEF given, inherited, defaults, x
<1>3. x \in DOMAIN Fill(given, inherited) /\ Fill(given, inherited)[x] = item
  BY <1>1 DEF Fill
<1>4. Fill(Fill(given, inherited), defaults)[x] = item
  BY <1>3 DEF Fill
<1> QED
  BY <1>2, <1>4 DEF x

LEMMA IterationStartsKept ==
  ASSUME Published, NEW f \in Frames, Alone(f), NEW t, IterationStarts(f, t)
  PROVE  Published'
<1> DEFINE fr == frame[f]
           T == TasksOf(f)[t]
           L == fr.loop
           c == Call(f, t, L.next)
           ins == build_nested_dag_arguments(f, T, Item(f, t, L.next))
           ran == [L EXCEPT !.next = @ + 1]
           bad == [L EXCEPT !.next = @ + 1, !.raised = @ \cup {L.next}]
<1>1. IInv /\ Looping(f, t) /\ Task(f, t) = T /\ Shape(fr)
  BY FrameFacts DEF Alone, IterationStarts
<1>2. /\ fr.cur = t /\ t \in STRING /\ L \in Loops /\ L.n \in Nat \ {0} /\ L.next \in Nat
      /\ L.got \subseteq 1 .. L.next - 1 /\ L.raised \subseteq 1 .. L.next - 1
  BY <1>1, LoopingFacts
<1>3. \/ Update(f, [fr EXCEPT !.loop = bad])
      \/ frame' = Put([frame EXCEPT ![f] = [fr EXCEPT !.loop = ran]], c, NewFrame(T.comp, ins))
  <2>1. [fr EXCEPT !.loop.next = @ + 1, !.loop.raised = @ \cup {L.next}] = [fr EXCEPT !.loop = bad]
    BY <1>1 DEF Shape, Loops
  <2>2. [frame EXCEPT ![f].loop.next = @ + 1] = [frame EXCEPT ![f] = [fr EXCEPT !.loop = ran]]
    BY <1>1
  <2> HIDE DEF bad, ran
  <2> QED
    BY <1>1, <2>1, <2>2 DEF IterationStarts, Iteration, Call
<1>4. bad.n = L.n /\ bad.got = L.got /\ bad.raised = L.raised \cup {L.next} /\ ran.n = L.n /\ ran.got = L.got /\ ran.raised = L.raised
  BY <1>2 DEF Loops
<1>5. L.next \notin L.got
  <2>1. ~(L.next \in 1 .. L.next - 1)
    BY <1>2
  <2> QED
    BY <1>2, <2>1
<1>6. /\ L.got \cap L.raised = {} /\ \A i \in L.got : Call(f, t, i) \in Frames
      /\ L.n = 0 => L.got = {}
  BY <1>2 DEF Published, Gathered
<1> HIDE DEF ins, bad, ran
<1>7. CASE Update(f, [fr EXCEPT !.loop = bad])
  <2> DEFINE new == [fr EXCEPT !.loop = bad]
  <2>1. new.ins = fr.ins /\ new.ret = fr.ret /\ new.loop = bad /\ new.out = fr.out /\ new.cur = t
    BY <1>1, <1>2 DEF Shape
  <2>2. Frames' = Frames /\ frame'[f] = new
    BY <1>7 DEF Update, Frames
  <2> HIDE DEF new
  <2>3. Gathered(f)'
    BY <1>2, <1>4, <1>5, <1>6, <2>1, <2>2 DEF Gathered
  <2>4. \A u \in DOMAIN frame'[f].out : Kept(f, u, frame'[f].out[u])
    BY <2>1, <2>2 DEF Published, Outputs
  <2>5. frame'[f].ret.out # Missing /\ Sound(f) => frame'[f].ret.out.by.f \in Under(f)
    BY <2>1, <2>2 DEF Published, Returned
  <2> QED
    BY <2>1, <2>2, <2>3, <2>4, <2>5, PublishedKept
<1>8. CASE frame' = Put([frame EXCEPT ![f] = [fr EXCEPT !.loop = ran]], c, NewFrame(T.comp, ins))
  <2> DEFINE new == [fr EXCEPT !.loop = ran]
  <2>1. new.ins = fr.ins /\ new.ret = fr.ret /\ new.loop = ran /\ new.out = fr.out /\ new.cur = t
    BY <1>1, <1>2 DEF Shape
  <2>2. c # f
    BY <1>1, <1>2, PathFacts, FrameFacts
  <2>3. Frames' = Frames \cup {c} /\ frame'[c] = NewFrame(T.comp, ins) /\ frame'[f] = new
    BY <1>8, <2>2 DEF Put, Frames
  <2> HIDE DEF new
  <2>4. Gathered(f)'
    BY <1>2, <1>4, <1>6, <2>1, <2>3 DEF Gathered
  <2>5. c \notin Frames
    <3>1. Call(f, t, L.next) \in Frames => Called(fr, TasksOf(f), Components, frame[c].ret.k, t, L.next)
      BY <1>1, <1>2 DEF IInv, Tree
    <3>2. ~(L.next \in 1 .. L.next - 1)
      BY <1>2
    <3> QED
      BY <1>2, <3>1, <3>2 DEF Called
  <2>6. ins[T.iter.item] = Item(f, t, L.next)
    BY MissingFacts, ItemReachesTheDag DEF ins
  <2> QED
    BY <1>2, <2>1, <2>3, <2>4, <2>5, <2>6, PublishedSpawn
<1> QED
  BY <1>3, <1>7, <1>8

LEMMA CollectIterationKept ==
  ASSUME Published, NEW f \in Frames, Alone(f), NEW t, CollectIteration(f, t)
  PROVE  Published'
<1> DEFINE fr == frame[f]
           L == fr.loop
<1>1. IInv /\ Looping(f, t) /\ Shape(fr)
  BY FrameFacts DEF Alone, CollectIteration
<1>2. PICK i \in 1 .. L.next - 1 :
        /\ IterationEnded(f, t, i)
        /\ \/ Update(f, [fr EXCEPT !.loop.got = @ \cup {i}]) /\ IterationOk(f, t, i)
           \/ Update(f, [fr EXCEPT !.loop.bad = TRUE])
  BY DEF CollectIteration
<1>3. fr.cur = t /\ L \in Loops /\ L.n \in Nat \ {0}
  BY <1>1, LoopingFacts
<1>4. /\ L.got \cap L.raised = {} /\ \A j \in L.got : Call(f, t, j) \in Frames
  BY <1>3 DEF Published, Gathered
<1>5. ASSUME NEW l, Update(f, [fr EXCEPT !.loop = l]), l.n = L.n, l.raised = L.raised,
             l.got \cap L.raised = {}, \A j \in l.got : Call(f, t, j) \in Frames
      PROVE  Published'
  <2> DEFINE new == [fr EXCEPT !.loop = l]
  <2>1. new.ins = fr.ins /\ new.ret = fr.ret /\ new.loop = l /\ new.out = fr.out /\ new.cur = t
    BY <1>1, <1>3 DEF Shape
  <2>2. Frames' = Frames /\ frame'[f] = new
    BY <1>5 DEF Update, Frames
  <2> HIDE DEF new
  <2>3. Gathered(f)'
    BY <1>3, <1>5, <2>1, <2>2 DEF Gathered
  <2>4. \A u \in DOMAIN frame'[f].out : Kept(f, u, frame'[f].out[u])
    BY <2>1, <2>2 DEF Published, Outputs
  <2>5. frame'[f].ret.out # Missing /\ Sound(f) => frame'[f].ret.out.by.f \in Under(f)
    BY <2>1, <2>2 DEF Published, Returned
  <2> QED
    BY <2>1, <2>2, <2>3, <2>4, <2>5, PublishedKept
<1>6. CASE Update(f, [fr EXCEPT !.loop.got = @ \cup {i}]) /\ IterationOk(f, t, i)
  <2> DEFINE l == [L EXCEPT !.got = @ \cup {i}]
  <2>1. Update(f, [fr EXCEPT !.loop = l])
    BY <1>6
  <2>2. l.n = L.n /\ l.raised = L.raised /\ l.got = L.got \cup {i}
    BY <1>3 DEF Loops
  <2>3. i \notin L.raised /\ Call(f, t, i) \in Frames
    BY <1>2, <1>6 DEF IterationOk, IterationEnded, Iteration, Call
  <2> HIDE DEF l
  <2> QED
    BY <1>4, <1>5, <2>1, <2>2, <2>3
<1>7. CASE Update(f, [fr EXCEPT !.loop.bad = TRUE])
  <2> DEFINE l == [L EXCEPT !.bad = TRUE]
  <2>1. Update(f, [fr EXCEPT !.loop = l])
    BY <1>7
  <2>2. l.n = L.n /\ l.raised = L.raised /\ l.got = L.got
    BY <1>3 DEF Loops
  <2> HIDE DEF l
  <2> QED
    BY <1>4, <1>5, <2>1, <2>2
<1> QED
  BY <1>2, <1>6, <1>7

LEMMA EndLoopKept ==
  ASSUME Published, NEW f \in Frames, Alone(f), NEW t, EndLoop(f, t)
  PROVE  Published'
<1> DEFINE fr == frame[f]
           L == fr.loop
           list == Aggregate(f, t)
           v == Value(f, t, 0, TRUE, list)
           bad == [fr EXCEPT !.cur = NoTask, !.loop = NoLoop, !.failed = @ \cup {t}]
           Good2(o) == [fr EXCEPT !.cur = NoTask, !.loop = NoLoop, !.st = Put(@, t, "SUCCEEDED"), !.out = o]
<1>1. IInv /\ Looping(f, t) /\ Shape(fr) /\ PoolShutDown(f, t) /\ (L.bad \/ L.got = 1 .. L.n)
  BY FrameFacts DEF Alone, EndLoop
<1>2. fr.cur = t /\ t \in DOMAIN TasksOf(f) /\ L \in Loops /\ L.n \in Nat
  BY <1>1, LoopingFacts
<1>3. \/ Update(f, bad)
      \/ L.got = 1 .. L.n /\ (Update(f, Good2(fr.out)) \/ Update(f, Good2(Put(fr.out, t, v))))
  <2>1. CASE L.bad
    <3>1. [[fr EXCEPT !.cur = NoTask, !.loop = NoLoop] EXCEPT !.failed = @ \cup {t}] = bad
      BY <1>1 DEF Shape
    <3> QED
      BY <2>1, <3>1 DEF EndLoop
  <2>2. CASE ~L.bad
    <3> DEFINE done == [fr EXCEPT !.cur = NoTask, !.loop = NoLoop]
               o == IF \A i \in DOMAIN list : list[i] = Missing THEN done.out ELSE Put(done.out, t, v)
    <3>1. Update(f, [done EXCEPT !.st = Put(@, t, "SUCCEEDED"), !.out = o])
      BY <2>2 DEF EndLoop
    <3>2. o = fr.out \/ o = Put(fr.out, t, v)
      BY <1>1 DEF Shape
    <3> HIDE DEF o, v, list
    <3>3. [done EXCEPT !.st = Put(@, t, "SUCCEEDED"), !.out = o] = Good2(o)
      BY <1>1 DEF Shape
    <3>4. Update(f, Good2(o))
      BY <3>1, <3>3
    <3>5. L.got = 1 .. L.n
      BY <1>1, <2>2
    <3> HIDE DEF Good2, done
    <3> QED
      BY <3>2, <3>4, <3>5
  <2> QED
    BY <2>1, <2>2
<1>4. /\ bad.ins = fr.ins /\ bad.ret = fr.ret /\ bad.loop = NoLoop /\ bad.out = fr.out
      /\ \A o : Good2(o).ins = fr.ins /\ Good2(o).ret = fr.ret /\ Good2(o).loop = NoLoop /\ Good2(o).out = o
  BY <1>1 DEF Shape
<1>7. f \in Under(f)
  BY <1>1, UnderFacts DEF IInv
<1> HIDE DEF bad, Good2, v
<1>5. CASE L.got = 1 .. L.n /\ Update(f, Good2(Put(fr.out, t, v)))
  <2> DEFINE new == Good2(Put(fr.out, t, v))
  <2>1. /\ new.ins = fr.ins /\ new.ret = fr.ret /\ new.loop = NoLoop /\ new.out = Put(fr.out, t, v)
    BY <1>4
  <2>2. Frames' = Frames /\ frame'[f] = new
    BY <1>5 DEF Update, Frames
  <2> HIDE DEF new
  <2>3. Kept(f, t, v)
    <3>1. v.by.f = f /\ v.list = list
      BY DEF v, Value
    <3>2. f \in Under(f)
      BY <1>7
    <3>3. ASSUME NEW i \in DOMAIN list
          PROVE  /\ i \in Nat /\ Call(f, t, i) \in Frames /\ ~Active(Call(f, t, i))
                 /\ list[i] = frame[Call(f, t, i)].ret.out
      <4>1. i \in 1 .. L.n /\ list[i] = frame[Call(f, t, i)].ret.out
        BY DEF Aggregate, Iteration, Call
      <4>2. i \in L.got /\ i \notin L.raised /\ Call(f, t, i) \in Frames
        BY <1>2, <1>5, <4>1 DEF Published, Gathered
      <4>3. IterationEnded(f, t, i)
        BY <1>1, <4>1 DEF PoolShutDown
      <4> QED
        BY <1>2, <4>1, <4>2, <4>3 DEF IterationEnded, Iteration, Call
    <3> QED
      BY <1>2, <3>1, <3>2, <3>3 DEF Kept
  <2>4. ASSUME NEW u \in DOMAIN frame'[f].out PROVE Kept(f, u, frame'[f].out[u])
    <3>1. frame'[f].out[u] = IF u = t THEN v ELSE fr.out[u]
      BY <2>1, <2>2 DEF Put
    <3>2. u = t \/ u \in DOMAIN fr.out
      BY <2>1, <2>2 DEF Put
    <3> QED
      BY <2>3, <3>1, <3>2 DEF Published, Outputs
  <2>5. frame'[f].ret.out # Missing /\ Sound(f) => frame'[f].ret.out.by.f \in Under(f)
    BY <2>1, <2>2 DEF Published, Returned
  <2>6. Gathered(f)'
    BY <2>1, <2>2, MissingFacts DEF Gathered
  <2> QED
    BY <2>1, <2>2, <2>4, <2>5, <2>6, PublishedKept
<1>6. CASE Update(f, bad) \/ Update(f, Good2(fr.out))
  BY <1>4, <1>6, MissingFacts, PlainUpdate
<1> QED
  BY <1>3, <1>5, <1>6
(* The dag of frame f returns: what it publishes of its own comes from      *)
(* under f.                                                                 *)
LEMMA OwnOutput ==
  ASSUME IInv, Published, NEW f \in Frames, Own(f), NEW u \in DagOf(f).outs.from, get_task_output(f, u) # Missing
  PROVE  u \in DOMAIN frame[f].out /\ get_task_output(f, u) = frame[f].out[u]
<1> DEFINE H == HasOutput(f, u)
<1>1. f \in Paths /\ Len(f) \in Nat /\ Prefix(f, Len(f)) = f
  BY PrefixFacts, FrameFacts
<1>2. H \in SUBSET (0 .. Len(f)) /\ H # {}
  BY DEF HasOutput, get_task_output
<1>3. ASSUME NEW k \in H PROVE k = Len(f)
  <2> SUFFICES ASSUME k # Len(f) PROVE FALSE
    OBVIOUS
  <2>1. k \in 0 .. (Len(f) - 1) /\ u \in DOMAIN frame[Prefix(f, k)].out
    BY <1>1, <1>2 DEF HasOutput
  <2>2. Prefix(f, k) \in Frames
    BY <1>1, <2>1, PrefixesAreFrames DEF IInv
  <2>3. u \in DOMAIN TasksOf(Prefix(f, k))
    BY <2>1, <2>2 DEF Published, Outputs, Kept
  <2> QED
    BY <2>1, <2>3 DEF Own, TasksOf
<1>4. Len(f) \in H
  BY <1>2, <1>3
<1>5. Max(H) = Len(f)
  BY <1>1, <1>2, <1>4, LastIsMax
<1> QED
  BY <1>1, <1>2, <1>4, <1>5 DEF HasOutput, get_task_output

LEMMA FinishKept ==
  ASSUME Published, NEW f \in Frames, Alone(f), Finish(f)
  PROVE  Published'
<1> DEFINE fr == frame[f]
           O == DagOf(f).outs
           found == {u \in O.from : get_task_output(f, u) # Missing}
           u == CHOOSE x \in found : TRUE
           r == IF fr.failed # {} THEN Failure ELSE DagOutputs(f)
           new == [fr EXCEPT !.ret = r]
<1>1. IInv /\ Shape(fr) /\ Update(f, new)
  BY FrameFacts DEF Alone, Finish
<1>2. /\ r.out = Missing \/ (found # {} /\ r.out = get_task_output(f, u))
  <2>1. \/ r = Failure \/ r = Raised \/ r.out = Missing
        \/ Cardinality(found) = 1 /\ r.out = get_task_output(f, u)
    BY DEF DagOutputs
  <2>2. Cardinality(found) = 1 => found # {}
    BY FS_EmptySet
  <2> HIDE DEF found, u, r
  <2> QED
    BY <2>1, <2>2, MissingFacts
<1>3. new.ins = fr.ins /\ new.ret = r /\ new.loop = fr.loop /\ new.out = fr.out /\ new.cur = fr.cur
  <2> HIDE DEF r
  <2> QED
    BY <1>1 DEF Shape
<1>4. Frames' = Frames /\ frame'[f] = new
  <2> HIDE DEF new
  <2> QED
    BY <1>1 DEF Update, Frames
<1> HIDE DEF new, r
<1>5. ASSUME r.out # Missing, Sound(f) PROVE r.out.by.f \in Under(f)
  <2>1. u \in found /\ r.out = get_task_output(f, u)
    BY <1>2, <1>5
  <2> HIDE DEF u
  <2>2. u \in O.from /\ get_task_output(f, u) # Missing
    BY <2>1
  <2>3. f \in Under(f)
    BY <1>1, UnderFacts DEF IInv
  <2>4. Own(f) /\ SoundBelow(f)
    BY <1>5, <2>3 DEF Sound, SoundBelow
  <2>5. u \in DOMAIN fr.out /\ get_task_output(f, u) = fr.out[u]
    BY <1>1, <2>2, <2>4, OwnOutput
  <2>6. Kept(f, u, fr.out[u])
    BY <2>5 DEF Published, Outputs
  <2> QED
    BY <2>1, <2>4, <2>5, <2>6 DEF Kept
<1>6. \A t \in DOMAIN frame'[f].out : Kept(f, t, frame'[f].out[t])
  BY <1>3, <1>4 DEF Published, Outputs
<1>7. Gathered(f)'
  BY <1>3, <1>4 DEF Published, Gathered
<1> QED
  BY <1>3, <1>4, <1>5, <1>6, <1>7, PublishedKept

LEMMA NestedReturnsKept ==
  ASSUME Published, NEW f \in Frames, Alone(f), NEW t, NestedReturns(f, t)
  PROVE  Published'
<1> DEFINE fr == frame[f]
           c == Call(f, t, 0)
           k == frame[c].ret.k
           v == frame[c].ret.out
<1>1. /\ IInv /\ Shape(fr) /\ Local(fr, TasksOf(f)) /\ Good(TasksOf(f), Components)
      /\ fr.cur = t /\ t # NoTask /\ c \in Frames
      /\ k = "raised" => Raise(f)
      /\ k = "FAILURE" => TaskFails(f, t)
      /\ k \notin {"raised", "FAILURE"} => TaskSucceeds(f, t, v)
  BY FrameFacts DEF Alone, NestedReturns, Call
<1>2. t \in DOMAIN TasksOf(f) /\ t \in STRING
  BY <1>1 DEF Local, Placed, Good
<1>3. fr.loop.n = 0 /\ Kind(TasksOf(f)[t]) # "parallel_for"
  <2>1. Called(fr, TasksOf(f), Components, k, t, 0)
    BY <1>1, <1>2 DEF IInv, Tree
  <2>2. fr.loop.n \in Nat /\ ~(0 \in 1 .. fr.loop.next - 1)
    BY <1>1 DEF Shape, Loops
  <2>3. fr.loop.n = 0
    BY <1>1, <2>1, <2>2 DEF Called
  <2> QED
    BY <1>1, <2>3 DEF Local, LoopOK
<1>4. ASSUME v # Missing PROVE Kept(f, t, v)
  <2>1. Under(c) \subseteq Under(f) /\ f \notin Under(c)
    BY <1>1, <1>2, UnderFacts DEF IInv
  <2>2. Sound(c) => v.by.f \in Under(c)
    BY <1>1, <1>4 DEF Published, Returned
  <2>3. SoundBelow(f) => Sound(c)
    BY <2>1 DEF Sound, SoundBelow
  <2> QED
    BY <1>2, <1>3, <2>1, <2>2, <2>3 DEF Kept
<1> HIDE DEF c, k, v
<1>5. CASE k = "raised"
  BY <1>1, <1>5, RaiseKept
<1>6. CASE k = "FAILURE"
  BY <1>1, <1>3, <1>6, TaskFailsKept
<1>7. CASE k \notin {"raised", "FAILURE"}
  BY <1>1, <1>3, <1>4, <1>7, SuccessKept
<1> QED
  BY <1>5, <1>6, <1>7

(* A container succeeds, fails, raises or loses its exit code.              *)
LEMMA AttemptKept ==
  ASSUME Published, NEW f \in Frames, Alone(f), NEW t,
         AttemptSucceeds(f, t) \/ AttemptFails(f, t) \/ ExitCodeLost(f, t) \/ AttemptRaises(f, t)
  PROVE  Published'
<1> DEFINE fr == frame[f]
<1>1. IInv /\ Executing(f, t) /\ Shape(fr) /\ Local(fr, TasksOf(f))
  BY FrameFacts DEF Alone, AttemptSucceeds, AttemptFails, ExitCodeLost, AttemptRaises
<1>2. t = fr.cur /\ t # NoTask /\ Kind(TasksOf(f)[t]) # "parallel_for" /\ t \in DOMAIN TasksOf(f)
  BY <1>1, ExecutingAlone
<1>3. fr.loop.n = 0
  BY <1>1, <1>2 DEF Local, LoopOK
<1>4. f \in Under(f)
  BY <1>1, UnderFacts DEF IInv
<1>5. \A b, list : Kept(f, t, Value(f, t, 0, b, list))
  BY <1>2, <1>4, MissingFacts DEF Kept
<1>6. CASE \E b : TaskSucceeds(f, t, Value(f, t, 0, b, <<>>))
  <2>1. PICK b : TaskSucceeds(f, t, Value(f, t, 0, b, <<>>))
    BY <1>6
  <2> QED
    BY <1>1, <1>3, <1>5, <2>1, SuccessKept
<1>7. CASE TaskSucceeds(f, t, Missing)
  BY <1>1, <1>3, <1>7, SuccessKept
<1>8. CASE TaskFails(f, t)
  BY <1>1, <1>3, <1>8, TaskFailsKept
<1>9. CASE Raise(f)
  BY <1>1, <1>9, RaiseKept
<1>10. CASE Update(f, [fr EXCEPT !.att = @ + 1])
  <2> DEFINE new == [fr EXCEPT !.att = @ + 1]
  <2>1. new.ins = fr.ins /\ new.ret = fr.ret /\ new.loop = fr.loop /\ new.out = fr.out /\ new.cur = fr.cur
    BY <1>1 DEF Shape
  <2>2. Update(f, new)
    BY <1>10
  <2> HIDE DEF new
  <2> QED
    BY <2>1, <2>2, PlainUpdate
<1> QED
  BY <1>6, <1>7, <1>8, <1>9, <1>10 DEF AttemptSucceeds, AttemptFails, ExitCodeLost, AttemptRaises

(* A task is passed over, taken up, or its loop begins.                     *)
LEMMA TakenKept ==
  ASSUME Published, NEW f \in Frames, Alone(f), NEW t \in frame[f].todo,
         SkipForFailedUpstream(f, t) \/ RunTask(f, t) \/ SkipCondition(f, t) \/ BeginLoop(f, t)
  PROVE  Published'
<1> DEFINE fr == frame[f]
<1>1. IInv /\ Shape(fr) /\ Local(fr, TasksOf(f)) /\ Good(TasksOf(f), Components) /\ Task(f, t) = TasksOf(f)[t]
  BY FrameFacts DEF Alone
<1>2. fr.cur = NoTask /\ fr.loop.n = 0 /\ t \in DOMAIN TasksOf(f) /\ t \in STRING
  BY <1>1 DEF Local, LoopOK, Placed, Good, SkipForFailedUpstream, RunTask, SkipCondition, BeginLoop, Idle
<1>3. CASE RunTask(f, t)
  <2>1. execute_task(f, t) /\ Kind(TasksOf(f)[t]) # "parallel_for"
    BY <1>1, <1>3 DEF RunTask
  <2>2. Call(f, t, 0) \notin Frames
    BY <1>1, <1>2 DEF IInv, Tree, Called, Waiting
  <2> QED
    BY <1>2, <2>1, <2>2, ExecuteKept
<1>4. ASSUME NEW new, Update(f, new), new.ins = fr.ins, new.ret = fr.ret, new.out = fr.out,
             new.loop = fr.loop \/ new.loop.got = {}
      PROVE  Published'
  BY <1>2, <1>4, PlainUpdate
<1>5. CASE SkipForFailedUpstream(f, t)
  <2> DEFINE new == [fr EXCEPT !.todo = @ \ {t}, !.failed = @ \cup {t}, !.st = Put(@, t, "FAILED")]
  <2>1. Update(f, new)
    BY <1>5 DEF SkipForFailedUpstream
  <2>2. new.ins = fr.ins /\ new.ret = fr.ret /\ new.loop = fr.loop /\ new.out = fr.out
    BY <1>1 DEF Shape
  <2> HIDE DEF new
  <2> QED
    BY <1>4, <2>1, <2>2
<1>6. ASSUME Update(f, [fr EXCEPT !.todo = @ \ {t}]) PROVE Published'
  <2> DEFINE new == [fr EXCEPT !.todo = @ \ {t}]
  <2>1. Update(f, new)
    BY <1>6
  <2>2. new.ins = fr.ins /\ new.ret = fr.ret /\ new.loop = fr.loop /\ new.out = fr.out
    BY <1>1 DEF Shape
  <2> HIDE DEF new
  <2> QED
    BY <1>4, <2>1, <2>2
<1>7. CASE SkipCondition(f, t)
  BY <1>6, <1>7 DEF SkipCondition
<1>8. ASSUME NEW n, Update(f, [fr EXCEPT !.todo = @ \ {t}, !.cur = IF n = 0 THEN NoTask ELSE t,
                                         !.loop = [NoLoop EXCEPT !.n = n]])
      PROVE  Published'
  <2> DEFINE l == [NoLoop EXCEPT !.n = n]
             new == [fr EXCEPT !.todo = @ \ {t}, !.cur = IF n = 0 THEN NoTask ELSE t, !.loop = l]
  <2>1. Update(f, new)
    BY <1>8
  <2>2. l.got = {}
    BY DEF NoLoop
  <2> HIDE DEF l
  <2>3. new.ins = fr.ins /\ new.ret = fr.ret /\ new.loop = l /\ new.out = fr.out
    BY <1>1 DEF Shape
  <2> HIDE DEF new
  <2> QED
    BY <1>4, <2>1, <2>2, <2>3
<1>9. CASE BeginLoop(f, t)
  <2>1. CASE Raise(f)
    BY <1>1, <2>1, RaiseKept
  <2>2. CASE Update(f, [fr EXCEPT !.todo = @ \ {t}])
    BY <1>6, <2>2
  <2>3. CASE \E n \in 0 .. Task(f, t).iter.max :
               Update(f, [fr EXCEPT !.todo = @ \ {t}, !.cur = IF n = 0 THEN NoTask ELSE t,
                                    !.loop = [NoLoop EXCEPT !.n = n]])
    BY <1>8, <2>3
  <2> QED
    BY <1>9, <2>1, <2>2, <2>3 DEF BeginLoop
<1> QED
  BY <1>3, <1>5, <1>7, <1>9

LEMMA RunExitTaskKept ==
  ASSUME Published, NEW f \in Frames, Alone(f), NEW t \in frame[f].exits, RunExitTask(f, t)
  PROVE  Published'
<1>1. IInv /\ Local(frame[f], TasksOf(f)) /\ Good(TasksOf(f), Components)
  BY FrameFacts DEF Alone
<1>2. execute_task(f, t) /\ frame[f].cur = NoTask
  BY DEF RunExitTask, Idle
<1>3. t \in DOMAIN TasksOf(f) /\ ExitTask(TasksOf(f)[t]) /\ t \in STRING
  BY <1>1 DEF Local, Placed, Good
<1>4. Kind(TasksOf(f)[t]) # "parallel_for"
  BY <1>3, Kinds
<1>5. Call(f, t, 0) \notin Frames
  BY <1>1, <1>3 DEF IInv, Tree, Called, Waiting
<1> QED
  BY <1>2, <1>3, <1>4, <1>5, ExecuteKept

LEMMA StepKept ==
  ASSUME IInv, Published, NEW f \in Frames, Step(f)
  PROVE  Published'
<1>1. Active(f)
  BY DEF Step, SkipForFailedUpstream, RunTask, SkipCondition, BeginLoop, RunExitTask, Idle, AttemptSucceeds,
         AttemptFails, ExitCodeLost, AttemptRaises, Executing, NestedReturns, IterationStarts, CollectIteration,
         EndLoop, Looping, Finish
<1>2. Alone(f)
  BY <1>1, StepDone, DoneAlone
<1> QED
  BY <1>2, TakenKept, RunExitTaskKept, AttemptKept, NestedReturnsKept, IterationStartsKept, CollectIterationKept,
     EndLoopKept, FinishKept DEF Step

LEMMA InitPublished == Init => Published
<1> SUFFICES ASSUME Init PROVE Published
  OBVIOUS
<1> DEFINE ins == [n \in pipeline.components[pipeline.root].params |-> Default]
           fr == NewFrame(pipeline.root, ins)
<1>1. frame = [f \in {<<>>} |-> fr]
  BY DEF Init
<1> HIDE DEF ins
<1>2. Frames = {<<>>} /\ frame[<<>>] = fr
  BY <1>1 DEF Frames
<1>3. fr.out = <<>> /\ DOMAIN fr.out = {} /\ fr.ret = NotReturned /\ fr.loop = NoLoop
  BY DEF NewFrame
<1> HIDE DEF fr
<1>4. \A f \in Frames : Outputs(f) /\ Returned(f) /\ Gathered(f)
  BY <1>2, <1>3, MissingFacts DEF Outputs, Returned, Gathered
<1>5. \A t \in STRING, i \in Nat : Call(<<>>, t, i) \notin Frames
  <2>1. <<>> \in Paths
    BY DEF Paths
  <2> QED
    BY <1>2, <2>1, PathFacts
<1> QED
  BY <1>2, <1>4, <1>5 DEF Published, ItemsGiven

LEMMA NextPublished == IInv /\ Published /\ [Next]_vars => Published'
<1> SUFFICES ASSUME IInv, Published, [Next]_vars PROVE Published'
  OBVIOUS
<1>1. ASSUME NEW f \in Frames, Step(f) PROVE Published'
  BY <1>1, StepKept
<1>2. ASSUME UNCHANGED <<pipeline, frame>> PROVE Published'
  <2>1. Frames' = Frames /\ \A g : TasksOf(g)' = TasksOf(g) /\ DagOf(g)' = DagOf(g) /\ (Active(g)' <=> Active(g))
    BY <1>2 DEF Frames, TasksOf, DagOf, Active
  <2>2. \A g : Under(g)' = Under(g) /\ (Own(g)' <=> Own(g))
    BY <2>1 DEF Under, Own
  <2>3. \A g : (Sound(g)' <=> Sound(g)) /\ (SoundBelow(g)' <=> SoundBelow(g))
    BY <2>2 DEF Sound, SoundBelow
  <2>4. \A g, t, v : Kept(g, t, v)' <=> Kept(g, t, v)
    BY <1>2, <2>1, <2>2, <2>3 DEF Kept
  <2>5. \A g \in Frames : Outputs(g)'
    BY <1>2, <2>4 DEF Published, Outputs
  <2>6. \A g \in Frames : Returned(g)' /\ Gathered(g)'
    BY <1>2, <2>1, <2>2, <2>3 DEF Published, Returned, Gathered
  <2>7. ItemsGiven'
    BY <1>2, <2>1 DEF Published, ItemsGiven
  <2> QED
    BY <2>1, <2>5, <2>6, <2>7 DEF Published
<1> QED
  BY <1>1, <1>2 DEF Next, Return, vars

(* dsl.Collected: whatever the order in which the threads of the pool       *)
(* finished, and however deep the dags are nested, the list of a loop holds *)
(* at each place what was produced below the iteration that was given the   *)
(* item of that place.                                                      *)
THEOREM OutputsKeepTheirPlaces == Spec => []CollectedInOrder
<1>1. ASSUME IInv, Published PROVE CollectedInOrder
  <2> SUFFICES ASSUME NEW f \in Frames, NEW t \in DOMAIN frame[f].out, Kind(Task(f, t)) = "parallel_for",
                      NEW i \in DOMAIN frame[f].out[t].list
               PROVE  /\ frame[Iteration(f, t, i)].ins[Task(f, t).iter.item] = Item(f, t, i)
                      /\ /\ frame[f].out[t].list[i] # Missing
                         /\ \A h \in Under(Iteration(f, t, i)) : Own(h)
                         => frame[f].out[t].list[i].by.f \in Under(Iteration(f, t, i))
    BY DEF CollectedInOrder
  <2>1. Task(f, t) = TasksOf(f)[t] /\ Good(TasksOf(f), Components)
    BY <1>1, FrameFacts
  <2>2. Kept(f, t, frame[f].out[t])
    BY <1>1 DEF Published, Outputs
  <2>3. /\ t \in DOMAIN TasksOf(f) /\ i \in Nat /\ Call(f, t, i) \in Frames
        /\ frame[f].out[t].list[i] = frame[Call(f, t, i)].ret.out
    BY <2>1, <2>2 DEF Kept
  <2>4. t \in STRING /\ Iteration(f, t, i) = Call(f, t, i)
    BY <2>1, <2>3 DEF Good, Iteration, Call
  <2>5. frame[Call(f, t, i)].ins[TasksOf(f)[t].iter.item] = Item(f, t, i)
    BY <1>1, <2>1, <2>3, <2>4 DEF Published, ItemsGiven
  <2>6. Returned(Call(f, t, i))
    BY <1>1, <2>3 DEF Published
  <2> QED
    BY <2>1, <2>3, <2>4, <2>5, <2>6 DEF Returned, Sound
<1>2. Spec => []Published
  BY InitPublished, NextPublished, Invariance, PTL DEF Spec
<1> QED
  BY <1>1, <1>2, Invariance, PTL
=============================================================================
