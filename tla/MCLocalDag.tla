----------------------------- MODULE MCLocalDag -----------------------------
(* Instances of LocalDag: compiled pipelines of the shapes the compiler emits. *)
EXTENDS LocalDag, TLC

Src(k, n) == [kind |-> k, name |-> n]
NoSrc == Src("none", "")
NoCond == [src |-> NoSrc, neg |-> FALSE]
NoIter == [kind |-> "none", src |-> NoSrc, item |-> "", limit |-> 0, max |-> 0]

(* A container task, and the same with one field changed. *)
Exec(deps, params) ==
  [comp |-> "container", deps |-> deps, params |-> params, arts |-> <<>>,
   strategy |-> "all_succeeded", cond |-> NoCond, iter |-> NoIter, retries |-> 0,
   truths |-> {TRUE}]
Dag(comp, deps, params) == [Exec(deps, params) EXCEPT !.comp = comp]
Always(T) == [T EXCEPT !.strategy = "all_completed"]
If(T, n, neg) == [T EXCEPT !.cond = [src |-> Src("task", n), neg |-> neg]]
For(T, kind, src, limit, max) ==
  [T EXCEPT !.iter = [kind |-> kind, src |-> src, item |-> "item", limit |-> limit, max |-> max]]
From(n, t) == n :> Src("task", t)
Parent(n) == n :> Src("parent", n)
Status(t) == "status" :> Src("final_status", t)

Out(kind, from) == [kind |-> kind, from |-> from]
Body(tasks, params, outs) == [tasks |-> tasks, params |-> params, arts |-> {}, outs |-> outs]
Leaf(params) == Body("op" :> Exec({}, [n \in params |-> Src("parent", n)]), params, Out("param", {"op"}))
NoOut == Out("none", {})

(* a -> b, c: no control flow, run by run_dag. *)
Sequential ==
  [root |-> "root", components |->
    "root" :> Body("a" :> Exec({}, Parent("x")) @@ "b" :> Exec({"a"}, From("in", "a"))
                   @@ "c" :> Exec({"a"}, <<>>), {"x"}, Out("param", {"b"}))]

(* dsl.ExitHandler around three tasks, one of them retried, and a task after it. *)
ExitHandler ==
  [root |-> "root", components |->
    "root" :> Body("eh" :> Dag("eh", {}, <<>>) @@ "bye" :> Always(Exec({"eh"}, Status("eh")))
                   @@ "next" :> Exec({"eh"}, <<>>), {}, NoOut)
    @@ "eh" :> Body("a" :> [Exec({}, <<>>) EXCEPT !.retries = 1]
                    @@ "b" :> Exec({"a"}, <<>>) @@ "c" :> Exec({"b"}, From("in", "b")), {}, NoOut)]

(* dsl.ParallelFor and dsl.Collected, with a clean-up task that ignores failures. *)
Loop ==
  [root |-> "root", components |->
    "root" :> Body("loop" :> For(Dag("body", {}, Parent("x")), "parameter", Src("parent", "x"), 0, 3)
                   @@ "use" :> Exec({"loop"}, From("all", "loop"))
                   @@ "clean" :> Always(Exec({"loop"}, <<>>)), {"x"}, NoOut)
    @@ "body" :> Leaf({"item", "x"})]

(* Two loops, one inside the other, the inner one sequential. *)
NestedLoops ==
  [root |-> "root", components |->
    "root" :> Body("outer" :> For(Dag("mid", {}, <<>>), "parameter", Src("const", ""), 0, 2), {}, NoOut)
    @@ "mid" :> Body("inner" :> For(Dag("body", {}, <<>>), "parameter", Src("const", ""), 1, 2),
                     {"item"}, Out("param", {"inner"}))
    @@ "body" :> Leaf({"item"})]

(* dsl.If / dsl.Else on the output of a task, and dsl.OneOf on the branches. *)
OneOf ==
  [root |-> "root", components |->
    "root" :> Body("flip" :> [Exec({}, <<>>) EXCEPT !.truths = BOOLEAN]
                   @@ "branches" :> Dag("branches", {"flip"}, From("c", "flip"))
                   @@ "use" :> Exec({"branches"}, From("in", "branches")), {}, Out("param", {"use"}))
    @@ "branches" :> Body("if" :> If(Dag("leaf", {}, Parent("c")), "flip", FALSE)
                          @@ "else" :> If(Dag("leaf", {}, Parent("c")), "flip", TRUE),
                          {"c"}, Out("oneof", {"if", "else"}))
    @@ "leaf" :> Leaf({"c"})]

(* A pipeline used as a component, given a parameter and an artifact of an earlier task. *)
SubPipeline ==
  [root |-> "root", components |->
    "root" :> Body("a" :> Exec({}, <<>>)
                   @@ "sub" :> [Dag("sub", {"a"}, Parent("x")) EXCEPT !.arts = From("model", "a")]
                   @@ "b" :> Always(Exec({"sub"}, <<>>)), {"x"}, Out("param", {"sub"}))
    @@ "sub" :> [Body("a" :> [Exec({}, Parent("x")) EXCEPT !.arts = Parent("model")], {"x"},
                      Out("param", {"a"})) EXCEPT !.arts = {"model"}]]

(* A loop over artifacts whose list a task produced, and in it a pipeline used as a        *)
(* component, whose task has the name of that task.                                        *)
ArtifactLoop ==
  [root |-> "root", components |->
    "root" :> Body("make" :> Exec({}, <<>>)
                   @@ "loop" :> For(Dag("body", {"make"}, <<>>), "artifact", Src("task", "make"), 0, 2),
                   {}, Out("param", {"loop"}))
    @@ "body" :> Body("sub" :> Dag("sub", {}, Parent("item")), {"item"}, Out("param", {"sub"}))
    @@ "sub" :> Body("make" :> Exec({}, Parent("item")), {"item"}, Out("param", {"make"}))]

SupportedPipelines == {Sequential, ExitHandler, Loop, NestedLoops, OneOf, SubPipeline, ArtifactLoop}
=============================================================================
