------------------------------ MODULE LocalDag ------------------------------
(***************************************************************************)
(* The local runner of the SDK (sdk/python/kfp/local): it runs a compiled  *)
(* pipeline on the author's machine. One call of run_enhanced_dag (or of   *)
(* run_dag) is a FRAME: its IOStore, the tasks still to run, the task in   *)
(* progress and what the call returned. A frame is named by the path of    *)
(* <<task, iteration>> calls that leads to it (iteration 0 outside loops), *)
(* so the chain of parent stores of a frame is the prefixes of its path.   *)
(* Frames of one loop run at the same time, on the threads of its pool.    *)
(*                                                                         *)
(* A value is who produced it, the truth a condition finds in it and, for  *)
(* the aggregated output of a loop, the list of the iterations' values.    *)
(* Every component has at most one output. The list a loop runs over is    *)
(* any list of up to iter.max items; a task's truths are what a condition  *)
(* may find in its output.                                                 *)
(***************************************************************************)
EXTENDS Integers, Sequences, FiniteSets, FiniteSetsExt

CONSTANTS
  Pipelines,   \* the compiled pipelines a run may be given (see Pipelines in the MC module)
  Runners      \* the runners local.init may be given: "subprocess", "docker"

ASSUME RunnersAssumption == Runners \subseteq {"subprocess", "docker"}

VARIABLES
  pipeline,    \* [root |-> component, components |-> [name -> dag]]: what is run
  runner,      \* the runner in the LocalExecutionConfig
  frame,       \* path -> the state of that call
  broken,      \* history: <<frame, task>> whose last container exited with an error
  result,      \* what run_local_pipeline did: "running", "SUCCESS", "FAILURE", "raised"
  workspace    \* the workspace directory exists

vars == <<pipeline, runner, frame, broken, result, workspace>>

-----------------------------------------------------------------------------
(* A mapping with one entry set, and one filled up with the entries of another *)

Put(m, k, v) == [x \in DOMAIN m \cup {k} |-> IF x = k THEN v ELSE m[x]]
Fill(m, more) == [x \in DOMAIN m \cup DOMAIN more |-> IF x \in DOMAIN m THEN m[x] ELSE more[x]]

-----------------------------------------------------------------------------
(* Values, and the results of a call *)

Value(f, t, i, b, list) == [by |-> [f |-> f, t |-> t, i |-> i], truth |-> b, list |-> list]
Missing == Value(<<>>, "", -1, FALSE, <<>>)        \* no value: the lookup raises ValueError
Default == Value(<<>>, "", 0, FALSE, <<>>)         \* a constant, or an input's default
Item(f, t, i) == Value(f, t, i, TRUE, <<>>)        \* the i-th item of the list a loop runs over

NoTask == ""
NotReturned == [k |-> "none", out |-> Missing]
Raised == [k |-> "raised", out |-> Missing]
Failure == [k |-> "FAILURE", out |-> Missing]
NoLoop == [n |-> 0, next |-> 1, raised |-> {}, got |-> {}, bad |-> FALSE]

Frames == DOMAIN frame
Prefix(f, k) == SubSeq(f, 1, k)
Components == DOMAIN pipeline.components
DagOf(f) == pipeline.components[frame[f].comp]
Task(f, t) == DagOf(f).tasks[t]
Nested(T) == T.comp \in Components

-----------------------------------------------------------------------------
(* IOStore: a lookup that misses walks up the enclosing frames *)

HasOutput(f, t) == {k \in 0..Len(f) : t \in DOMAIN frame[Prefix(f, k)].out}

get_task_output(f, t) ==
  IF HasOutput(f, t) = {} THEN Missing ELSE frame[Prefix(f, Max(HasOutput(f, t)))].out[t]

HasInput(f, n) == {k \in 0..Len(f) : n \in DOMAIN frame[Prefix(f, k)].ins}

get_parent_input(f, n) ==
  IF HasInput(f, n) = {} THEN Missing ELSE frame[Prefix(f, Max(HasInput(f, n)))].ins[n]

(* The status a task_final_status input receives: SUCCEEDED when none was recorded. *)
HasStatus(f, t) == {k \in 0..Len(f) : t \in DOMAIN frame[Prefix(f, k)].st}

FinalStatus(f, t) ==
  IF HasStatus(f, t) = {} THEN "SUCCEEDED" ELSE frame[Prefix(f, Max(HasStatus(f, t)))].st[t]

Resolve(f, src) ==
  CASE src.kind = "task"                    -> get_task_output(f, src.name)
    [] src.kind \in {"parent", "loop_item"} -> get_parent_input(f, src.name)
    [] OTHER                                -> Default       \* a constant, or a final status

make_task_arguments(f, T) ==
  [n \in DOMAIN T.params \cup DOMAIN T.arts |->
     Resolve(f, IF n \in DOMAIN T.params THEN T.params[n] ELSE T.arts[n])]

(* The task spec of one iteration: the item replaces the item input, and also every input *)
(* that the loop task takes from the output of a task or from the item of an outer loop.   *)
create_loop_iteration_task_spec(T, args, item) ==
  [n \in DOMAIN args \cup {T.iter.item} |->
     IF \/ n = T.iter.item
        \/ /\ T.iter.kind = "parameter" /\ n \in DOMAIN T.params
           /\ T.params[n].kind \in {"task", "loop_item"}
     THEN item ELSE args[n]]

(* A nested dag without parameter inputs is called with its defaults: its task's inputs are *)
(* not resolved.                                                                            *)
InputsResolved(T, item) ==
  ~Nested(T) \/ DOMAIN T.params # {} \/ (item # Missing /\ T.iter.kind = "parameter")

Arguments(f, T, item) ==
  LET args == IF InputsResolved(T, item) THEN make_task_arguments(f, T)
              ELSE [n \in pipeline.components[T.comp].params |-> Default]
  IN IF item = Missing THEN args ELSE create_loop_iteration_task_spec(T, args, item)

(* make_task_arguments raises when a producer has no such output. *)
ArgumentsRaise(f, T, item) ==
  LET args == Arguments(f, T, item) IN \E n \in DOMAIN args : args[n] = Missing

(* The arguments of a nested dag: declared inputs that the task does not bind are looked   *)
(* up by their own name in the enclosing frames, and parameters finally get their default. *)
build_nested_dag_arguments(f, T, item) ==
  LET D == pipeline.components[T.comp]
      given == Arguments(f, T, item)
      inherited == [n \in {m \in (D.params \cup D.arts) \ DOMAIN given : HasInput(f, m) # {}} |->
                      get_parent_input(f, n)]
      bound == Fill(given, inherited)
  IN Fill(bound, [n \in D.params |-> Default])

-----------------------------------------------------------------------------
(* The task kinds of run_enhanced_dag *)

ExitTask(T) ==
  T.strategy = "all_completed" /\ \E n \in DOMAIN T.params : T.params[n].kind = "final_status"

Kind(T) ==
  IF ExitTask(T) THEN "exit"
  ELSE IF T.cond.src.kind # "none" THEN "condition"
  ELSE IF T.iter.kind # "none" THEN "parallel_for" ELSE "regular"

(* What the compiler sees to, and run_enhanced_dag takes for granted: the body of a loop is *)
(* a dag; nothing waits for an exit task; and an exit task watches one task, the dag of its *)
(* ExitHandler.                                                                             *)
WellFormed(p) ==
  /\ p.root \in DOMAIN p.components
  /\ \A c \in DOMAIN p.components :
       LET ts == p.components[c].tasks
       IN /\ DOMAIN ts \subseteq STRING \ {NoTask}
          /\ \A t \in DOMAIN ts :
               /\ ts[t].iter.kind # "none" => ts[t].comp \in DOMAIN p.components
               /\ ts[t].iter.max \in Nat
               /\ \A u \in DOMAIN ts : ExitTask(ts[u]) => u \notin ts[t].deps
               /\ \A m, n \in DOMAIN ts[t].params :
                    ts[t].params[m].kind = "final_status" /\ ts[t].params[n].kind = "final_status"
                      => /\ ts[t].params[m].name = ts[t].params[n].name
                         /\ ts[t].params[m].name \in DOMAIN ts
                         /\ Kind(ts[ts[t].params[m].name]) = "regular"
                         /\ ts[t].strategy = "all_completed"

ASSUME PipelinesAssumption == \A p \in Pipelines : WellFormed(p)

(* run_local_pipeline leaves the plain run_dag, which stops at the first failure, for      *)
(* pipelines without any control flow.                                                     *)
HasControlFlow(p) ==
  LET ts == p.components[p.root].tasks
  IN \/ p.components[p.root].outs.kind = "oneof"
     \/ \E t \in DOMAIN ts :
          \/ Kind(ts[t]) # "regular" \/ ts[t].strategy = "all_completed"
          \/ ts[t].comp \in DOMAIN p.components

NewFrame(comp, ins) ==
  LET ts == pipeline.components[comp].tasks
      exits == {t \in DOMAIN ts : ExitTask(ts[t])}
  IN [comp |-> comp, todo |-> DOMAIN ts \ exits, exits |-> exits, cur |-> NoTask, att |-> 0,
      ins |-> ins, out |-> <<>>, st |-> <<>>, failed |-> {}, saw |-> <<>>, loop |-> NoLoop,
      ret |-> NotReturned]

Init ==
  /\ pipeline \in Pipelines
  /\ runner \in Runners
  /\ frame = [f \in {<<>>} |-> NewFrame(pipeline.root,
                                [n \in pipeline.components[pipeline.root].params |-> Default])]
  /\ broken = {}
  /\ result = "running"
  /\ workspace = TRUE

-----------------------------------------------------------------------------
(* The loop over the tasks of one frame *)

Active(f) == frame[f].ret.k = "none"

(* run_dag returns at the first failure; run_enhanced_dag goes on with the other tasks. *)
Stopped(f) == f = <<>> /\ ~HasControlFlow(pipeline) /\ frame[f].failed # {}

Idle(f) == Active(f) /\ frame[f].cur = NoTask /\ ~Stopped(f)
Update(f, fr) == frame' = [frame EXCEPT ![f] = fr]
Raise(f) == Update(f, [frame[f] EXCEPT !.ret = Raised])
Quiet == UNCHANGED <<pipeline, runner, broken, result, workspace>>

(* Mutant of Ready: the sorted stack is popped from the wrong end, without regard to       *)
(* dependencies.                                                                           *)
ReadyUnsorted(f) == {t \in frame[f].todo : Task(f, t).deps \cap frame[f].todo = {} \/ f # <<>>}

(* topological_sort_tasks: a depth-first sort of the task map, in the map's order, which   *)
(* protobuf leaves open; so the next task is any task all of whose dependencies within the *)
(* body have been taken.                                                                   *)
Ready(f) == {t \in frame[f].todo : Task(f, t).deps \cap frame[f].todo = {}}

FailedDeps(f, t) == Task(f, t).deps \cap frame[f].failed

Gated(f, t) == FailedDeps(f, t) # {} /\ Task(f, t).strategy # "all_completed"

SkipForFailedUpstream(f, t) ==
  /\ Idle(f) /\ t \in Ready(f) /\ Gated(f, t)
  /\ Update(f, [frame[f] EXCEPT !.todo = @ \ {t}, !.failed = @ \cup {t},
                                !.st = Put(@, t, "FAILED")])
  /\ Quiet

(* execute_task: resolve the inputs, then call run_enhanced_dag for a dag component or     *)
(* start the first attempt of a container or importer.                                     *)
execute_task(f, t) ==
  LET T == Task(f, t)
      statusOf == {n \in DOMAIN T.params : T.params[n].kind = "final_status"}
      begun == [frame[f] EXCEPT
                  !.todo = @ \ {t}, !.exits = @ \ {t}, !.cur = t, !.att = 0,
                  !.saw = IF statusOf = {} THEN @
                          ELSE Put(@, t, FinalStatus(f, T.params[CHOOSE n \in statusOf : TRUE].name))]
  IN IF ArgumentsRaise(f, T, Missing)
     THEN Raise(f)
     ELSE IF Nested(T)
     THEN frame' = Put([frame EXCEPT ![f] = begun], Append(f, <<t, 0>>),
                       NewFrame(T.comp, build_nested_dag_arguments(f, T, Missing)))
     ELSE Update(f, begun)

(* evaluate_condition: a reference that cannot be resolved, or has no value, is False. *)
evaluate_condition(f, cond) ==
  LET v == Resolve(f, cond.src)
  IN v \notin {Missing, Default} /\ v.truth # cond.neg

RunTask(f, t) ==
  /\ Idle(f) /\ t \in Ready(f) /\ ~Gated(f, t)
  /\ \/ Kind(Task(f, t)) = "regular"
     \/ Kind(Task(f, t)) = "condition" /\ evaluate_condition(f, Task(f, t).cond)
  /\ execute_task(f, t)
  /\ Quiet

SkipCondition(f, t) ==
  /\ Idle(f) /\ t \in Ready(f) /\ ~Gated(f, t)
  /\ Kind(Task(f, t)) = "condition" /\ ~evaluate_condition(f, Task(f, t).cond)
  /\ Update(f, [frame[f] EXCEPT !.todo = @ \ {t}])
  /\ Quiet

(* Mutant of RunExitTask: it waits for its own upstream only. *)
RunExitTaskEarly(f, t) ==
  /\ Idle(f) /\ t \in frame[f].exits /\ frame[f].todo \cap Task(f, t).deps = {}
  /\ execute_task(f, t)
  /\ Quiet

(* The exit tasks, once every task of the body has been dealt with. *)
RunExitTask(f, t) ==
  /\ Idle(f) /\ frame[f].todo = {} /\ t \in frame[f].exits
  /\ execute_task(f, t)
  /\ Quiet

-----------------------------------------------------------------------------
(* The task in progress *)

(* Mutant of TaskFails: the failure is noted for the gating, the status is not recorded. *)
TaskFailsUnrecorded(f, t) ==
  Update(f, [frame[f] EXCEPT !.cur = NoTask, !.failed = @ \cup {t}])

TaskFails(f, t) ==
  Update(f, [frame[f] EXCEPT !.cur = NoTask, !.failed = @ \cup {t}, !.st = Put(@, t, "FAILED")])

TaskSucceeds(f, t, v) ==
  Update(f, [frame[f] EXCEPT !.cur = NoTask, !.st = Put(@, t, "SUCCEEDED"),
                             !.out = IF v = Missing THEN @ ELSE Put(@, t, v)])

Executing(f, t) == Active(f) /\ frame[f].cur = t /\ t # NoTask /\ ~Nested(Task(f, t))

(* The container exits with 0; a component may end without writing its output. *)
AttemptSucceeds(f, t) ==
  /\ Executing(f, t)
  /\ \/ \E b \in Task(f, t).truths : TaskSucceeds(f, t, Value(f, t, 0, b, <<>>))
     \/ TaskSucceeds(f, t, Missing)
  /\ Quiet

AttemptFails(f, t) ==
  /\ Executing(f, t)
  /\ IF frame[f].att < Task(f, t).retries
     THEN Update(f, [frame[f] EXCEPT !.att = @ + 1]) /\ UNCHANGED broken
     ELSE TaskFails(f, t) /\ broken' = broken \cup {<<f, t>>}
  /\ UNCHANGED <<pipeline, runner, result, workspace>>

(* docker: the container was removed before its exit code was read, and 0 is assumed. *)
ExitCodeLost(f, t) ==
  /\ Executing(f, t) /\ runner = "docker"
  /\ TaskSucceeds(f, t, Missing)
  /\ broken' = broken \cup {<<f, t>>}
  /\ UNCHANGED <<pipeline, runner, result, workspace>>

(* The handler itself raises: no docker daemon, an image that cannot be pulled. *)
AttemptRaises(f, t) == Executing(f, t) /\ Raise(f) /\ Quiet

(* A nested run_enhanced_dag returns to its caller. *)
NestedReturns(f, t) ==
  LET c == Append(f, <<t, 0>>)
  IN /\ Active(f) /\ frame[f].cur = t /\ t # NoTask
     /\ c \in Frames /\ ~Active(c)
     /\ CASE frame[c].ret.k = "raised"  -> Raise(f)
          [] frame[c].ret.k = "FAILURE" -> TaskFails(f, t)
          [] OTHER                      -> TaskSucceeds(f, t, frame[c].ret.out)
     /\ Quiet

-----------------------------------------------------------------------------
(* ParallelFor: _run_parallel_for_task and the pool of ParallelExecutor *)

conservative_max == 2
Workers(T) == IF T.iter.limit > 0 THEN Min({T.iter.limit, conservative_max}) ELSE conservative_max

(* The items cannot be found: an error for a parameter list, a skipped loop for artifacts. *)
BeginLoop(f, t) ==
  LET T == Task(f, t)
  IN /\ Idle(f) /\ t \in Ready(f) /\ ~Gated(f, t) /\ Kind(T) = "parallel_for"
     /\ IF Resolve(f, T.iter.src) = Missing
        THEN IF T.iter.kind = "parameter" THEN Raise(f)
             ELSE Update(f, [frame[f] EXCEPT !.todo = @ \ {t}])
        ELSE \E n \in 0..T.iter.max :
               Update(f, [frame[f] EXCEPT !.todo = @ \ {t},
                                          !.cur = IF n = 0 THEN NoTask ELSE t,
                                          !.loop = [NoLoop EXCEPT !.n = n]])
     /\ Quiet

Looping(f, t) == Active(f) /\ frame[f].cur = t /\ t # NoTask /\ frame[f].loop.n > 0
Iteration(f, t, i) == Append(f, <<t, i>>)

IterationEnded(f, t, i) ==
  \/ i \in frame[f].loop.raised
  \/ Iteration(f, t, i) \in Frames /\ ~Active(Iteration(f, t, i))

IterationOk(f, t, i) ==
  i \notin frame[f].loop.raised /\ frame[Iteration(f, t, i)].ret.k = "SUCCESS"

Running(f, t) == {i \in 1..(frame[f].loop.next - 1) : ~IterationEnded(f, t, i)}

(* Iterations that no thread has taken yet. *)
Queued(f) == frame[f].loop.next <= frame[f].loop.n

(* A free thread of the pool takes the next iteration of the queue. *)
IterationStarts(f, t) ==
  LET L == frame[f].loop
      T == Task(f, t)
      item == Item(f, t, L.next)
  IN /\ Looping(f, t)
     /\ Queued(f) /\ Cardinality(Running(f, t)) < Workers(T)
     /\ IF ArgumentsRaise(f, T, item)
        THEN Update(f, [frame[f] EXCEPT !.loop.next = @ + 1, !.loop.raised = @ \cup {L.next}])
        ELSE frame' = Put([frame EXCEPT ![f].loop.next = @ + 1], Iteration(f, t, L.next),
                          NewFrame(T.comp, build_nested_dag_arguments(f, T, item)))
     /\ Quiet

(* as_completed: the caller takes the result of one iteration; the first failure ends the  *)
(* collection, and the rest of the queue still runs.                                       *)
CollectIteration(f, t) ==
  LET L == frame[f].loop
  IN /\ Looping(f, t) /\ ~L.bad
     /\ \E i \in (1..(L.next - 1)) \ L.got :
          /\ IterationEnded(f, t, i)
          /\ Update(f, IF IterationOk(f, t, i) THEN [frame[f] EXCEPT !.loop.got = @ \cup {i}]
                       ELSE [frame[f] EXCEPT !.loop.bad = TRUE])
     /\ Quiet

(* Mutant of PoolShutDown: the pool is left without waiting after a failure. *)
PoolShutDownNoWait(f, t) ==
  frame[f].loop.bad \/ \A i \in 1..frame[f].loop.n : IterationEnded(f, t, i)

(* shutdown(wait=True): every submitted iteration has ended. *)
PoolShutDown(f, t) ==
  ~Queued(f) /\ \A i \in 1..frame[f].loop.n : IterationEnded(f, t, i)

(* Mutant of Aggregate: the outputs are listed as the caller looked them up, last first. *)
AggregateReversed(f, t) ==
  [i \in 1..frame[f].loop.n |-> frame[Iteration(f, t, frame[f].loop.n + 1 - i)].ret.out]

(* The outputs of the iterations, in the order of the items. *)
Aggregate(f, t) == [i \in 1..frame[f].loop.n |-> frame[Iteration(f, t, i)].ret.out]

(* Mutant of EndLoop: the loop is over only when every iteration was collected. *)
EndLoopAllCollected(f, t) ==
  /\ Looping(f, t)
  /\ frame[f].loop.got = 1..frame[f].loop.n
  /\ Update(f, [frame[f] EXCEPT !.cur = NoTask, !.loop = NoLoop, !.st = Put(@, t, "SUCCEEDED")])
  /\ Quiet

(* Mutant of EndLoop: the outcome of the iterations is not looked at. *)
EndLoopAnyhow(f, t) ==
  /\ Looping(f, t)
  /\ frame[f].loop.bad \/ frame[f].loop.got = 1..frame[f].loop.n
  /\ PoolShutDown(f, t)
  /\ Update(f, [frame[f] EXCEPT !.cur = NoTask, !.loop = NoLoop, !.st = Put(@, t, "SUCCEEDED")])
  /\ Quiet

EndLoop(f, t) ==
  LET L == frame[f].loop
      done == [frame[f] EXCEPT !.cur = NoTask, !.loop = NoLoop]
  IN /\ Looping(f, t)
     /\ L.bad \/ L.got = 1..L.n
     /\ PoolShutDown(f, t)
     /\ IF L.bad
        THEN Update(f, [done EXCEPT !.failed = @ \cup {t}])
        ELSE LET list == Aggregate(f, t)
             IN Update(f, [done EXCEPT
                  !.st = Put(@, t, "SUCCEEDED"),
                  !.out = IF \A i \in DOMAIN list : list[i] = Missing THEN @
                          ELSE Put(@, t, Value(f, t, 0, TRUE, list))])
     /\ Quiet

-----------------------------------------------------------------------------
(* The end of a frame, and of the pipeline *)

(* get_dag_outputs: the value of one task, or of the only branch that has one. *)
DagOutputs(f) ==
  LET O == DagOf(f).outs
      found == {t \in O.from : get_task_output(f, t) # Missing}
  IN CASE O.kind = "none" -> [k |-> "SUCCESS", out |-> Missing]
       [] O.kind # "none" /\ Cardinality(found) = 1 ->
            [k |-> "SUCCESS", out |-> get_task_output(f, CHOOSE t \in found : TRUE)]
       [] OTHER -> Raised

Finish(f) ==
  /\ Active(f) /\ frame[f].cur = NoTask
  /\ Stopped(f) \/ (frame[f].todo = {} /\ frame[f].exits = {})
  /\ Update(f, [frame[f] EXCEPT !.ret = IF frame[f].failed # {} THEN Failure ELSE DagOutputs(f)])
  /\ Quiet

Return ==
  /\ result = "running" /\ ~Active(<<>>)
  /\ result' = frame[<<>>].ret.k
  /\ workspace' = FALSE
  /\ UNCHANGED <<pipeline, runner, frame, broken>>

(* What the thread of frame f may do next. *)
Step(f) ==
  \/ \E t \in frame[f].todo :
       SkipForFailedUpstream(f, t) \/ RunTask(f, t) \/ SkipCondition(f, t) \/ BeginLoop(f, t)
  \/ \E t \in frame[f].exits : RunExitTask(f, t)
  \/ LET t == frame[f].cur
     IN \/ AttemptSucceeds(f, t) \/ AttemptFails(f, t) \/ ExitCodeLost(f, t) \/ AttemptRaises(f, t)
        \/ NestedReturns(f, t)
        \/ IterationStarts(f, t) \/ CollectIteration(f, t) \/ EndLoop(f, t)
  \/ Finish(f)

Next == (\E f \in Frames : Step(f)) \/ Return

Spec == Init /\ [][Next]_vars

(* Every thread of the process is scheduled, and every container ends. *)
FairSpec == Spec /\ WF_vars(Next)

-----------------------------------------------------------------------------
(* Properties *)

(* In every dag, whatever its map order and however deep it is nested, a task that has been *)
(* taken up (run_enhanced_dag's pop) has all its upstream tasks behind it, and one that     *)
(* succeeded without opting in to failures has no failed upstream.                          *)
UpstreamFirst ==
  \A f \in Frames :
    LET fr == frame[f]
        waiting == fr.todo \cup fr.exits
    IN \A t \in DOMAIN DagOf(f).tasks \ waiting :
         /\ Task(f, t).deps \cap waiting = {}
         /\ t \in DOMAIN fr.st /\ fr.st[t] = "SUCCEEDED" /\ Task(f, t).strategy # "all_completed"
              => Task(f, t).deps \cap fr.failed = {}

(* The result of run_local_pipeline can be trusted: when it is SUCCESS, no task of any      *)
(* frame failed, no iteration of any loop failed or raised and, with the subprocess runner,  *)
(* no last attempt of a task exited with an error.                                          *)
SuccessIsSound ==
  result = "SUCCESS" =>
    /\ runner = "subprocess" => broken = {}
    /\ \A f \in Frames : frame[f].failed = {} /\ frame[f].ret.k = "SUCCESS"

(* An exit task is told FAILED exactly when the task it watches did fail (or was skipped    *)
(* for a failed upstream): make_task_arguments reads the status the orchestrator recorded,  *)
(* and takes a missing one for success.                                                     *)
FinalStatusIsTruthful ==
  \A f \in Frames : \A t \in DOMAIN frame[f].saw :
    \A n \in DOMAIN Task(f, t).params :
      Task(f, t).params[n].kind = "final_status" =>
        (frame[f].saw[t] = "FAILED") = (Task(f, t).params[n].name \in frame[f].failed)

(* Frame g and the frames it called, and these their own.                                   *)
Under(g) == {h \in Frames : Len(h) >= Len(g) /\ Prefix(h, Len(g)) = g}

(* No dag around frame g has a task with the name of one whose output g publishes: when its *)
(* own wrote none, the lookup of get_dag_outputs would go on to that one.                   *)
Own(g) ==
  \A k \in 0..(Len(g) - 1) : DagOf(g).outs.from \cap DOMAIN DagOf(Prefix(g, k)).tasks = {}

(* dsl.Collected: the list a loop publishes holds, at the place of each item, what a task   *)
(* below the iteration on that item has produced, in whatever order the pool's threads      *)
(* finished and however deep the dags in between are nested (Own says where it is not so).  *)
CollectedInOrder ==
  \A f \in Frames : \A t \in DOMAIN frame[f].out :
    Kind(Task(f, t)) = "parallel_for" =>
      LET list == frame[f].out[t].list
      IN \A i \in DOMAIN list :
           LET g == Iteration(f, t, i)
           IN /\ frame[g].ins[Task(f, t).iter.item] = Item(f, t, i)
              /\ list[i] # Missing /\ (\A h \in Under(g) : Own(h)) => list[i].by.f \in Under(g)

(* When run_local_pipeline has returned and removed the workspace, no thread of any loop's  *)
(* pool is still running a task.                                                            *)
NothingOutlivesThePipeline ==
  ~workspace => \A f \in Frames : ~Active(f)

(* The pipeline always comes to an end: no frame waits for a thread of a pool that will     *)
(* never serve it, and a failed loop still drains.                                          *)
PipelineReturns == <>(result # "running")

(* The detailed runner implements the promise of DagRun for the dag of the pipeline. *)
RootState(t) ==
  LET fr == frame[<<>>]
  IN IF t \in fr.todo \cup fr.exits THEN "pending"
     ELSE IF t = fr.cur THEN "running"
     ELSE IF t \in fr.failed THEN "failed"
     ELSE IF t \in DOMAIN fr.st THEN "succeeded" ELSE "skipped"

RootDag ==
  LET ts == pipeline.components[pipeline.root].tasks
  IN [t \in DOMAIN ts |-> [deps |-> ts[t].deps, tolerant |-> ts[t].strategy = "all_completed",
                           exit |-> ExitTask(ts[t])]]

Promise == INSTANCE DagRun WITH
  dag <- RootDag,
  state <- [t \in DOMAIN RootDag |-> RootState(t)],
  verdict <- IF frame[<<>>].ret.k = "none" THEN "running" ELSE frame[<<>>].ret.k

ImplementsDagRun == Promise!Spec
=============================================================================
