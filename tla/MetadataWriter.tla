--------------------------- MODULE MetadataWriter ---------------------------
(***************************************************************************)
(* The metadata writer (backend/metadata_writer): one process that watches  *)
(* the pods of Argo workflows and records in ML Metadata an execution for   *)
(* every pod, the artifacts it reads and the artifacts it writes. What it   *)
(* has done it notes as labels on the pod, and in three caches, because the *)
(* watch still delivers versions of the pod from before the labels.         *)
(*                                                                         *)
(* Every call of ML Metadata and of Kubernetes is a step. A workflow has    *)
(* one context in ML Metadata, known by the workflow's name; the id of an   *)
(* execution or of an artifact is its place in the sequence. An artifact's  *)
(* uri is the pod and the output it comes from. TFX and v2 pods, which are  *)
(* skipped, and the debug files are left out.                               *)
(***************************************************************************)
EXTENDS Integers, Sequences, FiniteSets

CONSTANTS
  Pods, Workflows, Outputs,
  Shapes,       \* [workflow, upstream, place, exec, ctx, written]: the pods, the place of
                \* their names in the order, and the sizes of the caches
  MaxBacklog,   \* bound: events that wait for the writer when a pod changes
  MaxFaults     \* bound: failed calls, ended watches, restarts

ASSUME ShapesAssumption ==
  /\ Pods # {} /\ IsFiniteSet(Pods)
  /\ Shapes \subseteq [workflow : [Pods -> Workflows], upstream : [Pods -> SUBSET Pods], place : [Pods -> Nat],
                       exec : Nat \ {0}, ctx : Nat \ {0}, written : Nat \ {0}]
  /\ \A s \in Shapes : \A p, q \in Pods : s.place[p] = s.place[q] => p = q
  /\ MaxBacklog \in Nat /\ MaxFaults \in Nat

VARIABLES
  shape,
  pods,         \* the pods in Kubernetes
  stream,       \* the events of the watch that the writer has not taken
  contexts, executions, artifacts, \* ML Metadata
  w,            \* the writer: where it is, the pod and the version it handles
  execCache,    \* pod_name_to_execution_id
  ctxCache,     \* workflow_name_to_context_id
  writtenCache, \* pods_with_written_metadata
  faults

store == <<contexts, executions, artifacts>>
caches == <<execCache, ctxCache, writtenCache>>
vars == <<shape, pods, stream, store, w, caches, faults>>

(* exec is the label metadata_execution_id, 0 when there is none; outs is Argo's annotation *)
(* with the outputs, completed Argo's label, written the label metadata_written.            *)
NewPod == [state |-> "none", exec |-> 0, outs |-> FALSE, completed |-> FALSE, written |-> FALSE]
Idle == [pc |-> "idle", pod |-> CHOOSE p \in Pods : TRUE, obj |-> NewPod, exec |-> 0, todo |-> {}]

Init ==
  /\ shape \in Shapes
  /\ pods = [p \in Pods |-> NewPod] /\ stream = <<>>
  /\ contexts = {} /\ executions = <<>> /\ artifacts = <<>>
  /\ w = Idle
  /\ execCache = <<>> /\ ctxCache = <<>> /\ writtenCache = <<>>
  /\ faults = 0

-----------------------------------------------------------------------------
(* Kubernetes and Argo. *)

(* A write of a pod: the new version is sent to the watch. *)
Put(p, obj) ==
  /\ pods' = [pods EXCEPT ![p] = obj]
  /\ stream' = Append(stream, [pod |-> p, obj |-> obj])

(* Room for another change of a pod. *)
Room == Len(stream) < MaxBacklog

There(p) == pods[p].state = "there"

(* Argo starts a pod when the ones it depends on have left their outputs. *)
PodCreated(p) ==
  /\ Room /\ pods[p].state = "none" /\ \A u \in shape.upstream[p] : pods[u].outs
  /\ Put(p, [NewPod EXCEPT !.state = "there"])
  /\ UNCHANGED <<shape, store, w, caches, faults>>

PodOutputs(p) ==
  /\ Room /\ There(p) /\ ~pods[p].outs /\ ~pods[p].completed
  /\ Put(p, [pods[p] EXCEPT !.outs = TRUE])
  /\ UNCHANGED <<shape, store, w, caches, faults>>

PodCompletes(p) ==
  /\ Room /\ There(p) /\ ~pods[p].completed
  /\ Put(p, [pods[p] EXCEPT !.completed = TRUE])
  /\ UNCHANGED <<shape, store, w, caches, faults>>

(* The event of a deletion carries the last version; the writer treats it like any other. *)
PodDeleted(p) ==
  /\ Room /\ There(p) /\ pods[p].completed
  /\ Put(p, [pods[p] EXCEPT !.state = "gone"])
  /\ UNCHANGED <<shape, store, w, caches, faults>>

-----------------------------------------------------------------------------
(* The caches: sequences of entries, the most recently used one first. *)

Has(cache, key) == \E i \in DOMAIN cache : cache[i].key = key
Place(cache, key) == CHOOSE i \in DOMAIN cache : cache[i].key = key
Get(cache, key) == cache[Place(cache, key)].val

(* The entry comes to the front; those before it move back, or all of them when it is new,  *)
(* and what is beyond the size falls out.                                                   *)
PutCache(cache, key, val, n) ==
  LET at == IF Has(cache, key) THEN Place(cache, key) ELSE Len(cache) + 1
      len == IF Has(cache, key) THEN Len(cache) ELSE Len(cache) + 1
  IN [i \in 1..(IF len < n THEN len ELSE n) |->
        IF i = 1 THEN [key |-> key, val |-> val] ELSE cache[IF i <= at THEN i - 1 ELSE i]]

(* A new watch first sends the current version of every pod, in the order of their names. *)
Listings ==
  LET there == {p \in Pods : There(p)}
  IN {s \in [1..Cardinality(there) -> there] :
        \A i, j \in DOMAIN s : i < j => shape.place[s[i]] < shape.place[s[j]]}
Listed(s) == [i \in DOMAIN s |-> [pod |-> s[i], obj |-> pods[s[i]]]]
NewWatch == \E s \in Listings : stream' = Listed(s)

-----------------------------------------------------------------------------
(* The loop over the events. *)

Workflow(p) == shape.workflow[p]

HasResult(obj) == obj.completed \/ obj.outs

(* Mutant of Handle: a pod that has just been given its execution is marked as written. *)
HandleMarked(p, obj, exec) ==
  IF Has(writtenCache, p) \/ ~HasResult(obj) THEN Idle
  ELSE [pc |-> "patchWritten", pod |-> p, obj |-> obj, exec |-> exec, todo |-> {}]

(* With an execution at hand: the outputs of a pod that has left them, once. *)
Handle(p, obj, exec) ==
  IF Has(writtenCache, p) \/ ~HasResult(obj) THEN Idle
  ELSE [pc |-> IF obj.outs THEN "outputs" ELSE "patchWritten", pod |-> p, obj |-> obj,
        exec |-> exec, todo |-> IF obj.outs THEN Outputs ELSE {}]

Take ==
  /\ w.pc = "idle" /\ stream # <<>>
  /\ stream' = Tail(stream)
  /\ UNCHANGED <<shape, pods, store, writtenCache, faults>>

SkipWritten ==
  /\ Take /\ Head(stream).obj.written
  /\ UNCHANGED <<w, execCache, ctxCache>>

FoundInCache ==
  LET p == Head(stream).pod  obj == Head(stream).obj IN
  /\ Take /\ ~obj.written
  /\ Has(execCache, p) /\ Has(ctxCache, Workflow(p))
  /\ w' = Handle(p, obj, Get(execCache, p))
  /\ execCache' = PutCache(execCache, p, Get(execCache, p), shape.exec)
  /\ ctxCache' = PutCache(ctxCache, Workflow(p), 0, shape.ctx)

(* The execution is cached and the context is not any more: KeyError, and a new watch. *)
ContextNotCached ==
  LET p == Head(stream).pod IN
  /\ w.pc = "idle" /\ stream # <<>> /\ ~Head(stream).obj.written
  /\ Has(execCache, p) /\ ~Has(ctxCache, Workflow(p))
  /\ execCache' = PutCache(execCache, p, Get(execCache, p), shape.exec)
  /\ NewWatch
  /\ UNCHANGED <<shape, pods, store, w, ctxCache, writtenCache, faults>>

FoundOnPod ==
  LET p == Head(stream).pod  obj == Head(stream).obj IN
  /\ Take /\ ~obj.written
  /\ ~Has(execCache, p) /\ obj.exec # 0
  /\ w' = Handle(p, obj, obj.exec)
  /\ UNCHANGED <<execCache, ctxCache>>

(* Mutant of NewPodSeen: the caches are not consulted. *)
NewPodSeenUncached ==
  /\ Take /\ ~Head(stream).obj.written
  /\ Head(stream).obj.exec = 0
  /\ w' = [Idle EXCEPT !.pc = "context", !.pod = Head(stream).pod, !.obj = Head(stream).obj]
  /\ UNCHANGED <<execCache, ctxCache>>

(* Mutant of NewPodSeen: a label of an execution is not looked for. *)
NewPodSeenUnlabelled ==
  /\ Take /\ ~Head(stream).obj.written
  /\ ~Has(execCache, Head(stream).pod)
  /\ w' = [Idle EXCEPT !.pc = "context", !.pod = Head(stream).pod, !.obj = Head(stream).obj]
  /\ UNCHANGED <<execCache, ctxCache>>

NewPodSeen ==
  /\ Take /\ ~Head(stream).obj.written
  /\ ~Has(execCache, Head(stream).pod) /\ Head(stream).obj.exec = 0
  /\ w' = [Idle EXCEPT !.pc = "context", !.pod = Head(stream).pod, !.obj = Head(stream).obj]
  /\ UNCHANGED <<execCache, ctxCache>>

-----------------------------------------------------------------------------
(* A pod that has no execution yet. *)

get_or_create_run_context ==
  /\ w.pc = "context"
  /\ contexts' = contexts \cup {Workflow(w.pod)}
  /\ w' = [w EXCEPT !.pc = "execution"]
  /\ UNCHANGED <<shape, pods, stream, executions, artifacts, caches, faults>>

create_execution_with_type ==
  /\ w.pc = "execution"
  /\ executions' = Append(executions, [pod |-> w.pod, context |-> FALSE, inputs |-> {}])
  /\ w' = [w EXCEPT !.pc = "association", !.exec = Len(executions) + 1]
  /\ UNCHANGED <<shape, pods, stream, contexts, artifacts, caches, faults>>

Associate ==
  /\ w.pc = "association"
  /\ executions' = [executions EXCEPT ![w.exec].context = TRUE]
  /\ w' = [w EXCEPT !.pc = "inputs", !.todo = shape.upstream[w.pod] \X Outputs]
  /\ UNCHANGED <<shape, pods, stream, contexts, artifacts, caches, faults>>

(* Mutant of link_execution_to_input_artifact: a single artifact is taken for none. *)
link_execution_to_input_artifactFew(uri) ==
  LET found == {a \in DOMAIN artifacts : <<artifacts[a].pod, artifacts[a].output>> = uri} IN
  /\ w.pc = "inputs" /\ uri \in w.todo
  /\ executions' = IF Cardinality(found) <= 1 THEN executions
                   ELSE [executions EXCEPT ![w.exec].inputs =
                           @ \cup {CHOOSE a \in found : \A b \in found : b <= a}]
  /\ w' = [w EXCEPT !.todo = @ \ {uri}]
  /\ UNCHANGED <<shape, pods, stream, contexts, artifacts, caches, faults>>

(* The last artifact with the uri, if there is one. *)
link_execution_to_input_artifact(uri) ==
  LET found == {a \in DOMAIN artifacts : <<artifacts[a].pod, artifacts[a].output>> = uri} IN
  /\ w.pc = "inputs" /\ uri \in w.todo
  /\ executions' = IF found = {} THEN executions
                   ELSE [executions EXCEPT ![w.exec].inputs =
                           @ \cup {CHOOSE a \in found : \A b \in found : b <= a}]
  /\ w' = [w EXCEPT !.todo = @ \ {uri}]
  /\ UNCHANGED <<shape, pods, stream, contexts, artifacts, caches, faults>>

CacheExecution ==
  /\ execCache' = PutCache(execCache, w.pod, w.exec, shape.exec)
  /\ ctxCache' = PutCache(ctxCache, Workflow(w.pod), 0, shape.ctx)

(* The labels of the execution and the context. *)
PatchExecution ==
  /\ w.pc = "inputs" /\ w.todo = {}
  /\ There(w.pod) /\ Put(w.pod, [pods[w.pod] EXCEPT !.exec = w.exec])
  /\ CacheExecution
  /\ w' = Handle(w.pod, w.obj, w.exec)
  /\ UNCHANGED <<shape, store, writtenCache, faults>>

(* The patch is given up after 20 attempts, and the writer goes on as if it had succeeded. *)
PatchFails ==
  \/ ~There(w.pod) /\ UNCHANGED faults
  \/ There(w.pod) /\ faults < MaxFaults /\ faults' = faults + 1

PatchExecutionFails ==
  /\ w.pc = "inputs" /\ w.todo = {}
  /\ PatchFails
  /\ CacheExecution
  /\ w' = Handle(w.pod, w.obj, w.exec)
  /\ UNCHANGED <<shape, pods, stream, store, writtenCache>>

-----------------------------------------------------------------------------
(* A pod that has left its outputs: create_new_output_artifact for each of them. *)

create_artifact_with_type(o) ==
  /\ w.pc = "outputs" /\ o \in w.todo
  /\ artifacts' = Append(artifacts, [pod |-> w.pod, output |-> o, exec |-> w.exec,
                                     event |-> FALSE, context |-> FALSE])
  /\ w' = [w EXCEPT !.pc = "event", !.todo = @ \ {o}]
  /\ UNCHANGED <<shape, pods, stream, contexts, executions, caches, faults>>

PutEvent ==
  /\ w.pc = "event"
  /\ artifacts' = [artifacts EXCEPT ![Len(artifacts)].event = TRUE]
  /\ w' = [w EXCEPT !.pc = "attribution"]
  /\ UNCHANGED <<shape, pods, stream, contexts, executions, caches, faults>>

Attribute ==
  /\ w.pc = "attribution"
  /\ artifacts' = [artifacts EXCEPT ![Len(artifacts)].context = TRUE]
  /\ w' = [w EXCEPT !.pc = IF w.todo = {} THEN "patchWritten" ELSE "outputs"]
  /\ UNCHANGED <<shape, pods, stream, contexts, executions, caches, faults>>

PatchWritten ==
  /\ w.pc = "patchWritten"
  /\ There(w.pod) /\ Put(w.pod, [pods[w.pod] EXCEPT !.written = TRUE])
  /\ writtenCache' = PutCache(writtenCache, w.pod, 0, shape.written)
  /\ w' = Idle
  /\ UNCHANGED <<shape, store, execCache, ctxCache, faults>>

PatchWrittenFails ==
  /\ w.pc = "patchWritten"
  /\ PatchFails
  /\ writtenCache' = PutCache(writtenCache, w.pod, 0, shape.written)
  /\ w' = Idle
  /\ UNCHANGED <<shape, pods, stream, store, execCache, ctxCache>>

-----------------------------------------------------------------------------
(* What ends a watch. *)

Rewatch ==
  /\ faults < MaxFaults /\ faults' = faults + 1
  /\ w' = Idle /\ NewWatch
  /\ UNCHANGED <<shape, pods, store>>

(* ML Metadata is called: between the patches of the pod, which never raise. *)
Calling == w.pc \notin {"idle", "patchWritten"} /\ ~(w.pc = "inputs" /\ w.todo = {})

(* Mutant of CallFails: the exception is caught within the loop over the events. *)
CallFailsCaught ==
  /\ Calling /\ faults < MaxFaults /\ faults' = faults + 1
  /\ w' = Idle
  /\ UNCHANGED <<shape, pods, stream, store, caches>>

CallFails == Calling /\ Rewatch /\ UNCHANGED caches

WatchEnds == w.pc = "idle" /\ Rewatch /\ UNCHANGED caches

Restart ==
  /\ Rewatch
  /\ execCache' = <<>> /\ ctxCache' = <<>> /\ writtenCache' = <<>>

-----------------------------------------------------------------------------
WriterStep ==
  \/ SkipWritten \/ FoundInCache \/ ContextNotCached \/ FoundOnPod \/ NewPodSeen
  \/ get_or_create_run_context \/ create_execution_with_type \/ Associate
  \/ \E uri \in w.todo : link_execution_to_input_artifact(uri)
  \/ PatchExecution \/ PatchExecutionFails
  \/ \E o \in w.todo : create_artifact_with_type(o)
  \/ PutEvent \/ Attribute \/ PatchWritten \/ PatchWrittenFails

PodStep(p) == PodCreated(p) \/ PodOutputs(p) \/ PodCompletes(p) \/ PodDeleted(p)

Next == WriterStep \/ CallFails \/ WatchEnds \/ Restart \/ \E p \in Pods : PodStep(p)

Spec == Init /\ [][Next]_vars

(* The process runs, or is restarted by Kubernetes, and the API server answers. *)
FairSpec == Spec /\ WF_vars(WriterStep)

-----------------------------------------------------------------------------
Large == shape.exec >= Cardinality(Pods) /\ shape.written >= Cardinality(Pods)

ExecutionsOf(p) == {i \in DOMAIN executions : executions[i].pod = p}
ArtifactsOf(p, o) == {a \in DOMAIN artifacts : artifacts[a].pod = p /\ artifacts[a].output = o}

(* With room in the caches and while no call fails and nothing restarts, a pod gets one     *)
(* execution and each output one artifact, although the watch delivers versions of the pod  *)
(* from before the labels and although a patch of the labels may be given up.               *)
RecordedOnce ==
  Large /\ faults = 0 =>
    \A p \in Pods : Cardinality(ExecutionsOf(p)) <= 1 /\ \A o \in Outputs : Cardinality(ArtifactsOf(p, o)) <= 1

(* A label is enough: once a pod carries its execution it gets no other one, and once it is *)
(* marked as written its outputs are not recorded again, whatever the watch delivers late,  *)
(* whichever call fails and however often the writer restarts.                              *)
LabelsAreFinal ==
  [][Large => \A p \in Pods :
       /\ pods[p].exec # 0 => ExecutionsOf(p)' = ExecutionsOf(p)
       /\ pods[p].written => \A o \in Outputs : ArtifactsOf(p, o)' = ArtifactsOf(p, o)]_vars

(* The outputs of p are recorded: artifacts with their event, in the context of the         *)
(* workflow, written by an execution of this pod that is in the context too.                *)
Recorded(p) ==
  \A o \in Outputs : \E a \in ArtifactsOf(p, o) :
    /\ artifacts[a].event /\ artifacts[a].context
    /\ LET e == executions[artifacts[a].exec] IN e.pod = p /\ e.context
    /\ Workflow(p) \in contexts

(* A pod is marked as written only when all of its outputs are in ML Metadata: a failure    *)
(* half way leaves the pod to be handled again.                                             *)
WrittenIsRecorded == \A p \in Pods : pods[p].written /\ pods[p].outs => Recorded(p)

(* A pod whose labels are on it has the inputs it read: the outputs of its upstream pods are *)
(* recorded before its first version is handled, as long as the watch is not interrupted,   *)
(* because the watch keeps the order in which Argo wrote the pods. The cache of contexts    *)
(* must not be smaller than the one of executions: a context that has fallen out ends the   *)
(* watch, and the next one lists the pods by name, downstream ones first if need be.        *)
LineageIsComplete ==
  faults = 0 /\ shape.ctx >= shape.exec =>
    \A p \in Pods : pods[p].exec # 0 =>
      \A u \in shape.upstream[p], o \in Outputs :
        \E a \in executions[pods[p].exec].inputs : a \in ArtifactsOf(u, o)

(* The outputs of every pod are recorded in the end, unless the pod goes before.            *)
OutputsAreRecorded ==
  \A p \in Pods : There(p) /\ pods[p].outs /\ shape.ctx >= shape.exec ~> Recorded(p) \/ ~There(p)
=============================================================================
