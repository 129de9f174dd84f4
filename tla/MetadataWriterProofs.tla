------------------------ MODULE MetadataWriterProofs ------------------------
(***************************************************************************)
(* What the labels on a pod promise, proved for any pods, workflows and     *)
(* cache sizes, any backlog of the watch and any number of failures.        *)
(***************************************************************************)
EXTENDS MetadataWriter, SequenceTheorems, FiniteSetTheorems, WellFoundedInduction, TLAPS

Pcs == {"idle", "context", "execution", "association", "inputs", "outputs", "event",
        "attribution", "patchWritten"}
PodType == [state : {"none", "there", "gone"}, exec : Nat, outs : BOOLEAN,
            completed : BOOLEAN, written : BOOLEAN]
EventType == [pod : Pods, obj : PodType]
ExecutionType == [pod : Pods, context : BOOLEAN, inputs : SUBSET Nat]
ArtifactType == [pod : Pods, output : Outputs, exec : Nat, event : BOOLEAN, context : BOOLEAN]
WriterType == [pc : Pcs, pod : Pods, obj : PodType, exec : Nat,
               todo : SUBSET (Outputs \cup (Pods \X Outputs))]
EntryType == [key : Pods \cup Workflows, val : Nat]

TypeOK ==
  /\ shape \in Shapes /\ pods \in [Pods -> PodType] /\ stream \in Seq(EventType)
  /\ contexts \subseteq Workflows
  /\ executions \in Seq(ExecutionType) /\ artifacts \in Seq(ArtifactType)
  /\ w \in WriterType
  /\ execCache \in Seq(EntryType) /\ ctxCache \in Seq(EntryType) /\ writtenCache \in Seq(EntryType)
  /\ faults \in Nat

(* The execution e of p is complete: it is in the context of p's workflow.  *)
IsExecution(p, e) ==
  /\ e \in DOMAIN executions /\ executions[e].pod = p /\ executions[e].context
  /\ Workflow(p) \in contexts

(* An artifact of the output o of p is complete.                            *)
IsArtifact(p, o, a) ==
  /\ a \in DOMAIN artifacts /\ artifacts[a].pod = p /\ artifacts[a].output = o
  /\ artifacts[a].event /\ artifacts[a].context
  /\ IsExecution(p, artifacts[a].exec)
HasArtifact(p, o) == \E a \in DOMAIN artifacts : IsArtifact(p, o, a)

(* obj is the pod p as it is, or as it was.                                 *)
IsSeen(p, obj) ==
  /\ obj.exec # 0 => IsExecution(p, obj.exec)
  /\ obj.outs => pods[p].outs
  /\ obj.completed => pods[p].completed
  /\ obj.completed /\ ~obj.outs => ~pods[p].outs

PodInv == \A p \in Pods :
  /\ IsSeen(p, pods[p])
  /\ pods[p].state = "none" => pods[p] = NewPod
  /\ pods[p].written => HasResult(pods[p])

StreamInv == \A i \in DOMAIN stream : IsSeen(stream[i].pod, stream[i].obj)

CacheInv == \A i \in DOMAIN execCache : IsExecution(execCache[i].key, execCache[i].val)

(* What the writer has done for the pod it handles.                         *)
WriterInv ==
  /\ IsSeen(w.pod, w.obj)
  /\ w.pc \in {"execution", "association"} => Workflow(w.pod) \in contexts
  /\ w.pc = "association" => w.exec \in DOMAIN executions /\ executions[w.exec].pod = w.pod
  /\ w.pc \in {"inputs", "outputs", "event", "attribution", "patchWritten"}
       => IsExecution(w.pod, w.exec)
  /\ w.pc \in {"outputs", "event", "attribution", "patchWritten"} => HasResult(w.obj)
  /\ w.pc \in {"outputs", "event", "attribution"} => w.obj.outs /\ w.todo \subseteq Outputs
  /\ w.pc \in {"event", "attribution"} =>
       LET a == Len(artifacts) IN
       /\ a \in DOMAIN artifacts /\ artifacts[a].pod = w.pod /\ artifacts[a].exec = w.exec
       /\ w.pc = "attribution" => artifacts[a].event
       /\ \A o \in Outputs \ w.todo : HasArtifact(w.pod, o) \/ artifacts[a].output = o
  /\ w.pc = "outputs" => \A o \in Outputs \ w.todo : HasArtifact(w.pod, o)
  /\ w.pc = "patchWritten" /\ w.obj.outs => \A o \in Outputs : HasArtifact(w.pod, o)

MarkedInv == \A p \in Pods : pods[p].written /\ pods[p].outs => \A o \in Outputs : HasArtifact(p, o)

RInv == TypeOK /\ PodInv /\ StreamInv /\ CacheInv /\ WriterInv /\ MarkedInv
-----------------------------------------------------------------------------
(* The constants, and the sizes of the caches.                              *)
LEMMA ShapeTypes ==
  ASSUME shape \in Shapes
  PROVE  /\ \A p \in Pods : Workflow(p) \in Workflows /\ shape.upstream[p] \subseteq Pods
         /\ shape.exec \in Nat \ {0} /\ shape.ctx \in Nat \ {0} /\ shape.written \in Nat \ {0}
BY ShapesAssumption DEF Workflow

(* A new pod and an idle writer.                                            *)
LEMMA ConstantTypes == NewPod \in PodType /\ Idle \in WriterType /\ Idle.pc = "idle" /\ Idle.obj = NewPod
<1>1. NewPod \in PodType
  BY DEF NewPod, PodType
<1>2. (CHOOSE p \in Pods : TRUE) \in Pods
  BY ShapesAssumption
<1> QED BY <1>1, <1>2 DEF Idle, WriterType, Pcs

(* Entries that move back by one are still entries.                         *)
LEMMA MovedBack ==
  ASSUME NEW L \in Nat, NEW at \in 1..(L + 1), NEW n \in Nat \ {0},
         NEW i \in 1..(IF (IF at <= L THEN L ELSE L + 1) < n
                         THEN (IF at <= L THEN L ELSE L + 1) ELSE n), i # 1
  PROVE  (IF i <= at THEN i - 1 ELSE i) \in 1..L
OBVIOUS

(* A cache after a write: every entry is the new one or an old one.         *)
LEMMA PutCacheEntries ==
  ASSUME NEW cache \in Seq(EntryType), NEW key \in Pods \cup Workflows, NEW val \in Nat,
         NEW n \in Nat \ {0}
  PROVE  LET c == PutCache(cache, key, val, n) IN
         /\ c \in Seq(EntryType)
         /\ \A i \in DOMAIN c : \/ c[i] = [key |-> key, val |-> val]
                                \/ \E j \in DOMAIN cache : c[i] = cache[j]
<1> DEFINE L == Len(cache)
           at == IF Has(cache, key) THEN Place(cache, key) ELSE L + 1
           len == IF at <= L THEN L ELSE L + 1
           m == IF len < n THEN len ELSE n
           from(i) == IF i <= at THEN i - 1 ELSE i
           c == [i \in 1..m |-> IF i = 1 THEN [key |-> key, val |-> val] ELSE cache[from(i)]]
<1>1. L \in Nat /\ DOMAIN cache = 1..L
  OBVIOUS
<1>2. Has(cache, key) => Place(cache, key) \in DOMAIN cache
  BY DEF Has, Place
<1> HIDE DEF L
<1>3. at \in 1..(L + 1) /\ len \in Nat /\ (at <= L <=> Has(cache, key))
  BY <1>1, <1>2
<1>4. PutCache(cache, key, val, n) = c
  BY <1>3 DEF PutCache, L
<1> HIDE DEF at
<1>5. m \in Nat
  BY <1>3
<1>6. ASSUME NEW i \in 1..m, i # 1 PROVE from(i) \in DOMAIN cache
  BY <1>1, <1>3, <1>6, MovedBack
<1> HIDE DEF len, m, from
<1>7. \A i \in 1..m : \/ c[i] = [key |-> key, val |-> val]
                      \/ \E j \in DOMAIN cache : c[i] = cache[j]
  BY <1>6
<1>8. [key |-> key, val |-> val] \in EntryType
  BY DEF EntryType
<1>9. \A j \in DOMAIN cache : cache[j] \in EntryType
  BY <1>1, ElementOfSeq DEF L
<1>10. \A i \in 1..m : c[i] \in EntryType
  BY <1>7, <1>8, <1>9
<1>11. c \in [1..m -> EntryType]
  BY <1>10
<1>12. c \in Seq(EntryType)
  BY <1>5, <1>11
<1> QED BY <1>4, <1>7, <1>12

(* What the writer does next for a pod that has its execution.              *)
LEMMA HandleCases ==
  ASSUME NEW p \in Pods, NEW obj \in PodType, NEW exec \in Nat
  PROVE  LET v == Handle(p, obj, exec) IN
         /\ v \in WriterType
         /\ \/ v = Idle
            \/ /\ v.pod = p /\ v.obj = obj /\ v.exec = exec /\ HasResult(obj) /\ ~Has(writtenCache, p)
               /\ \/ v.pc = "outputs" /\ obj.outs /\ v.todo = Outputs
                  \/ v.pc = "patchWritten" /\ ~obj.outs
<1>1. CASE Has(writtenCache, p) \/ ~HasResult(obj)
  BY <1>1, ConstantTypes DEF Handle
<1>2. CASE ~(Has(writtenCache, p) \/ ~HasResult(obj))
  <2> DEFINE v == [pc |-> IF obj.outs THEN "outputs" ELSE "patchWritten", pod |-> p, obj |-> obj,
                   exec |-> exec, todo |-> IF obj.outs THEN Outputs ELSE {}]
  <2>1. Handle(p, obj, exec) = v
    BY <1>2 DEF Handle
  <2>2. v \in WriterType
    BY DEF WriterType, Pcs
  <2> QED BY <1>2, <2>1, <2>2
<1> QED BY <1>1, <1>2
-----------------------------------------------------------------------------
(* What is in ML Metadata stays there.                                      *)
StoreGrows ==
  /\ contexts \subseteq contexts'
  /\ \A e \in DOMAIN executions :
       /\ e \in DOMAIN executions' /\ executions'[e].pod = executions[e].pod
       /\ executions[e].context => executions'[e].context
       /\ executions[e].inputs \subseteq executions'[e].inputs
  /\ \A a \in DOMAIN artifacts :
       /\ a \in DOMAIN artifacts' /\ artifacts'[a].pod = artifacts[a].pod
       /\ artifacts'[a].output = artifacts[a].output /\ artifacts'[a].exec = artifacts[a].exec
       /\ artifacts[a].event => artifacts'[a].event
       /\ artifacts[a].context => artifacts'[a].context

(* A pod keeps its outputs and does not leave any once it has completed.    *)
PodsGrow == \A p \in Pods :
  /\ pods[p].outs => pods'[p].outs
  /\ pods[p].completed => pods'[p].completed
  /\ pods'[p].outs => pods[p].outs \/ ~pods[p].completed

(* Complete executions and artifacts stay so, ...                           *)
LEMMA ExecutionsStay ==
  ASSUME StoreGrows, shape' = shape
  PROVE  /\ \A p, e : IsExecution(p, e) => IsExecution(p, e)'
         /\ \A p, o : HasArtifact(p, o) => HasArtifact(p, o)'
<1>1. \A p, e : IsExecution(p, e) => IsExecution(p, e)'
  BY DEF StoreGrows, IsExecution, Workflow
<1>2. ASSUME NEW p, NEW o, NEW a, IsArtifact(p, o, a) PROVE IsArtifact(p, o, a)'
  <2>1. IsExecution(p, artifacts[a].exec)' /\ artifacts'[a].exec = artifacts[a].exec
    BY <1>1, <1>2 DEF IsArtifact, StoreGrows, IsExecution
  <2> QED BY <1>2, <2>1 DEF IsArtifact, StoreGrows, IsExecution, Workflow
<1> QED BY <1>1, <1>2 DEF HasArtifact, IsArtifact

(* ... and a version of a pod that was seen remains one that was.           *)
LEMMA SeenStays ==
  ASSUME StoreGrows, PodsGrow, shape' = shape
  PROVE  \A p \in Pods : \A obj : IsSeen(p, obj) => IsSeen(p, obj)'
<1>1. \A p, e : IsExecution(p, e) => IsExecution(p, e)'
  BY ExecutionsStay
<1> QED BY <1>1 DEF IsSeen, PodsGrow
-----------------------------------------------------------------------------
(* The events of a write, ...                                               *)
LEMMA PutEffect ==
  ASSUME TypeOK, NEW p \in Pods, NEW obj \in PodType, Put(p, obj)
  PROVE  /\ pods' \in [Pods -> PodType] /\ stream' \in Seq(EventType)
         /\ pods'[p] = obj /\ \A q \in Pods \ {p} : pods'[q] = pods[q]
         /\ \A i \in DOMAIN stream' : \/ stream'[i] = [pod |-> p, obj |-> obj]
                                      \/ \E j \in DOMAIN stream : stream'[i] = stream[j]
<1>1. pods' \in [Pods -> PodType] /\ pods'[p] = obj /\ \A q \in Pods \ {p} : pods'[q] = pods[q]
  BY DEF TypeOK, Put
<1> DEFINE ev == [pod |-> p, obj |-> obj]
<1>2. ev \in EventType
  BY DEF EventType
<1> HIDE DEF ev
<1>3. stream \in Seq(EventType) /\ stream' = Append(stream, ev)
  BY DEF TypeOK, Put, ev
<1>4. /\ stream' \in Seq(EventType)
      /\ \A i \in DOMAIN stream' : stream'[i] = ev \/ \E j \in DOMAIN stream : stream'[i] = stream[j]
  BY <1>2, <1>3
<1> QED BY <1>1, <1>4 DEF ev

(* ... of a new watch, ...                                                  *)
LEMMA NewWatchEffect ==
  ASSUME TypeOK, NewWatch
  PROVE  /\ stream' \in Seq(EventType)
         /\ \A i \in DOMAIN stream' : stream'[i].obj = pods[stream'[i].pod] /\ stream'[i].pod \in Pods
<1> DEFINE there == {p \in Pods : There(p)}
           n == Cardinality(there)
<1>1. PICK s \in [1..n -> there] : stream' = Listed(s)
  BY DEF NewWatch, Listings
<1>2. n \in Nat
  <2>1. IsFiniteSet(there)
    BY ShapesAssumption, FS_Subset
  <2> QED BY <2>1, FS_CardinalityType
<1> HIDE DEF n
<1>3. stream' = [i \in 1..n |-> [pod |-> s[i], obj |-> pods[s[i]]]]
  BY <1>1 DEF Listed
<1>4. \A i \in 1..n : s[i] \in Pods /\ pods[s[i]] \in PodType
  BY <1>1 DEF TypeOK
<1>5. \A i \in 1..n : [pod |-> s[i], obj |-> pods[s[i]]] \in EventType
  BY <1>4 DEF EventType
<1>6. stream' \in [1..n -> EventType]
  BY <1>3, <1>5
<1> QED BY <1>2, <1>3, <1>4, <1>6

(* ... and of a loop that takes the next one.                               *)
LEMMA TakeEffect ==
  ASSUME TypeOK, stream # <<>>
  PROVE  /\ Head(stream) = stream[1] /\ 1 \in DOMAIN stream
         /\ Head(stream) \in EventType
         /\ Head(stream).pod \in Pods /\ Head(stream).obj \in PodType
         /\ Tail(stream) \in Seq(EventType)
         /\ \A i \in DOMAIN Tail(stream) : \E j \in DOMAIN stream : Tail(stream)[i] = stream[j]
<1>1. stream \in Seq(EventType)
  BY DEF TypeOK
<1>2. Head(stream) = stream[1] /\ 1 \in DOMAIN stream
  BY <1>1
<1>3. Head(stream) \in EventType /\ Tail(stream) \in Seq(EventType)
  BY <1>1
<1>4. ASSUME NEW i \in DOMAIN Tail(stream)
      PROVE  i + 1 \in DOMAIN stream /\ Tail(stream)[i] = stream[i + 1]
  BY <1>1
<1>5. Head(stream).pod \in Pods /\ Head(stream).obj \in PodType
  BY <1>3 DEF EventType
<1> QED BY <1>2, <1>3, <1>4, <1>5

(* An entry that is found in a cache.                                       *)
LEMMA FoundEntry ==
  ASSUME NEW cache \in Seq(EntryType), NEW key, Has(cache, key)
  PROVE  /\ Place(cache, key) \in DOMAIN cache
         /\ cache[Place(cache, key)].key = key
         /\ Get(cache, key) = cache[Place(cache, key)].val
         /\ Get(cache, key) \in Nat
<1>1. Place(cache, key) \in DOMAIN cache /\ cache[Place(cache, key)].key = key
  BY DEF Has, Place
<1>2. cache[Place(cache, key)] \in EntryType
  BY <1>1
<1> QED BY <1>1, <1>2 DEF Get, EntryType

(* The largest of some places in a sequence.                                *)
LEMMA LargestIndex ==
  ASSUME NEW n \in Nat, NEW S \in SUBSET (1..n), S # {}
  PROVE  \E a \in S : \A b \in S : b <= a
<1> DEFINE Above == {x \in Nat \X Nat : x[1] < x[2]}
           T == {n - a : a \in S}
<1>1. OpToRel(<, Nat) = Above
  BY DEF OpToRel
<1>2. IsWellFoundedOn(Above, Nat)
  BY <1>1, NatLessThanWellFounded
<1>3. T \subseteq Nat /\ T # {}
  <2>1. \A a \in S : n - a \in Nat
    OBVIOUS
  <2>2. T \subseteq Nat
    BY <2>1
  <2>3. PICK a \in S : TRUE
    OBVIOUS
  <2>4. n - a \in T
    OBVIOUS
  <2> QED BY <2>2, <2>4
<1>4. PICK t \in T : \A u \in T : ~(<<u, t>> \in Above)
  BY <1>2, <1>3, WFMin
<1>5. PICK a \in S : t = n - a
  OBVIOUS
<1>6. ASSUME NEW b \in S PROVE b <= a
  <2>1. n - b \in T /\ n - b \in Nat /\ n - a \in Nat
    BY <1>3, <1>5
  <2>2. ~(<<n - b, n - a>> \in Above) /\ <<n - b, n - a>> \in Nat \X Nat
    BY <1>4, <1>5, <2>1
  <2>3. ~(<<n - b, n - a>>[1] < <<n - b, n - a>>[2])
    BY <2>2
  <2> QED BY <2>1, <2>3
<1> QED BY <1>6

(* Artifacts and executions that are changed in place, or appended.         *)
LEMMA StoreTypes ==
  ASSUME TypeOK
  PROVE  /\ \A e \in DOMAIN executions : executions[e] \in ExecutionType
         /\ \A a \in DOMAIN artifacts : artifacts[a] \in ArtifactType
         /\ DOMAIN executions = 1..Len(executions) /\ Len(executions) \in Nat
         /\ DOMAIN artifacts = 1..Len(artifacts) /\ Len(artifacts) \in Nat
BY DEF TypeOK
-----------------------------------------------------------------------------
(* Each step keeps the types.                                               *)
LEMMA TypeStep == RInv /\ [Next]_vars => TypeOK'
<1> SUFFICES ASSUME RInv, [Next]_vars PROVE TypeOK'
  OBVIOUS
<1>t. TypeOK
  BY DEF RInv
<1> USE DEF store, caches
<1>s. shape \in Shapes /\ w \in WriterType /\ w.pod \in Pods /\ w.obj \in PodType /\ w.exec \in Nat
  BY <1>t DEF TypeOK, WriterType
<1>c. /\ \A p \in Pods : p \in Pods \cup Workflows /\ Workflow(p) \in Pods \cup Workflows
      /\ shape.exec \in Nat \ {0} /\ shape.ctx \in Nat \ {0} /\ shape.written \in Nat \ {0}
      /\ \A p \in Pods : Workflow(p) \in Workflows /\ shape.upstream[p] \subseteq Pods
  BY <1>t, <1>s, ShapeTypes
<1>v. pods[w.pod] \in PodType
  BY <1>t, <1>s DEF TypeOK
<1>1. ASSUME SkipWritten PROVE TypeOK'
  BY <1>t, <1>1, TakeEffect DEF SkipWritten, Take, TypeOK
<1>2. ASSUME FoundInCache PROVE TypeOK'
  <2> DEFINE p == Head(stream).pod  obj == Head(stream).obj
  <2>1. p \in Pods /\ obj \in PodType /\ stream' \in Seq(EventType)
    BY <1>t, <1>2, TakeEffect DEF FoundInCache, Take
  <2>2. Get(execCache, p) \in Nat
    BY <1>t, <1>2, FoundEntry DEF FoundInCache, TypeOK
  <2> HIDE DEF p, obj
  <2>3. w' \in WriterType
    BY <1>t, <1>2, <2>1, <2>2, HandleCases DEF FoundInCache, p, obj
  <2>4. execCache' \in Seq(EntryType) /\ ctxCache' \in Seq(EntryType)
    BY <1>t, <1>2, <2>1, <2>2, <1>c, PutCacheEntries DEF FoundInCache, TypeOK, p, obj
  <2> QED BY <1>t, <1>2, <2>1, <2>3, <2>4 DEF FoundInCache, Take, TypeOK
<1>3. ASSUME ContextNotCached PROVE TypeOK'
  <2>1. Head(stream).pod \in Pods
    BY <1>t, <1>3, TakeEffect DEF ContextNotCached
  <2>2. Get(execCache, Head(stream).pod) \in Nat
    BY <1>t, <1>3, FoundEntry DEF ContextNotCached, TypeOK
  <2>3. execCache' \in Seq(EntryType)
    BY <1>t, <1>3, <2>1, <2>2, <1>c, PutCacheEntries DEF ContextNotCached, TypeOK
  <2>4. stream' \in Seq(EventType)
    BY <1>t, <1>3, NewWatchEffect DEF ContextNotCached
  <2> QED BY <1>t, <1>3, <2>3, <2>4 DEF ContextNotCached, TypeOK
<1>4. ASSUME FoundOnPod PROVE TypeOK'
  <2> DEFINE p == Head(stream).pod  obj == Head(stream).obj
  <2>1. p \in Pods /\ obj \in PodType /\ stream' \in Seq(EventType)
    BY <1>t, <1>4, TakeEffect DEF FoundOnPod, Take
  <2>2. obj.exec \in Nat
    BY <1>t, <2>1 DEF PodType
  <2> HIDE DEF p, obj
  <2>3. w' \in WriterType
    BY <1>t, <1>4, <2>1, <2>2, HandleCases DEF FoundOnPod, p, obj
  <2> QED BY <1>t, <1>4, <2>1, <2>3 DEF FoundOnPod, Take, TypeOK
<1>5. ASSUME NewPodSeen PROVE TypeOK'
  <2>1. Head(stream).pod \in Pods /\ Head(stream).obj \in PodType /\ stream' \in Seq(EventType)
    BY <1>t, <1>5, TakeEffect DEF NewPodSeen, Take
  <2>2. w' \in WriterType
    BY <1>t, <1>5, <2>1, ConstantTypes DEF NewPodSeen, WriterType, Pcs
  <2> QED BY <1>t, <1>5, <2>1, <2>2 DEF NewPodSeen, Take, TypeOK
<1>6. ASSUME get_or_create_run_context PROVE TypeOK'
  <2>1. w' \in WriterType
    BY <1>t, <1>6, <1>s DEF get_or_create_run_context, WriterType, Pcs
  <2> QED BY <1>t, <1>6, <2>1, <1>s, <1>c DEF get_or_create_run_context, TypeOK
<1>7. ASSUME create_execution_with_type PROVE TypeOK'
  <2> DEFINE e == [pod |-> w.pod, context |-> FALSE, inputs |-> {}]
  <2>1. e \in ExecutionType
    BY <1>t, <1>s DEF ExecutionType
  <2>2. executions' = Append(executions, e)
    BY <1>t, <1>7 DEF create_execution_with_type
  <2> HIDE DEF e
  <2>3. executions' \in Seq(ExecutionType) /\ Len(executions) + 1 \in Nat
    BY <1>t, <2>1, <2>2 DEF TypeOK
  <2>4. w' \in WriterType
    BY <1>t, <1>7, <1>s, <2>3 DEF create_execution_with_type, WriterType, Pcs
  <2> QED BY <1>t, <1>7, <2>3, <2>4 DEF create_execution_with_type, TypeOK
<1>e. ASSUME NEW e \in DOMAIN executions, NEW x \in ExecutionType,
             executions' = [executions EXCEPT ![e] = x]
      PROVE  executions' \in Seq(ExecutionType)
  <2>1. executions \in Seq(ExecutionType) /\ e \in 1..Len(executions)
    BY <1>t, StoreTypes DEF TypeOK
  <2> QED BY <1>t, <1>e, <2>1, ExceptSeq
<1>a. ASSUME NEW a \in DOMAIN artifacts, NEW x \in ArtifactType,
             artifacts' = [artifacts EXCEPT ![a] = x]
      PROVE  artifacts' \in Seq(ArtifactType)
  <2>1. artifacts \in Seq(ArtifactType) /\ a \in 1..Len(artifacts)
    BY <1>t, StoreTypes DEF TypeOK
  <2> QED BY <1>t, <1>a, <2>1, ExceptSeq
<1>8. ASSUME Associate PROVE TypeOK'
  <2> DEFINE x == [executions[w.exec] EXCEPT !.context = TRUE]
  <2>0. w.exec \in DOMAIN executions
    BY <1>t, <1>8 DEF Associate, RInv, WriterInv
  <2>1. executions' \in Seq(ExecutionType)
    <3>1. x \in ExecutionType
      BY <1>t, <2>0, StoreTypes DEF ExecutionType
    <3>2. executions' = [executions EXCEPT ![w.exec] = x]
      BY <1>t, <1>8 DEF Associate
    <3> HIDE DEF x
    <3> QED BY <1>t, <2>0, <3>1, <3>2, <1>e
  <2>2. w' \in WriterType
    <3>1. shape.upstream[w.pod] \X Outputs \in SUBSET (Outputs \cup (Pods \X Outputs))
      BY <1>t, <1>s, <1>c
    <3> QED BY <1>t, <1>8, <3>1, <1>s DEF Associate, WriterType, Pcs
  <2> QED BY <1>t, <1>8, <2>1, <2>2 DEF Associate, TypeOK
<1>9. ASSUME NEW uri \in w.todo, link_execution_to_input_artifact(uri) PROVE TypeOK'
  <2> DEFINE found == {a \in DOMAIN artifacts : <<artifacts[a].pod, artifacts[a].output>> = uri}
             last == CHOOSE a \in found : \A b \in found : b <= a
  <2>0. w.exec \in DOMAIN executions
    BY <1>t, <1>9 DEF link_execution_to_input_artifact, RInv, WriterInv, IsExecution
  <2>1. /\ found = {} => executions' = executions
        /\ found # {} => executions' = [executions EXCEPT ![w.exec].inputs = @ \cup {last}]
    BY <1>t, <1>9 DEF link_execution_to_input_artifact
  <2>3. ASSUME found # {} PROVE executions' \in Seq(ExecutionType)
    <3> DEFINE x == [executions[w.exec] EXCEPT !.inputs = @ \cup {last}]
    <3>1. last \in found
      <4>1. found \subseteq 1..Len(artifacts) /\ Len(artifacts) \in Nat
        BY <1>t, StoreTypes
      <4>2. \E a \in found : \A b \in found : b <= a
        BY <1>t, <2>3, <4>1, LargestIndex
      <4> QED BY <1>t, <4>2
    <3>2. last \in Nat
      BY <1>t, <3>1, StoreTypes
    <3>3. executions' = [executions EXCEPT ![w.exec] = x]
      BY <1>t, <2>1, <2>3
    <3> HIDE DEF last
    <3>4. x \in ExecutionType
      BY <1>t, <2>0, <3>2, StoreTypes DEF ExecutionType
    <3> HIDE DEF x
    <3> QED BY <1>t, <2>0, <3>3, <3>4, <1>e
  <2>5. executions' \in Seq(ExecutionType)
    BY <1>t, <2>1, <2>3 DEF TypeOK
  <2>2. w' \in WriterType
    BY <1>t, <1>9, <1>s DEF link_execution_to_input_artifact, WriterType
  <2> QED BY <1>t, <1>9, <2>2, <2>5 DEF link_execution_to_input_artifact, TypeOK
<1>h. w' = Handle(w.pod, w.obj, w.exec) => w' \in WriterType
  BY <1>t, <1>s, HandleCases
<1>k. CacheExecution => execCache' \in Seq(EntryType) /\ ctxCache' \in Seq(EntryType)
  <2>1. execCache \in Seq(EntryType) /\ ctxCache \in Seq(EntryType)
    BY <1>t DEF TypeOK
  <2>2. PutCache(execCache, w.pod, w.exec, shape.exec) \in Seq(EntryType)
    BY <1>s, <1>c, <2>1, PutCacheEntries
  <2>3. PutCache(ctxCache, Workflow(w.pod), 0, shape.ctx) \in Seq(EntryType)
    BY <1>s, <1>c, <2>1, PutCacheEntries
  <2> QED BY <2>2, <2>3 DEF CacheExecution
<1>10. ASSUME PatchExecution PROVE TypeOK'
  <2> DEFINE obj == [pods[w.pod] EXCEPT !.exec = w.exec]
  <2>1. obj \in PodType
    BY <1>t, <1>s, <1>v DEF PodType
  <2>2. Put(w.pod, obj)
    BY <1>t, <1>10 DEF PatchExecution
  <2> HIDE DEF obj
  <2>3. pods' \in [Pods -> PodType] /\ stream' \in Seq(EventType)
    BY <1>t, <1>s, <2>1, <2>2, PutEffect
  <2> QED BY <1>t, <1>10, <2>3, <1>h, <1>k DEF PatchExecution, TypeOK
<1>11. ASSUME PatchExecutionFails PROVE TypeOK'
  BY <1>t, <1>11, <1>h, <1>k DEF PatchExecutionFails, PatchFails, TypeOK
<1>12. ASSUME NEW o \in w.todo, create_artifact_with_type(o) PROVE TypeOK'
  <2> DEFINE x == [pod |-> w.pod, output |-> o, exec |-> w.exec, event |-> FALSE, context |-> FALSE]
  <2>0. o \in Outputs
    BY <1>t, <1>12 DEF create_artifact_with_type, RInv, WriterInv
  <2>1. x \in ArtifactType
    BY <1>t, <1>s, <2>0 DEF ArtifactType
  <2>2. artifacts' = Append(artifacts, x)
    BY <1>t, <1>12 DEF create_artifact_with_type
  <2> HIDE DEF x
  <2>3. artifacts' \in Seq(ArtifactType)
    BY <1>t, <2>1, <2>2 DEF TypeOK
  <2>4. w' \in WriterType
    BY <1>t, <1>12, <1>s DEF create_artifact_with_type, WriterType, Pcs
  <2> QED BY <1>t, <1>12, <2>3, <2>4 DEF create_artifact_with_type, TypeOK
<1>l. w.pc \in {"event", "attribution"} =>
        Len(artifacts) \in DOMAIN artifacts /\ artifacts[Len(artifacts)] \in ArtifactType
  BY <1>t, StoreTypes DEF RInv, WriterInv
<1>13. ASSUME PutEvent PROVE TypeOK'
  <2> DEFINE x == [artifacts[Len(artifacts)] EXCEPT !.event = TRUE]
  <2>1. x \in ArtifactType /\ Len(artifacts) \in DOMAIN artifacts
    BY <1>t, <1>13, <1>l DEF PutEvent, ArtifactType
  <2>2. artifacts' = [artifacts EXCEPT ![Len(artifacts)] = x]
    BY <1>t, <1>13 DEF PutEvent
  <2> HIDE DEF x
  <2>3. artifacts' \in Seq(ArtifactType)
    BY <1>t, <2>1, <2>2, <1>a
  <2>4. w' \in WriterType
    BY <1>t, <1>13, <1>s DEF PutEvent, WriterType, Pcs
  <2> QED BY <1>t, <1>13, <2>3, <2>4 DEF PutEvent, TypeOK
<1>14. ASSUME Attribute PROVE TypeOK'
  <2> DEFINE x == [artifacts[Len(artifacts)] EXCEPT !.context = TRUE]
  <2>1. x \in ArtifactType /\ Len(artifacts) \in DOMAIN artifacts
    BY <1>t, <1>14, <1>l DEF Attribute, ArtifactType
  <2>2. artifacts' = [artifacts EXCEPT ![Len(artifacts)] = x]
    BY <1>t, <1>14 DEF Attribute
  <2> HIDE DEF x
  <2>3. artifacts' \in Seq(ArtifactType)
    BY <1>t, <2>1, <2>2, <1>a
  <2>4. w' \in WriterType
    BY <1>t, <1>14, <1>s DEF Attribute, WriterType, Pcs
  <2> QED BY <1>t, <1>14, <2>3, <2>4 DEF Attribute, TypeOK
<1>15. ASSUME PatchWritten \/ PatchWrittenFails PROVE TypeOK'
  <2> DEFINE obj == [pods[w.pod] EXCEPT !.written = TRUE]
  <2>1. obj \in PodType
    BY <1>t, <1>v DEF PodType
  <2>2. Put(w.pod, obj) \/ (pods' = pods /\ stream' = stream)
    BY <1>t, <1>15 DEF PatchWritten, PatchWrittenFails
  <2> HIDE DEF obj
  <2>3. pods' \in [Pods -> PodType] /\ stream' \in Seq(EventType)
    BY <1>t, <1>s, <2>1, <2>2, PutEffect DEF TypeOK
  <2>4. writtenCache' \in Seq(EntryType)
    <3>1. writtenCache \in Seq(EntryType) /\ 0 \in Nat
      BY <1>t DEF TypeOK
    <3>2. PutCache(writtenCache, w.pod, 0, shape.written) \in Seq(EntryType)
      BY <1>s, <1>c, <3>1, PutCacheEntries
    <3> QED BY <1>15, <3>2 DEF PatchWritten, PatchWrittenFails
  <2>5. faults' \in Nat /\ w' \in WriterType
    BY <1>t, <1>15, ConstantTypes DEF PatchWritten, PatchWrittenFails, PatchFails, TypeOK
  <2> QED BY <1>t, <1>15, <2>3, <2>4, <2>5 DEF PatchWritten, PatchWrittenFails, TypeOK
<1>16. ASSUME CallFails \/ WatchEnds \/ Restart PROVE TypeOK'
  <2>1. stream' \in Seq(EventType) /\ w' \in WriterType /\ faults' \in Nat
    BY <1>t, <1>16, NewWatchEffect, ConstantTypes DEF CallFails, WatchEnds, Restart, Rewatch, TypeOK
  <2>2. UNCHANGED <<shape, pods, store>>
    BY <1>16 DEF CallFails, WatchEnds, Restart, Rewatch
  <2>3. UNCHANGED caches \/ (execCache' = <<>> /\ ctxCache' = <<>> /\ writtenCache' = <<>>)
    BY <1>16 DEF CallFails, WatchEnds, Restart
  <2>4. execCache' \in Seq(EntryType) /\ ctxCache' \in Seq(EntryType) /\ writtenCache' \in Seq(EntryType)
    <3>1. <<>> \in Seq(EntryType)
      OBVIOUS
    <3> QED BY <1>t, <2>3, <3>1 DEF TypeOK
  <2> QED BY <1>t, <2>1, <2>2, <2>4 DEF TypeOK
<1>17. ASSUME NEW p \in Pods, PodStep(p) PROVE TypeOK'
  <2>1. PICK obj \in PodType : Put(p, obj)
    <3>1. pods[p] \in PodType
      BY <1>t DEF TypeOK
    <3>2. /\ [NewPod EXCEPT !.state = "there"] \in PodType
          /\ [pods[p] EXCEPT !.outs = TRUE] \in PodType
          /\ [pods[p] EXCEPT !.completed = TRUE] \in PodType
          /\ [pods[p] EXCEPT !.state = "gone"] \in PodType
      BY <1>t, <3>1, ConstantTypes DEF PodType
    <3>3. \/ Put(p, [NewPod EXCEPT !.state = "there"])
          \/ Put(p, [pods[p] EXCEPT !.outs = TRUE])
          \/ Put(p, [pods[p] EXCEPT !.completed = TRUE])
          \/ Put(p, [pods[p] EXCEPT !.state = "gone"])
      BY <1>17 DEF PodStep, PodCreated, PodOutputs, PodCompletes, PodDeleted
    <3> QED BY <3>2, <3>3
  <2>2. pods' \in [Pods -> PodType] /\ stream' \in Seq(EventType)
    BY <1>t, <2>1, PutEffect
  <2>3. UNCHANGED <<shape, store, w, caches, faults>>
    BY <1>17 DEF PodStep, PodCreated, PodOutputs, PodCompletes, PodDeleted
  <2> QED BY <1>t, <2>2, <2>3 DEF TypeOK
<1>18. CASE UNCHANGED vars
  BY <1>t, <1>18 DEF TypeOK, vars
<1> QED BY <1>1, <1>2, <1>3, <1>4, <1>5, <1>6, <1>7, <1>8, <1>9, <1>10, <1>11, <1>12, <1>13,
           <1>14, <1>15, <1>16, <1>17, <1>18 DEF Next, WriterStep
-----------------------------------------------------------------------------
(* Nothing is taken out of ML Metadata, ...                                 *)
LEMMA StoreStep == RInv /\ [Next]_vars => StoreGrows
<1> SUFFICES ASSUME RInv, [Next]_vars PROVE StoreGrows
  OBVIOUS
<1>t. TypeOK
  BY DEF RInv
<1>d. /\ DOMAIN executions = 1..Len(executions) /\ Len(executions) \in Nat
      /\ DOMAIN artifacts = 1..Len(artifacts) /\ Len(artifacts) \in Nat
      /\ executions \in Seq(ExecutionType) /\ artifacts \in Seq(ArtifactType)
  BY <1>t, StoreTypes DEF TypeOK
<1>1. CASE UNCHANGED store
  BY <1>1 DEF StoreGrows, store
<1>2. CASE get_or_create_run_context
  BY <1>2 DEF get_or_create_run_context, StoreGrows
<1>3. CASE create_execution_with_type
  <2> DEFINE x == [pod |-> w.pod, context |-> FALSE, inputs |-> {}]
  <2>1. executions' = Append(executions, x) /\ UNCHANGED <<contexts, artifacts>>
    BY <1>3 DEF create_execution_with_type
  <2> HIDE DEF x
  <2>2. \A e \in DOMAIN executions : e \in DOMAIN executions' /\ executions'[e] = executions[e]
    BY <1>d, <2>1
  <2> QED BY <2>1, <2>2 DEF StoreGrows
<1>4. CASE Associate
  BY <1>4 DEF Associate, StoreGrows
<1>5. CASE \E uri \in w.todo : link_execution_to_input_artifact(uri)
  BY <1>5 DEF link_execution_to_input_artifact, StoreGrows
<1>6. CASE \E o \in w.todo : create_artifact_with_type(o)
  <2>1. PICK x : artifacts' = Append(artifacts, x) /\ UNCHANGED <<contexts, executions>>
    BY <1>6 DEF create_artifact_with_type
  <2>2. \A a \in DOMAIN artifacts : a \in DOMAIN artifacts' /\ artifacts'[a] = artifacts[a]
    BY <1>d, <2>1
  <2> QED BY <2>1, <2>2 DEF StoreGrows
<1>7. CASE PutEvent
  BY <1>7 DEF PutEvent, StoreGrows
<1>8. CASE Attribute
  BY <1>8 DEF Attribute, StoreGrows
<1>9. ASSUME NEW p \in Pods, PodStep(p) PROVE UNCHANGED store
  BY <1>9 DEF PodStep, PodCreated, PodOutputs, PodCompletes, PodDeleted
<1>10. ASSUME \/ SkipWritten \/ FoundInCache \/ ContextNotCached \/ FoundOnPod \/ NewPodSeen
              \/ PatchExecution \/ PatchExecutionFails \/ PatchWritten \/ PatchWrittenFails
              \/ CallFails \/ WatchEnds \/ Restart \/ UNCHANGED vars
       PROVE  UNCHANGED store
  BY <1>10 DEF SkipWritten, FoundInCache, ContextNotCached, FoundOnPod, NewPodSeen, Take, vars,
               PatchExecution, PatchExecutionFails, PatchWritten, PatchWrittenFails, CallFails,
               WatchEnds, Restart, Rewatch
<1> QED BY <1>1, <1>2, <1>3, <1>4, <1>5, <1>6, <1>7, <1>8, <1>9, <1>10 DEF Next, WriterStep

(* ... and the pods stay as they are, or a later version of one is written. *)
IsUpdate(p, obj) ==
  /\ obj.exec # 0 => IsExecution(p, obj.exec)
  /\ obj.state \in {"there", "gone"}
  /\ pods[p].outs => obj.outs
  /\ pods[p].completed => obj.completed
  /\ obj.outs => pods[p].outs \/ ~pods[p].completed
  /\ obj.written => HasResult(obj)
  /\ obj.written /\ obj.outs => \A o \in Outputs : HasArtifact(p, o)

LEMMA PodUpdates ==
  ASSUME RInv, NEW p \in Pods, PodStep(p)
  PROVE  \E obj \in PodType : Put(p, obj) /\ IsUpdate(p, obj)
<1>t. \A q \in Pods : pods[q] \in PodType /\ pods[q].exec \in Nat
  BY DEF RInv, TypeOK, PodType
<1>p. \A q \in Pods : /\ pods[q].exec # 0 => IsExecution(q, pods[q].exec)
                      /\ pods[q].state = "none" => pods[q] = NewPod
                      /\ pods[q].written => HasResult(pods[q])
                      /\ pods[q].written /\ pods[q].outs => \A o \in Outputs : HasArtifact(q, o)
  BY DEF RInv, PodInv, IsSeen, MarkedInv
<1>1. CASE PodCreated(p)
  <2> DEFINE obj == [NewPod EXCEPT !.state = "there"]
  <2>1. obj \in PodType /\ Put(p, obj)
    BY <1>1 DEF PodCreated, NewPod, PodType
  <2>2. pods[p] = NewPod
    BY <1>1, <1>p DEF PodCreated
  <2>3. IsUpdate(p, obj)
    BY <2>2 DEF IsUpdate, NewPod
  <2> QED BY <2>1, <2>3
<1>2. CASE PodOutputs(p)
  <2> DEFINE obj == [pods[p] EXCEPT !.outs = TRUE]
  <2>1. obj \in PodType /\ Put(p, obj)
    BY <1>2, <1>t DEF PodOutputs, PodType
  <2>2. IsUpdate(p, obj)
    BY <1>2, <1>t, <1>p DEF PodOutputs, IsUpdate, PodType, HasResult, There
  <2> QED BY <2>1, <2>2
<1>3. CASE PodCompletes(p)
  <2> DEFINE obj == [pods[p] EXCEPT !.completed = TRUE]
  <2>1. obj \in PodType /\ Put(p, obj)
    BY <1>3, <1>t DEF PodCompletes, PodType
  <2>2. IsUpdate(p, obj)
    BY <1>3, <1>t, <1>p DEF PodCompletes, IsUpdate, PodType, HasResult, There
  <2> QED BY <2>1, <2>2
<1>4. CASE PodDeleted(p)
  <2> DEFINE obj == [pods[p] EXCEPT !.state = "gone"]
  <2>1. obj \in PodType /\ Put(p, obj)
    BY <1>4, <1>t DEF PodDeleted, PodType
  <2>2. IsUpdate(p, obj)
    BY <1>4, <1>t, <1>p DEF PodDeleted, IsUpdate, PodType, HasResult, There
  <2> QED BY <2>1, <2>2
<1> QED BY <1>1, <1>2, <1>3, <1>4 DEF PodStep

LEMMA PatchUpdates ==
  ASSUME RInv, PatchExecution \/ PatchWritten
  PROVE  w.pod \in Pods /\ \E obj \in PodType : Put(w.pod, obj) /\ IsUpdate(w.pod, obj)
<1>t. \A p \in Pods : pods[p] \in PodType /\ pods[p].exec \in Nat
  BY DEF RInv, TypeOK, PodType
<1>p. \A p \in Pods : /\ pods[p].exec # 0 => IsExecution(p, pods[p].exec)
                      /\ pods[p].state = "none" => pods[p] = NewPod
                      /\ pods[p].written => HasResult(pods[p])
                      /\ pods[p].written /\ pods[p].outs => \A o \in Outputs : HasArtifact(p, o)
  BY DEF RInv, PodInv, IsSeen, MarkedInv
<1>w. w.pod \in Pods /\ w.exec \in Nat /\ w.obj \in PodType
  BY DEF RInv, TypeOK, WriterType
<1>2. ASSUME PatchExecution
      PROVE  \E obj \in PodType : Put(w.pod, obj) /\ IsUpdate(w.pod, obj)
  <2> DEFINE obj == [pods[w.pod] EXCEPT !.exec = w.exec]
  <2>1. obj \in PodType /\ Put(w.pod, obj)
    BY <1>2, <1>t, <1>w DEF PatchExecution, PodType
  <2>2. IsExecution(w.pod, w.exec)
    BY <1>2 DEF PatchExecution, RInv, WriterInv
  <2>3. IsUpdate(w.pod, obj)
    BY <1>2, <1>t, <1>p, <1>w, <2>2 DEF PatchExecution, IsUpdate, PodType, HasResult, There
  <2> QED BY <2>1, <2>3
<1>3. ASSUME PatchWritten
      PROVE  \E obj \in PodType : Put(w.pod, obj) /\ IsUpdate(w.pod, obj)
  <2> DEFINE obj == [pods[w.pod] EXCEPT !.written = TRUE]
  <2>1. obj \in PodType /\ Put(w.pod, obj)
    BY <1>3, <1>t, <1>w DEF PatchWritten, PodType
  <2>2. w.pc = "patchWritten" /\ There(w.pod)
    BY <1>3 DEF PatchWritten
  <2>3. /\ HasResult(w.obj) /\ IsSeen(w.pod, w.obj)
        /\ w.obj.outs => \A o \in Outputs : HasArtifact(w.pod, o)
    BY <2>2 DEF RInv, WriterInv
  <2>4. /\ HasResult(pods[w.pod])
        /\ pods[w.pod].outs => \A o \in Outputs : HasArtifact(w.pod, o)
    BY <2>3 DEF HasResult, IsSeen
  <2>5. IsUpdate(w.pod, obj)
    BY <2>2, <1>t, <1>p, <1>w, <2>4 DEF IsUpdate, PodType, HasResult, There
  <2> QED BY <2>1, <2>5
<1> QED BY <1>2, <1>3, <1>w

LEMMA PodCases ==
  ASSUME RInv, [Next]_vars
  PROVE  pods' = pods \/ \E p \in Pods, obj \in PodType : Put(p, obj) /\ IsUpdate(p, obj)
<1>4. ASSUME \/ WriterStep /\ ~PatchExecution /\ ~PatchWritten
             \/ CallFails \/ WatchEnds \/ Restart \/ UNCHANGED vars
      PROVE  pods' = pods
  BY <1>4 DEF WriterStep, SkipWritten, FoundInCache, ContextNotCached, FoundOnPod, NewPodSeen, Take,
              get_or_create_run_context, create_execution_with_type, Associate,
              link_execution_to_input_artifact, PatchExecutionFails, create_artifact_with_type,
              PutEvent, Attribute, PatchWrittenFails, CallFails, WatchEnds, Restart, Rewatch, vars
<1> QED BY <1>4, PodUpdates, PatchUpdates DEF Next

LEMMA PodsStep == RInv /\ [Next]_vars => PodsGrow /\ shape' = shape
<1> SUFFICES ASSUME RInv, [Next]_vars PROVE PodsGrow /\ shape' = shape
  OBVIOUS
<1>1. shape' = shape
  BY DEF Next, WriterStep, SkipWritten, FoundInCache, ContextNotCached, FoundOnPod, NewPodSeen, Take,
         get_or_create_run_context, create_execution_with_type, Associate, PatchExecution, PatchWritten,
         link_execution_to_input_artifact, PatchExecutionFails, create_artifact_with_type,
         PutEvent, Attribute, PatchWrittenFails, CallFails, WatchEnds, Restart, Rewatch, vars,
         PodStep, PodCreated, PodOutputs, PodCompletes, PodDeleted
<1>2. TypeOK
  BY DEF RInv
<1>3. ASSUME NEW p \in Pods, NEW obj \in PodType, Put(p, obj), IsUpdate(p, obj) PROVE PodsGrow
  <2>1. pods'[p] = obj /\ \A q \in Pods \ {p} : pods'[q] = pods[q]
    BY <1>2, <1>3, PutEffect
  <2> QED BY <1>3, <2>1 DEF PodsGrow, IsUpdate
<1>4. CASE pods' = pods
  BY <1>1, <1>4 DEF PodsGrow
<1> QED BY <1>1, <1>3, <1>4, PodCases

(* The labels of a pod keep their word.                                     *)
LEMMA PodInvStep == RInv /\ [Next]_vars => PodInv' /\ MarkedInv'
<1> SUFFICES ASSUME RInv, [Next]_vars PROVE PodInv' /\ MarkedInv'
  OBVIOUS
<1>g. StoreGrows /\ PodsGrow /\ shape' = shape
  BY StoreStep, PodsStep
<1>s. \A p \in Pods : \A obj : IsSeen(p, obj) => IsSeen(p, obj)'
  BY <1>g, SeenStays
<1>e. /\ \A p, e : IsExecution(p, e) => IsExecution(p, e)'
      /\ \A p, o : HasArtifact(p, o) => HasArtifact(p, o)'
  BY <1>g, ExecutionsStay
<1>i. \A p \in Pods : /\ IsSeen(p, pods[p])
                      /\ pods[p].state = "none" => pods[p] = NewPod
                      /\ pods[p].written => HasResult(pods[p])
                      /\ pods[p].written /\ pods[p].outs => \A o \in Outputs : HasArtifact(p, o)
  BY DEF RInv, PodInv, MarkedInv
<1>1. ASSUME NEW q \in Pods, pods'[q] = pods[q]
      PROVE  /\ IsSeen(q, pods[q])'
             /\ pods'[q].state = "none" => pods'[q] = NewPod
             /\ pods'[q].written => HasResult(pods'[q])
             /\ pods'[q].written /\ pods'[q].outs => \A o \in Outputs : HasArtifact(q, o)'
  BY <1>1, <1>s, <1>e, <1>i DEF IsSeen
<1>2. ASSUME NEW p \in Pods, NEW obj \in PodType, Put(p, obj), IsUpdate(p, obj), pods'[p] = obj
      PROVE  /\ IsSeen(p, pods[p])'
             /\ pods'[p].state = "none" => pods'[p] = NewPod
             /\ pods'[p].written => HasResult(pods'[p])
             /\ pods'[p].written /\ pods'[p].outs => \A o \in Outputs : HasArtifact(p, o)'
  BY <1>2, <1>e DEF IsSeen, IsUpdate
<1>3. CASE pods' = pods
  BY <1>1, <1>3 DEF PodInv, MarkedInv
<1>4. ASSUME NEW p \in Pods, NEW obj \in PodType, Put(p, obj), IsUpdate(p, obj)
      PROVE  PodInv' /\ MarkedInv'
  <2>1. pods'[p] = obj /\ \A q \in Pods \ {p} : pods'[q] = pods[q]
    BY <1>4, PutEffect DEF RInv
  <2> QED BY <1>1, <1>2, <1>4, <2>1 DEF PodInv, MarkedInv
<1> QED BY <1>3, <1>4, PodCases
-----------------------------------------------------------------------------
(* The events that wait are versions of pods, ...                           *)
LEMMA StreamCases ==
  ASSUME RInv, [Next]_vars
  PROVE  \A i \in DOMAIN stream' :
           \/ \E j \in DOMAIN stream : stream'[i] = stream[j]
           \/ stream'[i].pod \in Pods /\ stream'[i].obj = pods'[stream'[i].pod]
<1>t. TypeOK
  BY DEF RInv
<1> DEFINE Goal == \A i \in DOMAIN stream' :
             \/ \E j \in DOMAIN stream : stream'[i] = stream[j]
             \/ stream'[i].pod \in Pods /\ stream'[i].obj = pods'[stream'[i].pod]
<1>1. CASE stream' = stream
  BY <1>1
<1>2. ASSUME NEW p \in Pods, NEW obj \in PodType, Put(p, obj) PROVE Goal
  <2>1. pods'[p] = obj
    BY <1>t, <1>2, PutEffect
  <2>2. \A i \in DOMAIN stream' : \/ stream'[i] = [pod |-> p, obj |-> obj]
                                  \/ \E j \in DOMAIN stream : stream'[i] = stream[j]
    BY <1>t, <1>2, PutEffect
  <2> QED BY <2>1, <2>2
<1>3. ASSUME NewWatch, pods' = pods PROVE Goal
  BY <1>t, <1>3, NewWatchEffect
<1>4. ASSUME stream # <<>>, stream' = Tail(stream) PROVE Goal
  BY <1>t, <1>4, TakeEffect
<1>5. ASSUME NEW p \in Pods, PodStep(p) PROVE \E obj \in PodType : Put(p, obj)
  <2>1. pods[p] \in PodType
    BY <1>t DEF TypeOK
  <2>2. /\ [NewPod EXCEPT !.state = "there"] \in PodType
        /\ [pods[p] EXCEPT !.outs = TRUE] \in PodType
        /\ [pods[p] EXCEPT !.completed = TRUE] \in PodType
        /\ [pods[p] EXCEPT !.state = "gone"] \in PodType
    BY <2>1, ConstantTypes DEF PodType
  <2>3. \/ Put(p, [NewPod EXCEPT !.state = "there"])
        \/ Put(p, [pods[p] EXCEPT !.outs = TRUE])
        \/ Put(p, [pods[p] EXCEPT !.completed = TRUE])
        \/ Put(p, [pods[p] EXCEPT !.state = "gone"])
    BY <1>5 DEF PodStep, PodCreated, PodOutputs, PodCompletes, PodDeleted
  <2> QED BY <2>2, <2>3
<1>6. ASSUME PatchExecution \/ PatchWritten PROVE \E p \in Pods, obj \in PodType : Put(p, obj)
  <2>1. w.pod \in Pods /\ w.exec \in Nat /\ pods[w.pod] \in PodType
    BY <1>t DEF TypeOK, WriterType
  <2>2. [pods[w.pod] EXCEPT !.exec = w.exec] \in PodType /\ [pods[w.pod] EXCEPT !.written = TRUE] \in PodType
    BY <2>1 DEF PodType
  <2> QED BY <1>6, <2>1, <2>2 DEF PatchExecution, PatchWritten
<1>7. ASSUME SkipWritten \/ FoundInCache \/ FoundOnPod \/ NewPodSeen
      PROVE  stream # <<>> /\ stream' = Tail(stream)
  BY <1>7 DEF SkipWritten, FoundInCache, FoundOnPod, NewPodSeen, Take
<1>8. ASSUME ContextNotCached \/ CallFails \/ WatchEnds \/ Restart PROVE NewWatch /\ pods' = pods
  BY <1>8 DEF ContextNotCached, CallFails, WatchEnds, Restart, Rewatch
<1>9. ASSUME \/ get_or_create_run_context \/ create_execution_with_type \/ Associate
             \/ \E uri \in w.todo : link_execution_to_input_artifact(uri)
             \/ PatchExecutionFails \/ \E o \in w.todo : create_artifact_with_type(o)
             \/ PutEvent \/ Attribute \/ PatchWrittenFails \/ UNCHANGED vars
      PROVE  stream' = stream
  BY <1>9 DEF get_or_create_run_context, create_execution_with_type, Associate, vars,
              link_execution_to_input_artifact, PatchExecutionFails, create_artifact_with_type,
              PutEvent, Attribute, PatchWrittenFails
<1> HIDE DEF Goal
<1>10. Goal
  <2>1. stream' = stream => Goal
    BY <1>1 DEF Goal
  <2> QED BY <2>1, <1>2, <1>3, <1>4, <1>5, <1>6, <1>7, <1>8, <1>9 DEF Next, WriterStep
<1> QED BY <1>10 DEF Goal

LEMMA StreamStep == RInv /\ [Next]_vars => StreamInv'
<1> SUFFICES ASSUME RInv, [Next]_vars, NEW i \in DOMAIN stream'
             PROVE  IsSeen(stream[i].pod, stream[i].obj)'
  BY DEF StreamInv
<1>1. \A p \in Pods : \A obj : IsSeen(p, obj) => IsSeen(p, obj)'
  BY StoreStep, PodsStep, SeenStays
<1>2. \A p \in Pods : IsSeen(p, pods[p])'
  BY PodInvStep DEF PodInv
<1>3. ASSUME NEW j \in DOMAIN stream, stream'[i] = stream[j]
      PROVE  IsSeen(stream[i].pod, stream[i].obj)'
  <2>1. IsSeen(stream[j].pod, stream[j].obj)
    BY DEF RInv, StreamInv
  <2>2. stream[j].pod \in Pods
    <3>1. stream[j] \in EventType
      BY DEF RInv, TypeOK
    <3> QED BY <3>1 DEF EventType
  <2>3. PICK p, obj : p \in Pods /\ p = stream[j].pod /\ obj = stream[j].obj
    BY <2>2
  <2>4. IsSeen(p, obj)'
    BY <1>1, <2>1, <2>3
  <2>5. stream'[i].pod = p /\ stream'[i].obj = obj
    BY <1>3, <2>3
  <2> QED BY <2>4, <2>5 DEF IsSeen, IsExecution, Workflow
<1>4. ASSUME stream'[i].pod \in Pods, stream'[i].obj = pods'[stream'[i].pod]
      PROVE  IsSeen(stream[i].pod, stream[i].obj)'
  BY <1>2, <1>4 DEF IsSeen
<1> QED BY <1>3, <1>4, StreamCases

(* ... the cache has complete executions, ...                               *)
LEMMA CacheStep == RInv /\ [Next]_vars => CacheInv'
<1> SUFFICES ASSUME RInv, [Next]_vars PROVE CacheInv'
  OBVIOUS
<1>t. TypeOK /\ execCache \in Seq(EntryType) /\ shape.exec \in Nat \ {0}
  BY ShapeTypes DEF RInv, TypeOK
<1>e. \A p, e : IsExecution(p, e) => IsExecution(p, e)'
  BY StoreStep, PodsStep, ExecutionsStay
<1>c. \A j \in DOMAIN execCache : IsExecution(execCache[j].key, execCache[j].val)
  BY DEF RInv, CacheInv
<1>1. ASSUME NEW p \in Pods, NEW e \in Nat, IsExecution(p, e),
             execCache' = PutCache(execCache, p, e, shape.exec)
      PROVE  CacheInv'
  <2>1. \A i \in DOMAIN execCache' : \/ execCache'[i] = [key |-> p, val |-> e]
                                     \/ \E j \in DOMAIN execCache : execCache'[i] = execCache[j]
    <3>1. p \in Pods \cup Workflows
      OBVIOUS
    <3> DEFINE c == PutCache(execCache, p, e, shape.exec)
    <3>2. \A i \in DOMAIN c : \/ c[i] = [key |-> p, val |-> e]
                              \/ \E j \in DOMAIN execCache : c[i] = execCache[j]
      BY <3>1, <1>t, PutCacheEntries
    <3>3. execCache' = c
      BY <1>1
    <3> HIDE DEF c
    <3> QED BY <3>2, <3>3
  <2>2. ASSUME NEW i \in DOMAIN execCache' PROVE IsExecution(execCache[i].key, execCache[i].val)'
    <3>1. PICK q, x : q = execCache'[i].key /\ x = execCache'[i].val /\ IsExecution(q, x)
      BY <1>1, <2>1, <1>c
    <3>2. IsExecution(q, x)'
      BY <1>e, <3>1
    <3> QED BY <3>1, <3>2 DEF IsExecution, Workflow
  <2> QED BY <2>2 DEF CacheInv
<1>2. CASE execCache' = execCache
  BY <1>2, <1>c, <1>e DEF CacheInv, IsExecution
<1>3. CASE execCache' = <<>>
  BY <1>3 DEF CacheInv
<1>4. ASSUME FoundInCache \/ ContextNotCached PROVE CacheInv'
  <2> DEFINE p == Head(stream).pod
  <2>1. stream # <<>> /\ Has(execCache, p) /\ execCache' = PutCache(execCache, p, Get(execCache, p), shape.exec)
    BY <1>4 DEF FoundInCache, ContextNotCached, Take
  <2>2. p \in Pods
    BY <1>t, <2>1, TakeEffect
  <2> HIDE DEF p
  <2>3. Get(execCache, p) \in Nat /\ IsExecution(p, Get(execCache, p))
    BY <1>t, <1>c, <2>1, FoundEntry
  <2> QED BY <1>1, <2>1, <2>2, <2>3
<1>5. ASSUME PatchExecution \/ PatchExecutionFails PROVE CacheInv'
  <2>1. w.pc = "inputs" /\ execCache' = PutCache(execCache, w.pod, w.exec, shape.exec)
    BY <1>5 DEF PatchExecution, PatchExecutionFails, CacheExecution
  <2>2. w.pod \in Pods /\ w.exec \in Nat /\ IsExecution(w.pod, w.exec)
    BY <2>1 DEF RInv, TypeOK, WriterType, WriterInv
  <2> QED BY <1>1, <2>1, <2>2
<1>6. ASSUME Restart PROVE execCache' = <<>>
  BY <1>6 DEF Restart
<1>7. ASSUME \/ SkipWritten \/ FoundOnPod \/ NewPodSeen \/ get_or_create_run_context
             \/ create_execution_with_type \/ Associate
             \/ \E uri \in w.todo : link_execution_to_input_artifact(uri)
             \/ \E o \in w.todo : create_artifact_with_type(o)
             \/ PutEvent \/ Attribute \/ PatchWritten \/ PatchWrittenFails \/ CallFails \/ WatchEnds
             \/ (\E p \in Pods : PodStep(p)) \/ UNCHANGED vars
      PROVE  execCache' = execCache
  BY <1>7 DEF SkipWritten, FoundOnPod, NewPodSeen, Take, get_or_create_run_context, caches, vars,
              create_execution_with_type, Associate, link_execution_to_input_artifact, PatchWritten,
              create_artifact_with_type, PutEvent, Attribute, PatchWrittenFails, CallFails, WatchEnds,
              PodStep, PodCreated, PodOutputs, PodCompletes, PodDeleted
<1> QED BY <1>2, <1>3, <1>4, <1>5, <1>6, <1>7 DEF Next, WriterStep
-----------------------------------------------------------------------------
(* The facts about the pod that the writer handles in the next state, told  *)
(* of the pod, the version and the execution themselves.                    *)
LEMMA NextPod ==
  ASSUME NEW p, NEW obj, NEW e, w'.pod = p, w'.obj = obj, w'.exec = e
  PROVE  /\ IsSeen(w.pod, w.obj)' <=> IsSeen(p, obj)'
         /\ IsExecution(w.pod, w.exec)' <=> IsExecution(p, e)'
         /\ \A o : HasArtifact(w.pod, o)' <=> HasArtifact(p, o)'
         /\ HasResult(w.obj)' <=> HasResult(obj)
         /\ Workflow(w.pod)' = Workflow(p)'
BY DEF IsSeen, IsExecution, HasArtifact, IsArtifact, Workflow, HasResult

(* ... and the writer has done what it is about to say.                     *)
LEMMA WriterInvStep == RInv /\ [Next]_vars => WriterInv'
<1> SUFFICES ASSUME RInv, [Next]_vars PROVE WriterInv'
  OBVIOUS
<1>t. TypeOK
  BY DEF RInv
<1>e. /\ \A p, e : IsExecution(p, e) => IsExecution(p, e)'
      /\ \A p, o : HasArtifact(p, o) => HasArtifact(p, o)'
  BY StoreStep, PodsStep, ExecutionsStay
<1>g. StoreGrows /\ shape' = shape
  BY StoreStep, PodsStep
<1>s. \A p \in Pods : \A obj : IsSeen(p, obj) => IsSeen(p, obj)'
  BY StoreStep, PodsStep, SeenStays
<1>p. PICK p \in Pods, obj \in PodType, e \in Nat : w.pod = p /\ w.obj = obj /\ w.exec = e
  BY <1>t DEF TypeOK, WriterType
<1>w. /\ IsSeen(p, obj)
      /\ w.pc \in {"execution", "association"} => Workflow(p) \in contexts
      /\ w.pc = "association" => e \in DOMAIN executions /\ executions[e].pod = p
      /\ w.pc \in {"inputs", "outputs", "event", "attribution", "patchWritten"} => IsExecution(p, e)
      /\ w.pc \in {"outputs", "event", "attribution", "patchWritten"} => HasResult(obj)
      /\ w.pc \in {"outputs", "event", "attribution"} => obj.outs /\ w.todo \subseteq Outputs
      /\ w.pc \in {"event", "attribution"} =>
           LET a == Len(artifacts) IN
           /\ a \in DOMAIN artifacts /\ artifacts[a].pod = p /\ artifacts[a].exec = e
           /\ w.pc = "attribution" => artifacts[a].event
           /\ \A o \in Outputs \ w.todo : HasArtifact(p, o) \/ artifacts[a].output = o
      /\ w.pc = "outputs" => \A o \in Outputs \ w.todo : HasArtifact(p, o)
      /\ w.pc = "patchWritten" /\ obj.outs => \A o \in Outputs : HasArtifact(p, o)
  BY <1>p DEF RInv, WriterInv
<1>n. IsSeen(p, obj)' /\ Workflow(p)' = Workflow(p)
  BY <1>s, <1>w, <1>g DEF Workflow
<1>d. /\ DOMAIN executions = 1..Len(executions) /\ Len(executions) \in Nat
      /\ DOMAIN artifacts = 1..Len(artifacts) /\ Len(artifacts) \in Nat
      /\ executions \in Seq(ExecutionType) /\ artifacts \in Seq(ArtifactType)
  BY <1>t, StoreTypes DEF TypeOK
<1>i. w' = Idle => WriterInv'
  BY DEF Idle, NewPod, WriterInv, IsSeen
<1>h. ASSUME NEW q \in Pods, NEW x \in PodType, NEW f \in Nat, IsSeen(q, x), IsExecution(q, f),
             w' = Handle(q, x, f)
      PROVE  WriterInv'
  <2>1. CASE w' = Idle
    BY <2>1, <1>i
  <2>2. CASE w' # Idle
    <3>1. /\ w'.pod = q /\ w'.obj = x /\ w'.exec = f /\ HasResult(x)
          /\ \/ w'.pc = "outputs" /\ x.outs /\ w'.todo = Outputs
             \/ w'.pc = "patchWritten" /\ ~x.outs
      BY <1>h, <2>2, HandleCases
    <3>2. IsSeen(w.pod, w.obj)' /\ IsExecution(w.pod, w.exec)' /\ HasResult(w.obj)'
      BY <1>h, <1>s, <1>e, <3>1, NextPod
    <3> QED BY <3>1, <3>2 DEF WriterInv
  <2> QED BY <2>1, <2>2
<1>1. CASE FoundInCache
  <2>1. PICK q \in Pods, x \in PodType : Head(stream).pod = q /\ Head(stream).obj = x
    BY <1>t, <1>1, TakeEffect DEF FoundInCache, Take
  <2>2. IsSeen(q, x)
    BY <1>t, <1>1, <2>1, TakeEffect DEF FoundInCache, Take, RInv, StreamInv
  <2>3. Has(execCache, q) /\ w' = Handle(q, x, Get(execCache, q))
    BY <1>1, <2>1 DEF FoundInCache
  <2>4. Get(execCache, q) \in Nat /\ IsExecution(q, Get(execCache, q))
    BY <1>t, <2>3, FoundEntry DEF RInv, CacheInv, TypeOK
  <2>5. PICK f \in Nat : f = Get(execCache, q)
    BY <2>4
  <2> QED BY <1>h, <2>2, <2>3, <2>4, <2>5
<1>2. CASE FoundOnPod
  <2>1. PICK q \in Pods, x \in PodType : Head(stream).pod = q /\ Head(stream).obj = x
    BY <1>t, <1>2, TakeEffect DEF FoundOnPod, Take
  <2>2. IsSeen(q, x)
    BY <1>t, <1>2, <2>1, TakeEffect DEF FoundOnPod, Take, RInv, StreamInv
  <2>3. x.exec # 0 /\ w' = Handle(q, x, x.exec)
    BY <1>2, <2>1 DEF FoundOnPod
  <2>4. x.exec \in Nat /\ IsExecution(q, x.exec)
    BY <2>2, <2>3 DEF PodType, IsSeen
  <2> QED BY <1>h, <2>2, <2>3, <2>4
<1>3. CASE PatchExecution \/ PatchExecutionFails
  <2>1. w.pc = "inputs" /\ w' = Handle(p, obj, e)
    BY <1>3, <1>p DEF PatchExecution, PatchExecutionFails
  <2> QED BY <1>h, <1>w, <2>1
<1>4. CASE PatchWritten \/ PatchWrittenFails \/ CallFails \/ WatchEnds \/ Restart
  BY <1>4, <1>i DEF PatchWritten, PatchWrittenFails, CallFails, WatchEnds, Restart, Rewatch
<1>5. CASE NewPodSeen
  <2>1. PICK q \in Pods, x \in PodType : Head(stream).pod = q /\ Head(stream).obj = x
    BY <1>t, <1>5, TakeEffect DEF NewPodSeen, Take
  <2>2. IsSeen(q, x)
    BY <1>t, <1>5, <2>1, TakeEffect DEF NewPodSeen, Take, RInv, StreamInv
  <2>3. w'.pc = "context" /\ w'.pod = q /\ w'.obj = x /\ w'.exec = w'.exec
    BY <1>5, <2>1 DEF NewPodSeen, Idle
  <2>4. PICK f : f = w'.exec
    OBVIOUS
  <2>5. IsSeen(w.pod, w.obj)'
    BY <1>s, <2>2, <2>3, <2>4, NextPod
  <2> QED BY <2>3, <2>5 DEF WriterInv
<1>6. ASSUME w' = w, artifacts' = artifacts PROVE WriterInv'
  <2>1. /\ IsSeen(w.pod, w.obj)' /\ (IsExecution(p, e) => IsExecution(w.pod, w.exec)')
        /\ \A o : HasArtifact(p, o) => HasArtifact(w.pod, o)'
        /\ HasResult(w.obj)' <=> HasResult(obj)
        /\ Workflow(w.pod)' = Workflow(p)
    BY <1>6, <1>p, <1>n, <1>e, NextPod
  <2>2. contexts \subseteq contexts'
    BY <1>g DEF StoreGrows
  <2>3. e \in DOMAIN executions => e \in DOMAIN executions' /\ executions'[e].pod = executions[e].pod
    BY <1>g DEF StoreGrows
  <2> QED BY <1>6, <1>p, <1>w, <2>1, <2>2, <2>3 DEF WriterInv
<1>7. ASSUME \/ SkipWritten \/ ContextNotCached \/ (\E q \in Pods : PodStep(q)) \/ UNCHANGED vars
      PROVE  w' = w /\ artifacts' = artifacts
  BY <1>7 DEF SkipWritten, ContextNotCached, Take, PodStep, PodCreated, PodOutputs, PodCompletes,
              PodDeleted, vars, store
<1>8. CASE get_or_create_run_context
  <2>1. w' = [w EXCEPT !.pc = "execution"] /\ contexts' = contexts \cup {Workflow(p)}
    BY <1>8, <1>p DEF get_or_create_run_context
  <2>2. w'.pc = "execution" /\ w'.pod = p /\ w'.obj = obj /\ w'.exec = e
    BY <2>1, <1>p, <1>t DEF TypeOK, WriterType
  <2>3. IsSeen(w.pod, w.obj)' /\ Workflow(w.pod)' = Workflow(p)
    BY <2>2, <1>n, NextPod
  <2> QED BY <2>1, <2>2, <2>3 DEF WriterInv
<1>9. CASE create_execution_with_type
  <2> DEFINE x == [pod |-> p, context |-> FALSE, inputs |-> {}]
             n == Len(executions) + 1
  <2>1. /\ w.pc = "execution" /\ executions' = Append(executions, x) /\ contexts' = contexts
        /\ w' = [w EXCEPT !.pc = "association", !.exec = n]
    BY <1>9, <1>p DEF create_execution_with_type
  <2>2. x.pod = p
    OBVIOUS
  <2> HIDE DEF x
  <2>3. n \in DOMAIN executions' /\ executions'[n] = x
    BY <1>d, <2>1
  <2>4. PICK f : f = n
    OBVIOUS
  <2>5. w'.pc = "association" /\ w'.pod = p /\ w'.obj = obj /\ w'.exec = f
    BY <2>1, <2>4, <1>p, <1>t DEF TypeOK, WriterType
  <2>6. IsSeen(w.pod, w.obj)' /\ Workflow(w.pod)' = Workflow(p)
    BY <2>5, <1>n, NextPod
  <2>7. Workflow(p) \in contexts' /\ f \in DOMAIN executions' /\ executions'[f].pod = p
    BY <2>1, <2>2, <2>3, <2>4, <1>w
  <2> QED BY <2>5, <2>6, <2>7 DEF WriterInv
<1>10. CASE Associate
  <2>1. /\ w.pc = "association" /\ executions' = [executions EXCEPT ![e].context = TRUE]
        /\ contexts' = contexts
        /\ w' = [w EXCEPT !.pc = "inputs", !.todo = shape.upstream[w.pod] \X Outputs]
    BY <1>10, <1>p DEF Associate
  <2>2. w'.pc = "inputs" /\ w'.pod = p /\ w'.obj = obj /\ w'.exec = e
    BY <2>1, <1>p, <1>t DEF TypeOK, WriterType
  <2>3. executions[e] \in ExecutionType /\ e \in DOMAIN executions
    BY <2>1, <1>t, <1>w, StoreTypes
  <2>4. e \in DOMAIN executions' /\ executions'[e].pod = p /\ executions'[e].context
    BY <2>1, <2>3, <1>w DEF ExecutionType
  <2>5. IsExecution(p, e)'
    BY <2>1, <2>4, <1>w, <1>n DEF IsExecution
  <2>6. IsSeen(w.pod, w.obj)' /\ IsExecution(w.pod, w.exec)'
    BY <2>2, <2>5, <1>n, NextPod
  <2> QED BY <2>2, <2>6 DEF WriterInv
<1>11. CASE \E uri \in w.todo : link_execution_to_input_artifact(uri)
  <2>1. w.pc = "inputs" /\ \E todo : w' = [w EXCEPT !.todo = todo]
    BY <1>11 DEF link_execution_to_input_artifact
  <2>2. w'.pc = "inputs" /\ w'.pod = p /\ w'.obj = obj /\ w'.exec = e
    BY <2>1, <1>p, <1>t DEF TypeOK, WriterType
  <2>3. IsSeen(w.pod, w.obj)' /\ IsExecution(w.pod, w.exec)'
    BY <2>1, <2>2, <1>n, <1>w, <1>e, NextPod
  <2> QED BY <2>2, <2>3 DEF WriterInv
<1>12. ASSUME NEW o \in w.todo, create_artifact_with_type(o) PROVE WriterInv'
  <2> DEFINE x == [pod |-> p, output |-> o, exec |-> e, event |-> FALSE, context |-> FALSE]
  <2>1. /\ w.pc = "outputs" /\ artifacts' = Append(artifacts, x)
        /\ w' = [w EXCEPT !.pc = "event", !.todo = @ \ {o}]
    BY <1>12, <1>p DEF create_artifact_with_type
  <2>2. x.pod = p /\ x.exec = e /\ x.output = o
    OBVIOUS
  <2> HIDE DEF x
  <2>3. /\ Len(artifacts') \in DOMAIN artifacts' /\ artifacts'[Len(artifacts')] = x
    BY <1>d, <2>1
  <2>4. /\ w'.pc = "event" /\ w'.pod = p /\ w'.obj = obj /\ w'.exec = e
        /\ w'.todo = w.todo \ {o}
    BY <2>1, <1>p, <1>t DEF TypeOK, WriterType
  <2>5. /\ IsSeen(w.pod, w.obj)' /\ IsExecution(w.pod, w.exec)' /\ HasResult(w.obj)'
        /\ \A y : HasArtifact(p, y) => HasArtifact(w.pod, y)'
    BY <2>1, <2>4, <1>n, <1>w, <1>e, NextPod
  <2>6. \A y \in Outputs \ w'.todo : HasArtifact(w.pod, y)' \/ x.output = y
    BY <2>1, <2>2, <2>4, <2>5, <1>w
  <2> QED BY <2>1, <2>2, <2>3, <2>4, <2>5, <2>6, <1>w DEF WriterInv
<1>l. ASSUME w.pc \in {"event", "attribution"}, artifacts' = [artifacts EXCEPT ![Len(artifacts)] = artifacts'[Len(artifacts)]]
      PROVE  Len(artifacts') = Len(artifacts) /\ Len(artifacts) \in DOMAIN artifacts'
  <2>1. Len(artifacts) \in DOMAIN artifacts
    BY <1>l, <1>w
  <2>2. DOMAIN artifacts' = 1..Len(artifacts)
    BY <1>l, <1>d
  <2>3. artifacts' \in Seq(ArtifactType)
    BY TypeStep DEF TypeOK
  <2> QED BY <1>d, <2>1, <2>2, <2>3
<1>13. CASE PutEvent
  <2> DEFINE n == Len(artifacts)
  <2>1. /\ w.pc = "event" /\ artifacts' = [artifacts EXCEPT ![n].event = TRUE]
        /\ w' = [w EXCEPT !.pc = "attribution"]
    BY <1>13 DEF PutEvent
  <2>2. w'.pc = "attribution" /\ w'.pod = p /\ w'.obj = obj /\ w'.exec = e /\ w'.todo = w.todo
    BY <2>1, <1>p, <1>t DEF TypeOK, WriterType
  <2>3. Len(artifacts') = n /\ n \in DOMAIN artifacts'
    BY <2>1, <1>l
  <2>4. /\ artifacts'[n].pod = artifacts[n].pod /\ artifacts'[n].exec = artifacts[n].exec
        /\ artifacts'[n].output = artifacts[n].output /\ artifacts'[n].event
    <3>1. n \in DOMAIN artifacts /\ artifacts[n] \in ArtifactType
      BY <2>1, <1>t, <1>w, StoreTypes
    <3> QED BY <2>1, <3>1 DEF ArtifactType
  <2>5. /\ IsSeen(w.pod, w.obj)' /\ IsExecution(w.pod, w.exec)' /\ HasResult(w.obj)'
        /\ \A y : HasArtifact(p, y) => HasArtifact(w.pod, y)'
    BY <2>1, <2>2, <1>n, <1>w, <1>e, NextPod
  <2> HIDE DEF n
  <2>6. /\ artifacts[n].pod = p /\ artifacts[n].exec = e
        /\ \A y \in Outputs \ w.todo : HasArtifact(p, y) \/ artifacts[n].output = y
    BY <2>1, <1>w DEF n
  <2>7. \A y \in Outputs \ w'.todo : HasArtifact(w.pod, y)' \/ artifacts'[n].output = y
    BY <2>2, <2>4, <2>5, <2>6
  <2> QED BY <2>1, <2>2, <2>3, <2>4, <2>5, <2>6, <2>7, <1>w DEF WriterInv
<1>14. CASE Attribute
  <2> DEFINE n == Len(artifacts)
  <2>1. /\ w.pc = "attribution" /\ artifacts' = [artifacts EXCEPT ![n].context = TRUE]
        /\ w' = [w EXCEPT !.pc = IF w.todo = {} THEN "patchWritten" ELSE "outputs"]
        /\ UNCHANGED <<contexts, executions>>
    BY <1>14 DEF Attribute
  <2>2. /\ w'.pc = IF w.todo = {} THEN "patchWritten" ELSE "outputs"
        /\ w'.pod = p /\ w'.obj = obj /\ w'.exec = e /\ w'.todo = w.todo
    BY <2>1, <1>p, <1>t DEF TypeOK, WriterType
  <2>3. n \in DOMAIN artifacts'
    BY <2>1, <1>l
  <2>4. /\ artifacts'[n].pod = artifacts[n].pod /\ artifacts'[n].exec = artifacts[n].exec
        /\ artifacts'[n].output = artifacts[n].output /\ artifacts'[n].event = artifacts[n].event
        /\ artifacts'[n].context
    <3>1. n \in DOMAIN artifacts /\ artifacts[n] \in ArtifactType
      BY <2>1, <1>t, <1>w, StoreTypes
    <3> QED BY <2>1, <3>1 DEF ArtifactType
  <2>5. /\ IsSeen(w.pod, w.obj)' /\ IsExecution(w.pod, w.exec)' /\ HasResult(w.obj)'
        /\ \A y : HasArtifact(p, y)' => HasArtifact(w.pod, y)'
    BY <2>1, <2>2, <1>n, <1>w, <1>e, NextPod
  <2> HIDE DEF n
  <2>6. /\ artifacts[n].pod = p /\ artifacts[n].exec = e /\ artifacts[n].event
        /\ \A y \in Outputs \ w.todo : HasArtifact(p, y) \/ artifacts[n].output = y
    BY <2>1, <1>w DEF n
  <2>7. ASSUME NEW y, artifacts[n].output = y PROVE HasArtifact(p, y)'
    <3>1. IsExecution(p, e)' /\ artifacts'[n].exec = e
      BY <2>1, <2>4, <2>6, <1>w, <1>e
    <3>3. PICK a : a = n
      OBVIOUS
    <3>4. IsArtifact(p, y, a)'
      BY <2>3, <2>4, <2>6, <2>7, <3>1, <3>3 DEF IsArtifact, IsExecution, Workflow
    <3>5. a \in DOMAIN artifacts'
      BY <2>3, <3>3
    <3> QED BY <3>4, <3>5 DEF HasArtifact
  <2>8. \A y \in Outputs \ w.todo : HasArtifact(w.pod, y)'
    BY <1>e, <2>5, <2>6, <2>7
  <2> QED BY <2>1, <2>2, <2>5, <2>8, <1>w DEF WriterInv
<1> QED BY <1>1, <1>2, <1>3, <1>4, <1>5, <1>6, <1>7, <1>8, <1>9, <1>10, <1>11, <1>12, <1>13, <1>14
        DEF Next, WriterStep
-----------------------------------------------------------------------------
LEMMA InitInv == Init => RInv
<1> SUFFICES ASSUME Init PROVE RInv
  OBVIOUS
<1>1. TypeOK
  BY ConstantTypes DEF Init, TypeOK
<1>2. \A p \in Pods : pods[p] = NewPod
  BY DEF Init
<1>3. PodInv /\ MarkedInv
  BY <1>2 DEF PodInv, MarkedInv, IsSeen, NewPod
<1>4. StreamInv /\ CacheInv
  BY DEF Init, StreamInv, CacheInv
<1>5. WriterInv
  BY DEF Init, Idle, NewPod, WriterInv, IsSeen
<1> QED BY <1>1, <1>3, <1>4, <1>5 DEF RInv

(* What the labels, the events under way, the caches and the writer's       *)
(* version of a pod tell is so: whichever version the watch delivers, and   *)
(* wherever the writer is in its calls of ML Metadata.                      *)
THEOREM Invariance == Spec => []RInv
<1>1. RInv /\ [Next]_vars => RInv'
  BY TypeStep, PodInvStep, StreamStep, CacheStep, WriterInvStep DEF RInv
<1> QED BY <1>1, InitInv, PTL DEF Spec

(* A pod is marked as written only when all of its outputs are in ML        *)
(* Metadata, with their events and their execution in the workflow's        *)
(* context: whatever the sizes of the caches, the shape of the workflows    *)
(* and the number of failed calls, ended watches and restarts.              *)
THEOREM MarksAreHonest == Spec => []WrittenIsRecorded
<1>1. RInv => WrittenIsRecorded
  <2> SUFFICES ASSUME RInv, NEW p \in Pods, pods[p].written, pods[p].outs, NEW o \in Outputs
               PROVE  \E a \in ArtifactsOf(p, o) :
                        /\ artifacts[a].event /\ artifacts[a].context
                        /\ LET e == executions[artifacts[a].exec] IN e.pod = p /\ e.context
                        /\ Workflow(p) \in contexts
    BY DEF WrittenIsRecorded, Recorded
  <2>1. PICK a \in DOMAIN artifacts : IsArtifact(p, o, a)
    BY DEF RInv, MarkedInv, HasArtifact
  <2> QED BY <2>1 DEF IsArtifact, IsExecution, ArtifactsOf
<1> QED BY <1>1, Invariance, PTL
-----------------------------------------------------------------------------
(* Each pod has one entry in a cache.                                       *)
Keyed(cache) ==
  /\ \A i \in DOMAIN cache : cache[i].key \in Pods
  /\ \A i, j \in DOMAIN cache : cache[i].key = cache[j].key => i = j

(* A version from before a label is recognised by the cache: that is what   *)
(* the caches are for. A writer that is at work for a pod works on one that *)
(* has no label yet.                                                        *)
LabelInv == Large =>
  /\ \A i \in DOMAIN stream :
       /\ stream[i].obj.exec = 0 /\ pods[stream[i].pod].exec # 0 => Has(execCache, stream[i].pod)
       /\ ~stream[i].obj.written /\ pods[stream[i].pod].written => Has(writtenCache, stream[i].pod)
  /\ w.pc \in {"context", "execution", "association", "inputs"} =>
       pods[w.pod].exec = 0 /\ (pods[w.pod].written => Has(writtenCache, w.pod))
  /\ w.pc \in {"outputs", "event", "attribution", "patchWritten"} => ~pods[w.pod].written

LInv == RInv /\ Keyed(execCache) /\ Keyed(writtenCache) /\ LabelInv

(* Without failures what has been recorded for a pod is in the caches, or   *)
(* the writer is recording it.                                              *)
OnceInv == Large /\ faults = 0 =>
  /\ \A p \in Pods :
       /\ ExecutionsOf(p) # {} => Has(execCache, p) \/ (w.pod = p /\ w.pc \in {"association", "inputs"})
       /\ \A o \in Outputs : ArtifactsOf(p, o) # {} =>
            \/ Has(writtenCache, p)
            \/ /\ w.pod = p /\ w.pc \in {"outputs", "event", "attribution", "patchWritten"}
               /\ o \notin w.todo
       /\ \A i, j \in ExecutionsOf(p) : i = j
       /\ \A o \in Outputs : \A i, j \in ArtifactsOf(p, o) : i = j
  /\ w.pc \in {"context", "execution"} => ~Has(execCache, w.pod)
  /\ w.pc \in {"outputs", "event", "attribution", "patchWritten"} => ~Has(writtenCache, w.pod)

OInv == LInv /\ OnceInv
-----------------------------------------------------------------------------
(* The entries when one comes to the front from the place at: how many      *)
(* there are, and where each of them was.                                   *)
Wanted(L, at) == IF at <= L THEN L ELSE L + 1
Size(L, at, n) == IF Wanted(L, at) < n THEN Wanted(L, at) ELSE n
From(at, i) == IF i <= at THEN i - 1 ELSE i

LEMMA Places ==
  ASSUME NEW L \in Nat, NEW at \in 1..(L + 1), NEW n \in Nat \ {0}
  PROVE  /\ Size(L, at, n) \in Nat \ {0}
         /\ \A i \in 1..Size(L, at, n) : i # 1 => From(at, i) \in 1..L /\ From(at, i) # at
         /\ \A i, j \in 1..Size(L, at, n) : i # 1 /\ j # 1 /\ From(at, i) = From(at, j) => i = j
         /\ Wanted(L, at) <= n =>
              \A j \in 1..L : j # at => \E i \in 1..Size(L, at, n) : i # 1 /\ From(at, i) = j
<1> DEFINE len == IF at <= L THEN L ELSE L + 1
           m == IF len < n THEN len ELSE n
           from(i) == IF i <= at THEN i - 1 ELSE i
<1>1. m \in Nat \ {0}
  OBVIOUS
<1>2. \A i \in 1..m : i # 1 => from(i) \in 1..L /\ from(i) # at
  OBVIOUS
<1>3. \A i, j \in 1..m : i # 1 /\ j # 1 /\ from(i) = from(j) => i = j
  OBVIOUS
<1>4. ASSUME len <= n, NEW j \in 1..L, j # at PROVE \E i \in 1..m : i # 1 /\ from(i) = j
  <2>1. CASE j < at
    <3>1. j + 1 \in 1..m /\ j + 1 # 1 /\ from(j + 1) = j
      BY <1>4, <2>1
    <3> QED BY <3>1
  <2>2. CASE j > at
    <3>1. j \in 1..m /\ j # 1 /\ from(j) = j
      BY <1>4, <2>2
    <3> QED BY <3>1
  <2> QED BY <1>4, <2>1, <2>2
<1> QED BY <1>1, <1>2, <1>3, <1>4 DEF Wanted, Size, From

(* A cache with an entry per pod has no more entries than there are pods.   *)
LEMMA CacheFits ==
  ASSUME NEW cache \in Seq(EntryType), Keyed(cache), NEW key \in Pods
  PROVE  /\ Len(cache) <= Cardinality(Pods)
         /\ ~Has(cache, key) => Len(cache) + 1 <= Cardinality(Pods)
<1> DEFINE L == Len(cache)
<1>1. L \in Nat /\ DOMAIN cache = 1..L
  OBVIOUS
<1>2. IsFiniteSet(Pods) /\ Cardinality(Pods) \in Nat
  BY ShapesAssumption, FS_CardinalityType
<1> HIDE DEF L
<1>3. \A i, j \in 1..L : cache[i].key = cache[j].key => i = j
  BY <1>1 DEF Keyed
<1>4. \A i \in 1..L : cache[i].key \in Pods
  BY <1>1 DEF Keyed
<1>5. L <= Cardinality(Pods)
  <2> DEFINE f == [i \in 1..L |-> cache[i].key]
  <2>1. f \in [1..L -> Pods]
    BY <1>4
  <2>2. ~\E x, y \in 1..L : x # y /\ f[x] = f[y]
    BY <1>3
  <2>3. IsFiniteSet(1..L) /\ Cardinality(1..L) = L
    BY <1>1, FS_Interval
  <2> HIDE DEF f
  <2>4. ~(Cardinality(Pods) < Cardinality(1..L))
    BY <1>2, <2>1, <2>2, <2>3, FS_PigeonHole
  <2> QED BY <1>1, <1>2, <2>3, <2>4
<1>6. ASSUME ~Has(cache, key) PROVE L + 1 <= Cardinality(Pods)
  <2> DEFINE N == L + 1
             f == [i \in 1..N |-> IF i <= L THEN cache[i].key ELSE key]
  <2>0. N \in Nat /\ \A i \in 1..N : (i <= L => i \in 1..L) /\ (~(i <= L) => i = N)
    BY <1>1
  <2>1. \A i \in 1..L : cache[i].key # key
    BY <1>1, <1>6 DEF Has
  <2>2. f \in [1..N -> Pods]
    BY <1>4, <2>0
  <2>3. ~\E x, y \in 1..N : x # y /\ f[x] = f[y]
    BY <1>3, <2>0, <2>1
  <2> HIDE DEF f
  <2>4. IsFiniteSet(1..N) /\ Cardinality(1..N) = N
    BY <1>1, <2>0, FS_Interval
  <2>5. ~(Cardinality(Pods) < Cardinality(1..N))
    BY <1>2, <2>2, <2>3, <2>4, FS_PigeonHole
  <2> QED BY <1>1, <1>2, <2>0, <2>4, <2>5
<1> QED BY <1>5, <1>6 DEF L

(* A cache after a write has the new entry and an entry per pod, and when   *)
(* there is room for every pod nothing falls out.                           *)
LEMMA PutCacheKeys ==
  ASSUME NEW cache \in Seq(EntryType), Keyed(cache), NEW key \in Pods, NEW val \in Nat,
         NEW n \in Nat \ {0}
  PROVE  LET c == PutCache(cache, key, val, n) IN
         /\ Keyed(c) /\ Has(c, key)
         /\ \A q : Has(c, q) => Has(cache, q) \/ q = key
         /\ n >= Cardinality(Pods) => \A q : Has(cache, q) => Has(c, q)
<1> DEFINE L == Len(cache)
           at == IF Has(cache, key) THEN Place(cache, key) ELSE L + 1
           len == Wanted(L, at)
           m == Size(L, at, n)
           from(i) == From(at, i)
           new == [key |-> key, val |-> val]
           c == [i \in 1..m |-> IF i = 1 THEN new ELSE cache[from(i)]]
<1>1. L \in Nat /\ DOMAIN cache = 1..L
  OBVIOUS
<1>2. Has(cache, key) => Place(cache, key) \in DOMAIN cache /\ cache[Place(cache, key)].key = key
  BY DEF Has, Place
<1>0. (~Has(cache, key) => L + 1 <= Cardinality(Pods)) /\ L <= Cardinality(Pods) /\ Cardinality(Pods) \in Nat
  BY CacheFits, ShapesAssumption, FS_CardinalityType
<1> HIDE DEF L
<1>3. at \in 1..(L + 1) /\ (at <= L <=> Has(cache, key))
  BY <1>1, <1>2
<1>4. PutCache(cache, key, val, n) = c
  BY <1>3 DEF PutCache, L, Wanted, Size, From
<1>5. \A j \in 1..L : cache[j].key = key <=> j = at
  BY <1>1, <1>2, <1>3 DEF Keyed, Has
<1>6. n >= Cardinality(Pods) => len <= n
  BY <1>0, <1>1, <1>3 DEF Wanted
<1> HIDE DEF at
<1>7. /\ m \in Nat \ {0}
      /\ \A i \in 1..m : i # 1 => from(i) \in 1..L /\ from(i) # at
      /\ \A i, j \in 1..m : i # 1 /\ j # 1 /\ from(i) = from(j) => i = j
      /\ len <= n => \A j \in 1..L : j # at => \E i \in 1..m : i # 1 /\ from(i) = j
  BY <1>1, <1>3, Places
<1>8. new.key = key
  OBVIOUS
<1> HIDE DEF len, m, from, new
<1>9. /\ DOMAIN c = 1..m /\ 1 \in 1..m /\ c[1].key = key
      /\ \A i \in 1..m : i # 1 => c[i] = cache[from(i)]
  BY <1>7, <1>8
<1> HIDE DEF c
<1>10. \A i \in 1..m : i # 1 => c[i].key # key /\ c[i].key \in Pods
  BY <1>1, <1>5, <1>7, <1>9 DEF Keyed
<1>11. \A i, j \in 1..m : c[i].key = c[j].key => i = j
  <2> SUFFICES ASSUME NEW i \in 1..m, NEW j \in 1..m, c[i].key = c[j].key PROVE i = j
    OBVIOUS
  <2>1. CASE i = 1 \/ j = 1
    BY <2>1, <1>9, <1>10
  <2>2. CASE i # 1 /\ j # 1
    <3>1. from(i) = from(j)
      BY <2>2, <1>1, <1>7, <1>9 DEF Keyed
    <3> QED BY <2>2, <3>1, <1>7
  <2> QED BY <2>1, <2>2
<1>12. Keyed(c) /\ Has(c, key)
  BY <1>9, <1>10, <1>11 DEF Keyed, Has
<1>13. \A q : Has(c, q) => Has(cache, q) \/ q = key
  BY <1>1, <1>7, <1>9 DEF Has
<1>14. ASSUME n >= Cardinality(Pods), NEW q, Has(cache, q) PROVE Has(c, q)
  <2>1. PICK j \in 1..L : cache[j].key = q
    BY <1>1, <1>14 DEF Has
  <2>2. CASE j = at
    BY <2>1, <2>2, <1>5, <1>9 DEF Has
  <2>3. CASE j # at
    BY <2>1, <2>3, <1>6, <1>7, <1>9, <1>14 DEF Has
  <2> QED BY <2>2, <2>3
<1> QED BY <1>4, <1>12, <1>13, <1>14
-----------------------------------------------------------------------------
(* A write of the cache of executions or of the cache of written pods.      *)
LEMMA CachePut ==
  ASSUME LInv, NEW p \in Pods, NEW e \in Nat
  PROVE  /\ execCache' = PutCache(execCache, p, e, shape.exec) =>
              /\ Keyed(execCache') /\ Has(execCache', p)
              /\ \A q : Has(execCache', q) => Has(execCache, q) \/ q = p
              /\ Large => \A q : Has(execCache, q) => Has(execCache', q)
         /\ writtenCache' = PutCache(writtenCache, p, e, shape.written) =>
              /\ Keyed(writtenCache') /\ Has(writtenCache', p)
              /\ \A q : Has(writtenCache', q) => Has(writtenCache, q) \/ q = p
              /\ Large => \A q : Has(writtenCache, q) => Has(writtenCache', q)
<1>1. /\ execCache \in Seq(EntryType) /\ writtenCache \in Seq(EntryType)
      /\ shape.exec \in Nat \ {0} /\ shape.written \in Nat \ {0}
      /\ Keyed(execCache) /\ Keyed(writtenCache)
  BY ShapeTypes DEF LInv, RInv, TypeOK
<1>2. Large => shape.exec >= Cardinality(Pods) /\ shape.written >= Cardinality(Pods)
  BY DEF Large
<1>3. LET c == PutCache(execCache, p, e, shape.exec) IN
      /\ Keyed(c) /\ Has(c, p) /\ \A q : Has(c, q) => Has(execCache, q) \/ q = p
      /\ Large => \A q : Has(execCache, q) => Has(c, q)
  BY <1>1, <1>2, PutCacheKeys
<1>4. LET c == PutCache(writtenCache, p, e, shape.written) IN
      /\ Keyed(c) /\ Has(c, p) /\ \A q : Has(c, q) => Has(writtenCache, q) \/ q = p
      /\ Large => \A q : Has(writtenCache, q) => Has(c, q)
  BY <1>1, <1>2, PutCacheKeys
<1> QED BY <1>3, <1>4

(* Only a restart takes anything out of a cache that has room for all.      *)
LEMMA CachesStep ==
  ASSUME LInv, [Next]_vars
  PROVE  /\ Keyed(execCache') /\ Keyed(writtenCache')
         /\ Large /\ ~Restart => /\ \A q : Has(execCache, q) => Has(execCache', q)
                                 /\ \A q : Has(writtenCache, q) => Has(writtenCache', q)
<1> DEFINE Goal == /\ Keyed(execCache') /\ Keyed(writtenCache')
                   /\ Large /\ ~Restart => /\ \A q : Has(execCache, q) => Has(execCache', q)
                                           /\ \A q : Has(writtenCache, q) => Has(writtenCache', q)
<1>t. TypeOK /\ Keyed(execCache) /\ Keyed(writtenCache)
  BY DEF LInv, RInv
<1>0. ASSUME execCache' = execCache, writtenCache' = writtenCache PROVE Goal
  BY <1>0, <1>t
<1>1. ASSUME FoundInCache \/ ContextNotCached PROVE Goal
  <2> DEFINE p == Head(stream).pod
  <2>1. /\ stream # <<>> /\ Has(execCache, p) /\ writtenCache' = writtenCache
        /\ execCache' = PutCache(execCache, p, Get(execCache, p), shape.exec)
    BY <1>1 DEF FoundInCache, ContextNotCached, Take
  <2>2. p \in Pods /\ Get(execCache, p) \in Nat
    BY <1>t, <2>1, TakeEffect, FoundEntry DEF TypeOK
  <2> HIDE DEF p
  <2> QED BY <1>t, <2>1, <2>2, CachePut
<1>2. ASSUME PatchExecution \/ PatchExecutionFails PROVE Goal
  <2>1. execCache' = PutCache(execCache, w.pod, w.exec, shape.exec) /\ writtenCache' = writtenCache
    BY <1>2 DEF PatchExecution, PatchExecutionFails, CacheExecution
  <2>2. w.pod \in Pods /\ w.exec \in Nat
    BY <1>t DEF TypeOK, WriterType
  <2> QED BY <1>t, <2>1, <2>2, CachePut
<1>3. ASSUME PatchWritten \/ PatchWrittenFails PROVE Goal
  <2>1. writtenCache' = PutCache(writtenCache, w.pod, 0, shape.written) /\ execCache' = execCache
    BY <1>3 DEF PatchWritten, PatchWrittenFails
  <2>2. w.pod \in Pods /\ 0 \in Nat
    BY <1>t DEF TypeOK, WriterType
  <2> QED BY <1>t, <2>1, <2>2, CachePut
<1>4. ASSUME Restart PROVE Goal
  <2>1. execCache' = <<>> /\ writtenCache' = <<>>
    BY <1>4 DEF Restart
  <2> QED BY <1>4, <2>1 DEF Keyed
<1>5. ASSUME \/ SkipWritten \/ FoundOnPod \/ NewPodSeen \/ get_or_create_run_context
             \/ create_execution_with_type \/ Associate
             \/ \E uri \in w.todo : link_execution_to_input_artifact(uri)
             \/ \E o \in w.todo : create_artifact_with_type(o)
             \/ PutEvent \/ Attribute \/ CallFails \/ WatchEnds
             \/ (\E p \in Pods : PodStep(p)) \/ UNCHANGED vars
      PROVE  execCache' = execCache /\ writtenCache' = writtenCache
  BY <1>5 DEF SkipWritten, FoundOnPod, NewPodSeen, Take, get_or_create_run_context, caches, vars,
              create_execution_with_type, Associate, link_execution_to_input_artifact,
              create_artifact_with_type, PutEvent, Attribute, CallFails, WatchEnds,
              PodStep, PodCreated, PodOutputs, PodCompletes, PodDeleted
<1> HIDE DEF Goal
<1>6. Goal
  BY <1>0, <1>1, <1>2, <1>3, <1>4, <1>5 DEF Next, WriterStep
<1> QED BY <1>6 DEF Goal

(* Argo leaves the labels of the writer alone.                              *)
LEMMA PodLabels ==
  ASSUME RInv, NEW p \in Pods, NEW q \in Pods, PodStep(q)
  PROVE  pods'[p].exec = pods[p].exec /\ pods'[p].written = pods[p].written
<1>t. \A y \in Pods : pods[y] \in PodType /\ (pods[y].state = "none" => pods[y] = NewPod)
  BY DEF RInv, TypeOK, PodInv
<1>p. pods \in [Pods -> PodType]
  BY DEF RInv, TypeOK
<1>1. PICK x : pods' = [pods EXCEPT ![q] = x] /\ x.exec = pods[q].exec /\ x.written = pods[q].written
  <2>1. CASE PodCreated(q)
    <3>1. pods[q] = NewPod
      BY <1>t, <2>1 DEF PodCreated
    <3> DEFINE x == [NewPod EXCEPT !.state = "there"]
    <3>2. pods' = [pods EXCEPT ![q] = x] /\ x.exec = pods[q].exec /\ x.written = pods[q].written
      BY <2>1, <3>1 DEF PodCreated, Put, NewPod
    <3> QED BY <3>2
  <2>2. CASE PodOutputs(q)
    <3> DEFINE x == [pods[q] EXCEPT !.outs = TRUE]
    <3>1. pods' = [pods EXCEPT ![q] = x] /\ x.exec = pods[q].exec /\ x.written = pods[q].written
      BY <1>t, <2>2 DEF PodOutputs, Put, PodType
    <3> QED BY <3>1
  <2>3. CASE PodCompletes(q)
    <3> DEFINE x == [pods[q] EXCEPT !.completed = TRUE]
    <3>1. pods' = [pods EXCEPT ![q] = x] /\ x.exec = pods[q].exec /\ x.written = pods[q].written
      BY <1>t, <2>3 DEF PodCompletes, Put, PodType
    <3> QED BY <3>1
  <2>4. CASE PodDeleted(q)
    <3> DEFINE x == [pods[q] EXCEPT !.state = "gone"]
    <3>1. pods' = [pods EXCEPT ![q] = x] /\ x.exec = pods[q].exec /\ x.written = pods[q].written
      BY <1>t, <2>4 DEF PodDeleted, Put, PodType
    <3> QED BY <3>1
  <2> QED BY <2>1, <2>2, <2>3, <2>4 DEF PodStep
<1> QED BY <1>p, <1>1

(* The labels of a pod are written by the writer only.                      *)
LEMMA LabelCases ==
  ASSUME RInv, [Next]_vars, NEW p \in Pods
  PROVE  /\ pods'[p].exec = pods[p].exec \/ (PatchExecution /\ p = w.pod)
         /\ pods'[p].written = pods[p].written \/ (PatchWritten /\ p = w.pod)
<1>t. \A q \in Pods : pods[q] \in PodType /\ (pods[q].state = "none" => pods[q] = NewPod)
  BY DEF RInv, TypeOK, PodInv
<1>p. pods \in [Pods -> PodType] /\ w.pod \in Pods
  BY DEF RInv, TypeOK, WriterType
<1>1. ASSUME NEW q \in Pods, PodStep(q)
      PROVE  pods'[p].exec = pods[p].exec /\ pods'[p].written = pods[p].written
  BY <1>1, PodLabels
<1>2. CASE PatchExecution
  <2>1. pods' = [pods EXCEPT ![w.pod] = [pods[w.pod] EXCEPT !.exec = w.exec]]
    BY <1>2 DEF PatchExecution, Put
  <2> QED BY <1>p, <1>t, <1>2, <2>1 DEF PodType
<1>3. CASE PatchWritten
  <2>1. pods' = [pods EXCEPT ![w.pod] = [pods[w.pod] EXCEPT !.written = TRUE]]
    BY <1>3 DEF PatchWritten, Put
  <2> QED BY <1>p, <1>t, <1>3, <2>1 DEF PodType
<1>4. ASSUME \/ WriterStep /\ ~PatchExecution /\ ~PatchWritten
             \/ CallFails \/ WatchEnds \/ Restart \/ UNCHANGED vars
      PROVE  pods' = pods
  BY <1>4 DEF WriterStep, SkipWritten, FoundInCache, ContextNotCached, FoundOnPod, NewPodSeen, Take,
              get_or_create_run_context, create_execution_with_type, Associate,
              link_execution_to_input_artifact, PatchExecutionFails, create_artifact_with_type,
              PutEvent, Attribute, PatchWrittenFails, CallFails, WatchEnds, Restart, Rewatch, vars
<1> QED BY <1>1, <1>2, <1>3, <1>4 DEF Next

(* The events that wait, and the caches that tell them apart.               *)
LEMMA EventLabels ==
  ASSUME LInv, [Next]_vars, Large, NEW i \in DOMAIN stream'
  PROVE  LET p == stream'[i].pod  obj == stream'[i].obj IN
         /\ obj.exec = 0 /\ pods'[p].exec # 0 => Has(execCache', p)
         /\ ~obj.written /\ pods'[p].written => Has(writtenCache', p)
<1> DEFINE p == stream'[i].pod
           obj == stream'[i].obj
<1>r. RInv /\ TypeOK
  BY DEF LInv, RInv
<1>1. CASE p \in Pods /\ obj = pods'[p]
  BY <1>1
<1>2. CASE ~Restart /\ \E j \in DOMAIN stream : stream'[i] = stream[j]
  <2>1. PICK j \in DOMAIN stream : stream'[i] = stream[j]
    BY <1>2
  <2>2. p \in Pods
    <3>1. stream[j] \in EventType
      BY <1>r DEF TypeOK
    <3> QED BY <2>1, <3>1 DEF EventType
  <2>3. /\ obj.exec = 0 /\ pods[p].exec # 0 => Has(execCache, p)
        /\ ~obj.written /\ pods[p].written => Has(writtenCache, p)
    BY <2>1 DEF LInv, LabelInv
  <2>4. w.pod \in Pods /\ w.exec \in Nat /\ 0 \in Nat
    BY <1>r DEF TypeOK, WriterType
  <2>5. PatchExecution => Has(execCache', w.pod)
    BY <2>4, CachePut DEF PatchExecution, CacheExecution
  <2>6. PatchWritten => Has(writtenCache', w.pod)
    BY <2>4, CachePut DEF PatchWritten
  <2>7. /\ pods'[p].exec = pods[p].exec \/ (PatchExecution /\ p = w.pod)
        /\ pods'[p].written = pods[p].written \/ (PatchWritten /\ p = w.pod)
    BY <1>r, <2>2, LabelCases
  <2>8. /\ \A q : Has(execCache, q) => Has(execCache', q)
        /\ \A q : Has(writtenCache, q) => Has(writtenCache', q)
    BY <1>2, CachesStep
  <2> HIDE DEF p, obj
  <2>9. /\ obj.exec = 0 /\ pods'[p].exec # 0 => Has(execCache', p)
        /\ ~obj.written /\ pods'[p].written => Has(writtenCache', p)
    BY <2>3, <2>5, <2>6, <2>7, <2>8
  <2> QED BY <2>9 DEF p, obj
<1>3. ASSUME Restart PROVE p \in Pods /\ obj = pods'[p]
  BY <1>3, <1>r, NewWatchEffect DEF Restart, Rewatch
<1> QED BY <1>1, <1>2, <1>3, <1>r, StreamCases

Early == {"context", "execution", "association", "inputs"}
Late == {"outputs", "event", "attribution", "patchWritten"}

(* A step in which the writer takes up no other pod: its own label is not   *)
(* written, and it goes from the execution to the outputs only by Handle.   *)
SamePod ==
  /\ w'.pod = w.pod /\ (w'.pc \in Early => w.pc \in Early) /\ (w'.pc \in Late => w.pc \in Late)
  /\ pods'[w.pod].exec = pods[w.pod].exec /\ pods'[w.pod].written = pods[w.pod].written

LEMMA WriterCases ==
  ASSUME RInv, [Next]_vars
  PROVE  \/ w' = Idle
         \/ SamePod /\ ~Restart
         \/ NewPodSeen
         \/ FoundInCache \/ FoundOnPod
         \/ PatchExecution \/ PatchExecutionFails
<1>t. w \in WriterType /\ w.pod \in Pods
  BY DEF RInv, TypeOK, WriterType
<1>1. ASSUME PatchWritten \/ PatchWrittenFails \/ CallFails \/ WatchEnds \/ Restart PROVE w' = Idle
  BY <1>1 DEF PatchWritten, PatchWrittenFails, CallFails, WatchEnds, Restart, Rewatch
<1>2. ASSUME \/ SkipWritten \/ ContextNotCached \/ get_or_create_run_context
             \/ create_execution_with_type \/ Associate
             \/ \E uri \in w.todo : link_execution_to_input_artifact(uri)
             \/ (\E o \in w.todo : create_artifact_with_type(o)) \/ PutEvent \/ Attribute
             \/ UNCHANGED vars
      PROVE  SamePod
  <2>1. pods' = pods
    BY <1>2 DEF SkipWritten, ContextNotCached, Take, get_or_create_run_context, vars,
                create_execution_with_type, Associate, link_execution_to_input_artifact,
                create_artifact_with_type, PutEvent, Attribute
  <2>2. /\ w'.pod = w.pod
        /\ (w'.pc \in Early => w.pc \in Early) /\ (w'.pc \in Late => w.pc \in Late)
    BY <1>2, <1>t DEF SkipWritten, ContextNotCached, Take, get_or_create_run_context, vars, WriterType,
                create_execution_with_type, Associate, link_execution_to_input_artifact,
                create_artifact_with_type, PutEvent, Attribute, Early, Late
  <2> QED BY <2>1, <2>2 DEF SamePod
<1>3. ASSUME NEW q \in Pods, PodStep(q) PROVE SamePod
  <2>1. w' = w
    BY <1>3 DEF PodStep, PodCreated, PodOutputs, PodCompletes, PodDeleted
  <2> QED BY <1>3, <1>t, <2>1, PodLabels DEF SamePod
<1> QED BY <1>1, <1>2, <1>3 DEF Next, WriterStep

(* The pod the writer is at work for has no label yet.                      *)
LEMMA WriterLabels ==
  ASSUME LInv, [Next]_vars, Large
  PROVE  /\ w'.pc \in Early => /\ pods'[w'.pod].exec = 0
                               /\ pods'[w'.pod].written => Has(writtenCache', w'.pod)
         /\ w'.pc \in Late => ~pods'[w'.pod].written
<1>r. RInv /\ TypeOK /\ w.pod \in Pods /\ w.obj \in PodType /\ w.exec \in Nat
  BY DEF LInv, RInv, TypeOK, WriterType
<1>w. /\ w.pc \in Early => pods[w.pod].exec = 0 /\ (pods[w.pod].written => Has(writtenCache, w.pod))
      /\ w.pc \in Late => ~pods[w.pod].written
  BY DEF LInv, LabelInv, Early, Late
<1>1. CASE w' = Idle
  BY <1>1, ConstantTypes DEF Early, Late
<1>2. CASE SamePod /\ ~Restart
  <2>1. \A q : Has(writtenCache, q) => Has(writtenCache', q)
    BY <1>2, CachesStep
  <2> QED BY <1>2, <1>w, <2>1 DEF SamePod
<1>e. ASSUME w.pc = "idle", stream # <<>>
      PROVE  /\ Head(stream).pod \in Pods /\ Head(stream).obj \in PodType /\ Head(stream).obj.exec \in Nat
             /\ Head(stream).obj.exec = 0 /\ pods[Head(stream).pod].exec # 0 => Has(execCache, Head(stream).pod)
             /\ ~Head(stream).obj.written /\ pods[Head(stream).pod].written => Has(writtenCache, Head(stream).pod)
  <2>1. Head(stream) = stream[1] /\ 1 \in DOMAIN stream /\ Head(stream).pod \in Pods /\ Head(stream).obj \in PodType
    BY <1>e, <1>r, TakeEffect
  <2> QED BY <2>1 DEF LInv, LabelInv, PodType
<1>3. CASE NewPodSeen
  <2>1. /\ w.pc = "idle" /\ stream # <<>> /\ pods' = pods /\ writtenCache' = writtenCache
        /\ ~Head(stream).obj.written /\ ~Has(execCache, Head(stream).pod) /\ Head(stream).obj.exec = 0
        /\ w'.pc = "context" /\ w'.pod = Head(stream).pod
    BY <1>3 DEF NewPodSeen, Take, Idle
  <2> QED BY <2>1, <1>e DEF Early, Late
<1>h. ASSUME NEW q \in Pods, NEW x \in PodType, NEW f \in Nat, w' = Handle(q, x, f),
             pods'[q].written = pods[q].written, pods[q].written => Has(writtenCache, q)
      PROVE  /\ w'.pc \notin Early
             /\ w'.pc \in Late => ~pods'[w'.pod].written
  <2>1. \/ w' = Idle
        \/ w'.pod = q /\ ~Has(writtenCache, q) /\ w'.pc \in {"outputs", "patchWritten"}
    BY <1>h, HandleCases
  <2> QED BY <1>h, <2>1, ConstantTypes DEF Early, Late
<1>4. CASE FoundInCache \/ FoundOnPod
  <2> DEFINE q == Head(stream).pod
             x == Head(stream).obj
  <2>1. /\ w.pc = "idle" /\ stream # <<>> /\ pods' = pods /\ ~x.written
        /\ (Has(execCache, q) /\ w' = Handle(q, x, Get(execCache, q))) \/ w' = Handle(q, x, x.exec)
    BY <1>4 DEF FoundInCache, FoundOnPod, Take
  <2>2. Has(execCache, q) => Get(execCache, q) \in Nat
    BY <1>r, FoundEntry DEF TypeOK
  <2>3. q \in Pods /\ x \in PodType /\ x.exec \in Nat /\ (pods[q].written => Has(writtenCache, q))
    BY <2>1, <1>e
  <2> HIDE DEF q, x
  <2> QED BY <2>1, <2>2, <2>3, <1>h
<1>5. CASE PatchExecution \/ PatchExecutionFails
  <2>1. w.pc = "inputs" /\ w' = Handle(w.pod, w.obj, w.exec)
    BY <1>5 DEF PatchExecution, PatchExecutionFails
  <2>2. pods'[w.pod].written = pods[w.pod].written
    <3>1. ASSUME PatchExecution PROVE pods'[w.pod].written = pods[w.pod].written
      <4>1. pods' = [pods EXCEPT ![w.pod] = [pods[w.pod] EXCEPT !.exec = w.exec]]
        BY <3>1 DEF PatchExecution, Put
      <4> QED BY <1>r, <4>1 DEF TypeOK, PodType
    <3> QED BY <1>5, <3>1 DEF PatchExecutionFails
  <2> QED BY <1>r, <1>w, <2>1, <2>2, <1>h DEF Early
<1> QED BY <1>1, <1>2, <1>3, <1>4, <1>5, <1>r, WriterCases

LEMMA LabelStep == LInv /\ [Next]_vars => LInv'
<1> SUFFICES ASSUME LInv, [Next]_vars PROVE LInv'
  OBVIOUS
<1>1. RInv'
  BY TypeStep, PodInvStep, StreamStep, CacheStep, WriterInvStep DEF RInv, LInv
<1>2. Keyed(execCache)' /\ Keyed(writtenCache)'
  BY CachesStep DEF Keyed
<1>3. shape' = shape
  BY PodsStep DEF LInv
<1>4. ASSUME Large' PROVE Large
  BY <1>3, <1>4 DEF Large
<1>5. LabelInv'
  BY <1>4, EventLabels, WriterLabels DEF LabelInv, Has, Early, Late
<1> QED BY <1>1, <1>2, <1>5 DEF LInv

LEMMA LabelInit == Init => LInv
BY InitInv, ConstantTypes DEF Init, LInv, LabelInv, Keyed

(* A pod has one entry in a cache at most, and with room for every pod an   *)
(* event from before a label of its pod finds the pod in the cache that     *)
(* goes with the label, whatever fails and however often the writer starts. *)
THEOREM LabelInvariance == Spec => []LInv
BY LabelInit, LabelStep, PTL DEF Spec
-----------------------------------------------------------------------------
(* Only the two calls that create something add to what is recorded.        *)
LEMMA ExecutionCases ==
  ASSUME RInv, [Next]_vars, NEW p \in Pods
  PROVE  \/ ExecutionsOf(p)' = ExecutionsOf(p)
         \/ /\ create_execution_with_type /\ p = w.pod
            /\ ExecutionsOf(p)' = ExecutionsOf(p) \cup {Len(executions) + 1}
<1>d. /\ DOMAIN executions = 1..Len(executions) /\ Len(executions) \in Nat
      /\ executions \in Seq(ExecutionType) /\ w.pod \in Pods
  BY StoreTypes DEF RInv, TypeOK, WriterType
<1>1. CASE create_execution_with_type
  <2> DEFINE x == [pod |-> w.pod, context |-> FALSE, inputs |-> {}]
             n == Len(executions) + 1
  <2>1. executions' = Append(executions, x)
    BY <1>1 DEF create_execution_with_type
  <2>2. x.pod = w.pod
    OBVIOUS
  <2> HIDE DEF x
  <2>3. /\ DOMAIN executions' = DOMAIN executions \cup {n} /\ n \notin DOMAIN executions
        /\ executions'[n] = x /\ \A i \in DOMAIN executions : executions'[i] = executions[i]
    BY <1>d, <2>1
  <2> HIDE DEF n
  <2>4. ExecutionsOf(p)' = IF p = w.pod THEN ExecutionsOf(p) \cup {n} ELSE ExecutionsOf(p)
    BY <2>2, <2>3 DEF ExecutionsOf
  <2> QED BY <1>1, <2>4 DEF n
<1>2. ASSUME ~create_execution_with_type
      PROVE  DOMAIN executions' = DOMAIN executions /\ \A i \in DOMAIN executions : executions'[i].pod = executions[i].pod
  <2>1. \/ executions' = executions
        \/ \E e, x : executions' = [executions EXCEPT ![e].context = x]
        \/ \E e, x : executions' = [executions EXCEPT ![e].inputs = x]
    <3>1. ASSUME Associate PROVE \E e, x : executions' = [executions EXCEPT ![e].context = x]
      BY <3>1 DEF Associate
    <3>2. ASSUME NEW uri, link_execution_to_input_artifact(uri)
          PROVE  executions' = executions \/ \E e, x : executions' = [executions EXCEPT ![e].inputs = x]
      BY <3>2 DEF link_execution_to_input_artifact
    <3>3. ASSUME \/ SkipWritten \/ FoundInCache \/ ContextNotCached \/ FoundOnPod \/ NewPodSeen
                 \/ get_or_create_run_context \/ PatchExecution \/ PatchExecutionFails
                 \/ (\E o \in w.todo : create_artifact_with_type(o)) \/ PutEvent \/ Attribute
                 \/ PatchWritten \/ PatchWrittenFails \/ CallFails \/ WatchEnds \/ Restart \/ UNCHANGED vars
          PROVE  executions' = executions
      BY <3>3 DEF SkipWritten, FoundInCache, ContextNotCached, FoundOnPod, NewPodSeen, Take, vars, store,
               get_or_create_run_context, PatchExecution, PatchExecutionFails, create_artifact_with_type,
               PutEvent, Attribute, PatchWritten, PatchWrittenFails, CallFails, WatchEnds, Restart, Rewatch
    <3>4. ASSUME NEW q \in Pods, PodStep(q) PROVE executions' = executions
      BY <3>4 DEF PodStep, PodCreated, PodOutputs, PodCompletes, PodDeleted, store
    <3> QED BY <1>2, <3>1, <3>2, <3>3, <3>4 DEF Next, WriterStep
  <2>2. ASSUME NEW e, NEW x, executions' = [executions EXCEPT ![e].context = x]
        PROVE  DOMAIN executions' = DOMAIN executions /\ \A i \in DOMAIN executions : executions'[i].pod = executions[i].pod
    BY <2>2
  <2>3. ASSUME NEW e, NEW x, executions' = [executions EXCEPT ![e].inputs = x]
        PROVE  DOMAIN executions' = DOMAIN executions /\ \A i \in DOMAIN executions : executions'[i].pod = executions[i].pod
    BY <2>3
  <2> QED BY <2>1, <2>2, <2>3
<1>3. CASE ~create_execution_with_type
  BY <1>2, <1>3 DEF ExecutionsOf
<1> QED BY <1>1, <1>3

LEMMA ArtifactCases ==
  ASSUME RInv, [Next]_vars, NEW p \in Pods, NEW o \in Outputs
  PROVE  \/ ArtifactsOf(p, o)' = ArtifactsOf(p, o)
         \/ /\ create_artifact_with_type(o) /\ p = w.pod
            /\ ArtifactsOf(p, o)' = ArtifactsOf(p, o) \cup {Len(artifacts) + 1}
<1>d. /\ DOMAIN artifacts = 1..Len(artifacts) /\ Len(artifacts) \in Nat
      /\ artifacts \in Seq(ArtifactType) /\ w.pod \in Pods
  BY StoreTypes DEF RInv, TypeOK, WriterType
<1>1. ASSUME NEW y \in w.todo, create_artifact_with_type(y)
      PROVE  ArtifactsOf(p, o)' = IF p = w.pod /\ o = y THEN ArtifactsOf(p, o) \cup {Len(artifacts) + 1}
                                  ELSE ArtifactsOf(p, o)
  <2> DEFINE x == [pod |-> w.pod, output |-> y, exec |-> w.exec, event |-> FALSE, context |-> FALSE]
             n == Len(artifacts) + 1
  <2>1. artifacts' = Append(artifacts, x)
    BY <1>1 DEF create_artifact_with_type
  <2>2. x.pod = w.pod /\ x.output = y
    OBVIOUS
  <2> HIDE DEF x
  <2>3. /\ DOMAIN artifacts' = DOMAIN artifacts \cup {n} /\ n \notin DOMAIN artifacts
        /\ artifacts'[n] = x /\ \A i \in DOMAIN artifacts : artifacts'[i] = artifacts[i]
    BY <1>d, <2>1
  <2> HIDE DEF n
  <2>4. ArtifactsOf(p, o)' = IF p = w.pod /\ o = y THEN ArtifactsOf(p, o) \cup {n} ELSE ArtifactsOf(p, o)
    BY <2>2, <2>3 DEF ArtifactsOf
  <2> QED BY <2>4 DEF n
<1>2. ASSUME ~\E y \in w.todo : create_artifact_with_type(y)
      PROVE  /\ DOMAIN artifacts' = DOMAIN artifacts
             /\ \A i \in DOMAIN artifacts : artifacts'[i].pod = artifacts[i].pod /\ artifacts'[i].output = artifacts[i].output
  <2>1. CASE PutEvent
    BY <2>1 DEF PutEvent
  <2>2. CASE Attribute
    BY <2>2 DEF Attribute
  <2>3. ASSUME \/ SkipWritten \/ FoundInCache \/ ContextNotCached \/ FoundOnPod \/ NewPodSeen
               \/ get_or_create_run_context \/ create_execution_with_type \/ Associate
               \/ (\E uri \in w.todo : link_execution_to_input_artifact(uri))
               \/ PatchExecution \/ PatchExecutionFails
               \/ PatchWritten \/ PatchWrittenFails \/ CallFails \/ WatchEnds \/ Restart \/ UNCHANGED vars
        PROVE  artifacts' = artifacts
    BY <2>3 DEF SkipWritten, FoundInCache, ContextNotCached, FoundOnPod, NewPodSeen, Take, vars, store,
             get_or_create_run_context, PatchExecution, PatchExecutionFails, create_execution_with_type,
             Associate, link_execution_to_input_artifact, PatchWritten, PatchWrittenFails, CallFails,
             WatchEnds, Restart, Rewatch
  <2>4. ASSUME NEW q \in Pods, PodStep(q) PROVE artifacts' = artifacts
    BY <2>4 DEF PodStep, PodCreated, PodOutputs, PodCompletes, PodDeleted, store
  <2>5. CASE artifacts' = artifacts
    BY <2>5
  <2> QED BY <1>2, <2>1, <2>2, <2>3, <2>4, <2>5 DEF Next, WriterStep
<1>3. CASE ~\E y \in w.todo : create_artifact_with_type(y)
  BY <1>2, <1>3 DEF ArtifactsOf
<1> QED BY <1>1, <1>3

(* A label is enough: with room in the caches a pod that carries its        *)
(* execution gets no other one, and the outputs of a pod that is marked as  *)
(* written are not recorded again, however late a version of the pod comes, *)
(* whichever call fails and however often the writer restarts.              *)
THEOREM LabelsHold == Spec => LabelsAreFinal
<1>1. LInv /\ [Next]_vars =>
        [Large => \A p \in Pods :
           /\ pods[p].exec # 0 => ExecutionsOf(p)' = ExecutionsOf(p)
           /\ pods[p].written => \A o \in Outputs : ArtifactsOf(p, o)' = ArtifactsOf(p, o)]_vars
  <2> SUFFICES ASSUME LInv, [Next]_vars, Large, NEW p \in Pods
               PROVE  /\ pods[p].exec # 0 => ExecutionsOf(p)' = ExecutionsOf(p)
                      /\ pods[p].written => \A o \in Outputs : ArtifactsOf(p, o)' = ArtifactsOf(p, o)
    OBVIOUS
  <2>1. /\ w.pc = "execution" => pods[w.pod].exec = 0
        /\ w.pc = "outputs" => ~pods[w.pod].written
    BY DEF LInv, LabelInv
  <2>2. ASSUME create_execution_with_type PROVE pods[w.pod].exec = 0
    BY <2>1, <2>2 DEF create_execution_with_type
  <2>3. ASSUME NEW o, create_artifact_with_type(o) PROVE ~pods[w.pod].written
    BY <2>1, <2>3 DEF create_artifact_with_type
  <2>4. RInv
    BY DEF LInv
  <2>5. pods[p].exec # 0 => ExecutionsOf(p)' = ExecutionsOf(p)
    BY <2>2, <2>4, ExecutionCases
  <2>6. ASSUME pods[p].written, NEW o \in Outputs PROVE ArtifactsOf(p, o)' = ArtifactsOf(p, o)
    BY <2>3, <2>4, <2>6, ArtifactCases
  <2> QED BY <2>5, <2>6
<1> QED BY <1>1, LabelInvariance, PTL DEF Spec, LabelsAreFinal
-----------------------------------------------------------------------------
(* Without failures the writer goes on with its pod until it is cached.     *)
OnceWriter ==
  /\ w.pc \in {"association", "inputs"} =>
       Has(execCache', w.pod) \/ (w'.pod = w.pod /\ w'.pc \in {"association", "inputs"})
  /\ w.pc \in Late =>
       Has(writtenCache', w.pod) \/ (w'.pod = w.pod /\ w'.pc \in Late /\ w'.todo \subseteq w.todo)
  /\ w'.pc \in {"context", "execution"} => ~Has(execCache', w'.pod)
  /\ w'.pc \in Late => ~Has(writtenCache', w'.pod)

LEMMA NoFaults ==
  ASSUME RInv, [Next]_vars, faults' = 0
  PROVE  faults = 0 /\ ~CallFails /\ ~WatchEnds /\ ~Restart
<1>t. faults \in Nat
  BY DEF RInv, TypeOK
<1>0. ~CallFails /\ ~WatchEnds /\ ~Restart
  BY <1>t DEF CallFails, WatchEnds, Restart, Rewatch
<1>1. faults = 0
  <2>1. faults' = faults \/ faults' = faults + 1
    BY <1>0 DEF Next, WriterStep, SkipWritten, FoundInCache, ContextNotCached, FoundOnPod, NewPodSeen,
           Take, get_or_create_run_context, create_execution_with_type, Associate, PatchFails,
           link_execution_to_input_artifact, PatchExecution, PatchExecutionFails,
           create_artifact_with_type, PutEvent, Attribute, PatchWritten, PatchWrittenFails, vars,
           PodStep, PodCreated, PodOutputs, PodCompletes, PodDeleted
  <2> QED BY <1>t, <2>1
<1> QED BY <1>0, <1>1

LEMMA OnceWriterStep ==
  ASSUME OInv, [Next]_vars, Large, faults' = 0
  PROVE  OnceWriter
<1>t. /\ LInv /\ RInv /\ TypeOK /\ w \in WriterType /\ faults \in Nat /\ 0 \in Nat
      /\ w.pod \in Pods /\ w.obj \in PodType /\ w.exec \in Nat
  BY DEF OInv, LInv, RInv, TypeOK, WriterType
<1>0. faults = 0 /\ ~CallFails /\ ~WatchEnds /\ ~Restart
  BY <1>t, NoFaults
<1>w. /\ w.pc \in {"context", "execution"} => ~Has(execCache, w.pod)
      /\ w.pc \in Late => ~Has(writtenCache, w.pod)
  BY <1>0 DEF OInv, OnceInv, Late
<1>1. CASE SkipWritten \/ ContextNotCached
  <2>1. w.pc = "idle" /\ w' = w
    BY <1>1 DEF SkipWritten, ContextNotCached, Take
  <2> QED BY <2>1 DEF OnceWriter, Late
<1>h. ASSUME NEW q \in Pods, NEW x \in PodType, NEW f \in Nat, w' = Handle(q, x, f),
             writtenCache' = writtenCache
      PROVE  /\ w'.pc \notin {"context", "execution"}
             /\ w'.pc \in Late => ~Has(writtenCache', w'.pod)
  <2>1. \/ w' = Idle
        \/ w'.pod = q /\ ~Has(writtenCache, q) /\ w'.pc \in {"outputs", "patchWritten"}
    BY <1>h, HandleCases
  <2> QED BY <1>h, <2>1, ConstantTypes DEF Late
<1>2. CASE FoundInCache \/ FoundOnPod
  <2> DEFINE q == Head(stream).pod
             x == Head(stream).obj
  <2>1. /\ w.pc = "idle" /\ stream # <<>> /\ writtenCache' = writtenCache
        /\ (Has(execCache, q) /\ w' = Handle(q, x, Get(execCache, q))) \/ w' = Handle(q, x, x.exec)
    BY <1>2 DEF FoundInCache, FoundOnPod, Take
  <2>2. Has(execCache, q) => Get(execCache, q) \in Nat
    BY <1>t, FoundEntry DEF TypeOK
  <2>3. q \in Pods /\ x \in PodType
    BY <1>t, <2>1, TakeEffect
  <2>4. x.exec \in Nat
    BY <2>3 DEF PodType
  <2> HIDE DEF q, x
  <2> QED BY <2>1, <2>2, <2>3, <2>4, <1>h DEF OnceWriter, Late
<1>3. CASE NewPodSeen
  <2>1. /\ w.pc = "idle" /\ execCache' = execCache /\ ~Has(execCache, Head(stream).pod)
        /\ w'.pc = "context" /\ w'.pod = Head(stream).pod
    BY <1>3 DEF NewPodSeen, Take, Idle
  <2> QED BY <2>1 DEF OnceWriter, Late
<1>4. CASE PatchExecution \/ PatchExecutionFails
  <2>1. /\ w.pc = "inputs" /\ w' = Handle(w.pod, w.obj, w.exec) /\ writtenCache' = writtenCache
        /\ execCache' = PutCache(execCache, w.pod, w.exec, shape.exec)
    BY <1>4 DEF PatchExecution, PatchExecutionFails, CacheExecution
  <2>2. Has(execCache', w.pod)
    BY <1>t, <2>1, CachePut
  <2> QED BY <1>t, <2>1, <2>2, <1>h DEF OnceWriter, Late
<1>5. CASE PatchWritten \/ PatchWrittenFails
  <2>1. w.pc = "patchWritten" /\ w' = Idle /\ writtenCache' = PutCache(writtenCache, w.pod, 0, shape.written)
    BY <1>5 DEF PatchWritten, PatchWrittenFails
  <2>2. Has(writtenCache', w.pod)
    BY <1>t, <2>1, CachePut
  <2> QED BY <2>1, <2>2, ConstantTypes DEF OnceWriter, Late
<1>6. ASSUME UNCHANGED <<execCache, writtenCache>>, w'.pod = w.pod,
             w.pc \in {"association", "inputs"} => w'.pc \in {"association", "inputs"},
             w.pc \in Late => w'.pc \in Late /\ w'.todo \subseteq w.todo,
             w'.pc \in {"context", "execution"} => w.pc \in {"context", "execution"},
             w'.pc \in Late => w.pc \in Late
      PROVE  OnceWriter
  BY <1>6, <1>w DEF OnceWriter
<1>7. CASE \/ get_or_create_run_context \/ create_execution_with_type \/ Associate
           \/ (\E uri \in w.todo : link_execution_to_input_artifact(uri))
           \/ (\E o \in w.todo : create_artifact_with_type(o)) \/ PutEvent \/ Attribute
  <2>1. UNCHANGED <<execCache, writtenCache>>
    BY <1>7 DEF get_or_create_run_context, create_execution_with_type, Associate, caches,
                link_execution_to_input_artifact, create_artifact_with_type, PutEvent, Attribute
  <2>2. /\ w'.pod = w.pod
        /\ w.pc \in {"association", "inputs"} => w'.pc \in {"association", "inputs"}
        /\ w.pc \in Late => w'.pc \in Late /\ w'.todo \subseteq w.todo
        /\ w'.pc \in {"context", "execution"} => w.pc \in {"context", "execution"}
        /\ w'.pc \in Late => w.pc \in Late
    BY <1>7, <1>t DEF WriterType, get_or_create_run_context, create_execution_with_type, Associate, Late,
                link_execution_to_input_artifact, create_artifact_with_type, PutEvent, Attribute
  <2> QED BY <2>1, <2>2, <1>6
<1>8. CASE (\E q \in Pods : PodStep(q)) \/ UNCHANGED vars
  <2>1. UNCHANGED <<execCache, writtenCache, w>>
    BY <1>8 DEF PodStep, PodCreated, PodOutputs, PodCompletes, PodDeleted, caches, vars
  <2> QED BY <2>1, <1>6
<1> QED BY <1>0, <1>1, <1>2, <1>3, <1>4, <1>5, <1>7, <1>8 DEF Next, WriterStep

LEMMA OnceStep == OInv /\ [Next]_vars => OInv'
<1> SUFFICES ASSUME OInv, [Next]_vars PROVE OInv'
  OBVIOUS
<1>r. LInv /\ RInv
  BY DEF OInv, LInv
<1>1. LInv'
  BY <1>r, LabelStep
<1>2. ASSUME Large', faults' = 0 PROVE OnceInv'
  <2>1. Large /\ faults = 0 /\ ~Restart
    BY <1>r, <1>2, PodsStep, NoFaults DEF Large
  <2>2. OnceWriter
    BY <1>2, <2>1, OnceWriterStep
  <2>3. /\ \A q : Has(execCache, q) => Has(execCache', q)
        /\ \A q : Has(writtenCache, q) => Has(writtenCache', q)
    BY <1>r, <2>1, CachesStep
  <2>w. w \in WriterType
    BY <1>r DEF RInv, TypeOK
  <2>4. ASSUME NEW p \in Pods
        PROVE  /\ ExecutionsOf(p)' # {} =>
                    Has(execCache', p) \/ (w'.pod = p /\ w'.pc \in {"association", "inputs"})
               /\ \A i, j \in ExecutionsOf(p)' : i = j
    <3>1. /\ ExecutionsOf(p) # {} => Has(execCache, p) \/ (w.pod = p /\ w.pc \in {"association", "inputs"})
          /\ \A i, j \in ExecutionsOf(p) : i = j
          /\ w.pc = "execution" => ~Has(execCache, w.pod)
      BY <2>1 DEF OInv, OnceInv
    <3>2. CASE ExecutionsOf(p)' = ExecutionsOf(p)
      BY <3>1, <3>2, <2>2, <2>3 DEF OnceWriter
    <3>3. CASE /\ create_execution_with_type /\ p = w.pod
               /\ ExecutionsOf(p)' = ExecutionsOf(p) \cup {Len(executions) + 1}
      <4>1. w.pc = "execution" /\ w'.pod = w.pod /\ w'.pc = "association"
        BY <3>3, <2>w DEF create_execution_with_type, WriterType
      <4>2. ExecutionsOf(p) = {}
        BY <3>1, <3>3, <4>1
      <4> QED BY <3>3, <4>1, <4>2
    <3> QED BY <1>r, <3>2, <3>3, ExecutionCases
  <2>5. ASSUME NEW p \in Pods, NEW o \in Outputs
        PROVE  /\ ArtifactsOf(p, o)' # {} =>
                    Has(writtenCache', p) \/ (w'.pod = p /\ w'.pc \in Late /\ o \notin w'.todo)
               /\ \A i, j \in ArtifactsOf(p, o)' : i = j
    <3>1. /\ ArtifactsOf(p, o) # {} => Has(writtenCache, p) \/ (w.pod = p /\ w.pc \in Late /\ o \notin w.todo)
          /\ \A i, j \in ArtifactsOf(p, o) : i = j
          /\ w.pc = "outputs" => ~Has(writtenCache, w.pod)
      BY <2>1 DEF OInv, OnceInv, Late
    <3>2. CASE ArtifactsOf(p, o)' = ArtifactsOf(p, o)
      BY <3>1, <3>2, <2>2, <2>3 DEF OnceWriter
    <3>3. CASE /\ create_artifact_with_type(o) /\ p = w.pod
               /\ ArtifactsOf(p, o)' = ArtifactsOf(p, o) \cup {Len(artifacts) + 1}
      <4>1. w.pc = "outputs" /\ o \in w.todo /\ w'.pod = w.pod /\ w'.pc = "event" /\ o \notin w'.todo
        BY <3>3, <2>w DEF create_artifact_with_type, WriterType
      <4>2. ArtifactsOf(p, o) = {}
        BY <3>1, <3>3, <4>1
      <4> QED BY <3>3, <4>1, <4>2 DEF Late
    <3> QED BY <1>r, <3>2, <3>3, ArtifactCases
  <2>6. /\ w'.pc \in {"context", "execution"} => ~Has(execCache', w'.pod)
        /\ w'.pc \in Late => ~Has(writtenCache', w'.pod)
    BY <2>2 DEF OnceWriter
  <2> QED BY <2>4, <2>5, <2>6 DEF OnceInv, Late, Has
<1>3. OnceInv'
  BY <1>2 DEF OnceInv
<1> QED BY <1>1, <1>3 DEF OInv

LEMMA AtMostOne ==
  ASSUME NEW S, \A x, y \in S : x = y
  PROVE  Cardinality(S) <= 1
<1>1. CASE S = {}
  BY <1>1, FS_EmptySet
<1>2. CASE S # {}
  <2>1. PICK x \in S : S = {x}
    BY <1>2
  <2> QED BY <2>1, FS_Singleton
<1> QED BY <1>1, <1>2

(* With room in the caches and while no call fails and nothing restarts, a  *)
(* pod gets one execution and each of its outputs one artifact, although    *)
(* the watch still delivers versions from before the labels and although a  *)
(* pod may go before it is given its labels.                                *)
THEOREM EachPodIsRecordedOnce == Spec => []RecordedOnce
<1>1. Init => OInv
  <2> SUFFICES ASSUME Init PROVE OnceInv
    BY LabelInit DEF OInv
  <2> QED BY ConstantTypes DEF Init, OnceInv, ExecutionsOf, ArtifactsOf
<1>2. OInv => RecordedOnce
  BY AtMostOne DEF OInv, OnceInv, RecordedOnce
<1> QED BY <1>1, <1>2, OnceStep, PTL DEF Spec
-----------------------------------------------------------------------------
(* The context of a pod is in its cache, at least as near the front as the  *)
(* pod is in the cache of executions: the two are always used together.     *)
Distinct(cache) == \A i, j \in DOMAIN cache : cache[i].key = cache[j].key => i = j
ContextsFit == shape.ctx >= shape.exec
StackInv == ContextsFit =>
  /\ Distinct(ctxCache)
  /\ \A i \in DOMAIN execCache : \E j \in DOMAIN ctxCache :
       j <= i /\ ctxCache[j].key = Workflow(execCache[i].key)

(* The outputs of u are recorded, being recorded, or waiting to be recorded *)
(* and, in the case of Handled, to be so before the k-th event is taken.    *)
Done(u) == \A o \in Outputs : ArtifactsOf(u, o) # {}
Working(u) == w.pod = u /\ w.obj.outs /\ w.pc # "idle"
Brings(u, j) == stream[j].pod = u /\ stream[j].obj.outs
Queued(u) == Done(u) \/ Working(u) \/ \E j \in DOMAIN stream : Brings(u, j)
Handled(u, k) == Done(u) \/ Working(u) \/ \E j \in DOMAIN stream : j < k /\ Brings(u, j)

HasInput(e, u, o) == \E a \in executions[e].inputs : a \in ArtifactsOf(u, o)

MarkInv ==
  /\ \A u \in Pods : Has(writtenCache, u) => HasResult(pods[u]) /\ (pods[u].outs => Done(u))
  /\ \A i \in DOMAIN stream : stream[i].obj.written /\ stream[i].obj.outs => Done(stream[i].pod)

OrderInv == faults = 0 /\ ContextsFit =>
  /\ \A u \in Pods : pods[u].outs => Queued(u)
  /\ \A p \in Pods : pods[p].state # "none" => \A u \in shape.upstream[p] : pods[u].outs
  /\ \A i \in DOMAIN stream : \A u \in shape.upstream[stream[i].pod] : Handled(u, i)
  /\ w.pc \in Early => \A u \in shape.upstream[w.pod] : Done(u)

InputInv == faults = 0 /\ ContextsFit =>
  /\ w.pc = "inputs" => \A u \in shape.upstream[w.pod], o \in Outputs :
       <<u, o>> \in w.todo \/ HasInput(w.exec, u, o)
  /\ \A p \in Pods : pods[p].exec # 0 =>
       \A u \in shape.upstream[p], o \in Outputs : HasInput(pods[p].exec, u, o)
-----------------------------------------------------------------------------
(* Where the entries of a cache are after a write: At is the place from     *)
(* which the entry comes, To where the others go.                           *)
At(cache, key) == IF Has(cache, key) THEN Place(cache, key) ELSE Len(cache) + 1
To(at, j) == IF j < at THEN j + 1 ELSE j

(* How the cache c follows from a cache in which key comes from the place at. *)
PlacesAfter(cache, key, at, n, c) ==
  /\ Distinct(c) /\ 1 \in DOMAIN c /\ c[1].key = key
  /\ \A i \in DOMAIN c : /\ i \in Nat /\ i <= n
                         /\ i # 1 => From(at, i) \in DOMAIN cache /\ c[i] = cache[From(at, i)]
  /\ \A j \in DOMAIN cache : cache[j].key # key /\ To(at, j) <= n =>
       To(at, j) \in DOMAIN c /\ c[To(at, j)].key = cache[j].key

LEMMA PutCachePlaces ==
  ASSUME NEW cache \in Seq(EntryType), Distinct(cache), NEW key \in Pods \cup Workflows, NEW val \in Nat,
         NEW n \in Nat \ {0}
  PROVE  PlacesAfter(cache, key, At(cache, key), n, PutCache(cache, key, val, n))
<1> DEFINE L == Len(cache)
           at == At(cache, key)
           len == Wanted(L, at)
           m == Size(L, at, n)
           from(i) == From(at, i)
           new == [key |-> key, val |-> val]
           c == [i \in 1..m |-> IF i = 1 THEN new ELSE cache[from(i)]]
<1>1. L \in Nat /\ DOMAIN cache = 1..L
  OBVIOUS
<1>2. Has(cache, key) => Place(cache, key) \in DOMAIN cache /\ cache[Place(cache, key)].key = key
  BY DEF Has, Place
<1>a. at = IF Has(cache, key) THEN Place(cache, key) ELSE L + 1
  BY DEF At
<1> HIDE DEF L
<1>3. at \in 1..(L + 1) /\ (at <= L <=> Has(cache, key))
  BY <1>1, <1>2, <1>a
<1>4. PutCache(cache, key, val, n) = c
  BY <1>3 DEF PutCache, L, Wanted, Size, From, At
<1>5. \A j \in 1..L : cache[j].key = key <=> j = at
  BY <1>1, <1>2, <1>3, <1>a DEF Distinct, Has
<1> HIDE DEF at
<1>7. /\ m \in Nat \ {0}
      /\ \A i \in 1..m : i # 1 => from(i) \in 1..L /\ from(i) # at
      /\ \A i, j \in 1..m : i # 1 /\ j # 1 /\ from(i) = from(j) => i = j
  BY <1>1, <1>3, Places
<1>m. m <= n
  BY <1>1, <1>3 DEF Size, Wanted
<1>t. \A j \in 1..L : j # at /\ To(at, j) <= n => To(at, j) \in 1..m /\ To(at, j) # 1 /\ from(To(at, j)) = j
  <2> SUFFICES ASSUME NEW j \in 1..L, j # at, To(at, j) <= n
               PROVE  To(at, j) \in 1..m /\ To(at, j) # 1 /\ from(To(at, j)) = j
    OBVIOUS
  <2>1. CASE j < at
    BY <2>1, <1>1, <1>3 DEF To, Size, Wanted, From
  <2>2. CASE j > at
    BY <2>2, <1>1, <1>3 DEF To, Size, Wanted, From
  <2> QED BY <2>1, <2>2, <1>3
<1>8. new.key = key
  OBVIOUS
<1> HIDE DEF len, m, from, new
<1>9. /\ DOMAIN c = 1..m /\ 1 \in 1..m /\ c[1].key = key
      /\ \A i \in 1..m : i # 1 => c[i] = cache[from(i)]
  BY <1>7, <1>8
<1> HIDE DEF c
<1>10. \A i \in 1..m : i # 1 => c[i].key # key
  BY <1>1, <1>5, <1>7, <1>9
<1>11. \A i, j \in 1..m : c[i].key = c[j].key => i = j
  <2> SUFFICES ASSUME NEW i \in 1..m, NEW j \in 1..m, c[i].key = c[j].key PROVE i = j
    OBVIOUS
  <2>1. CASE i = 1 \/ j = 1
    BY <2>1, <1>9, <1>10
  <2>2. CASE i # 1 /\ j # 1
    <3>1. from(i) = from(j)
      BY <2>2, <1>1, <1>7, <1>9 DEF Distinct
    <3> QED BY <2>2, <3>1, <1>7
  <2> QED BY <2>1, <2>2
<1>12. Distinct(c) /\ 1 \in DOMAIN c
  BY <1>9, <1>11 DEF Distinct
<1>13. \A i \in DOMAIN c : /\ i \in Nat /\ i <= n
                           /\ i # 1 => From(at, i) \in DOMAIN cache /\ c[i] = cache[From(at, i)]
  BY <1>1, <1>7, <1>9, <1>m DEF from
<1>14. ASSUME NEW j \in DOMAIN cache, cache[j].key # key, To(at, j) <= n
       PROVE  To(at, j) \in DOMAIN c /\ c[To(at, j)].key = cache[j].key
  BY <1>1, <1>5, <1>9, <1>t, <1>14
<1>15. PlacesAfter(cache, key, at, n, c)
  BY <1>9, <1>12, <1>13, <1>14 DEF PlacesAfter
<1> QED BY <1>4, <1>15 DEF at

(* A pod that is before another one in the cache of executions, and its     *)
(* context: the pod p with the context k comes to the front.                *)
LEMMA StackPlaces ==
  ASSUME NEW at \in Nat \ {0}, NEW k \in Nat \ {0}, NEW i \in Nat \ {0, 1}, NEW j \in Nat \ {0},
         i > at => k <= at, j <= From(at, i)
  PROVE  To(k, j) <= i
BY DEF To, From

LEMMA StackPut ==
  ASSUME LInv, StackInv, ContextsFit, NEW p \in Pods, NEW e \in Nat,
         execCache' = PutCache(execCache, p, e, shape.exec),
         ctxCache' = PutCache(ctxCache, Workflow(p), 0, shape.ctx)
  PROVE  /\ Distinct(ctxCache')
         /\ \A i \in DOMAIN execCache' : \E j \in DOMAIN ctxCache' :
              j <= i /\ ctxCache'[j].key = Workflow(execCache'[i].key)
<1> DEFINE at == At(execCache, p)
           k == At(ctxCache, Workflow(p))
<1>t. /\ execCache \in Seq(EntryType) /\ ctxCache \in Seq(EntryType)
      /\ shape.exec \in Nat \ {0} /\ shape.ctx \in Nat \ {0} /\ shape.exec <= shape.ctx
      /\ Workflow(p) \in Pods \cup Workflows /\ p \in Pods \cup Workflows
  BY ShapeTypes DEF LInv, RInv, TypeOK, ContextsFit
<1>d. Distinct(execCache) /\ Distinct(ctxCache)
  BY DEF LInv, Keyed, Distinct, StackInv
<1>1. /\ 1 \in DOMAIN execCache' /\ execCache'[1].key = p
      /\ \A i \in DOMAIN execCache' :
           /\ i \in Nat /\ i <= shape.exec
           /\ i # 1 => From(at, i) \in DOMAIN execCache /\ execCache'[i] = execCache[From(at, i)]
  <2>1. PlacesAfter(execCache, p, at, shape.exec, execCache')
    BY <1>t, <1>d, PutCachePlaces
  <2> HIDE DEF at
  <2> QED BY ONLY <2>1 DEF PlacesAfter
<1>2. /\ Distinct(ctxCache') /\ 1 \in DOMAIN ctxCache' /\ ctxCache'[1].key = Workflow(p)
      /\ \A j \in DOMAIN ctxCache : ctxCache[j].key # Workflow(p) /\ To(k, j) <= shape.ctx =>
           To(k, j) \in DOMAIN ctxCache' /\ ctxCache'[To(k, j)].key = ctxCache[j].key
  <2>1. PlacesAfter(ctxCache, Workflow(p), k, shape.ctx, ctxCache')
    BY <1>t, <1>d, PutCachePlaces
  <2> QED BY <2>1 DEF PlacesAfter
<1>3. \A i \in DOMAIN execCache : \E j \in DOMAIN ctxCache :
        j <= i /\ ctxCache[j].key = Workflow(execCache[i].key)
  BY DEF StackInv
<1>4. at \in Nat \ {0} /\ k \in Nat \ {0}
  <2>1. \A cache \in Seq(EntryType) : \A y : At(cache, y) \in Nat \ {0}
    BY DEF At, Has, Place
  <2> QED BY <1>t, <2>1
<1>5. ASSUME NEW i \in DOMAIN execCache', i # 1, i > at PROVE k <= at
  <2>1. i \in DOMAIN execCache
    BY <1>1, <1>4, <1>5 DEF From
  <2>2. at <= Len(execCache)
    BY <1>t, <1>4, <1>5, <2>1
  <2>3. Has(execCache, p) /\ at = Place(execCache, p)
    BY <1>t, <2>2 DEF At
  <2>4. at \in DOMAIN execCache /\ execCache[at].key = p
    BY <1>t, <2>3, FoundEntry
  <2>5. PICK j \in DOMAIN ctxCache : j <= at /\ ctxCache[j].key = Workflow(p)
    BY <1>3, <2>4
  <2>6. Has(ctxCache, Workflow(p))
    BY <2>5 DEF Has
  <2>7. k = Place(ctxCache, Workflow(p))
    BY <2>6 DEF At
  <2>8. k \in DOMAIN ctxCache /\ ctxCache[k].key = Workflow(p)
    BY <1>t, <2>6, <2>7, FoundEntry
  <2> HIDE DEF k
  <2>9. k = j
    BY <1>d, <2>5, <2>8 DEF Distinct
  <2> QED BY <2>5, <2>9
<1> HIDE DEF at, k
<1>6. ASSUME NEW i \in DOMAIN execCache'
      PROVE  \E j \in DOMAIN ctxCache' : j <= i /\ ctxCache'[j].key = Workflow(execCache'[i].key)
  <2>1. CASE i = 1
    BY <2>1, <1>1, <1>2
  <2>2. CASE i # 1
    <3>1. From(at, i) \in DOMAIN execCache /\ execCache'[i] = execCache[From(at, i)]
      BY <1>1, <2>2
    <3>2. PICK j \in DOMAIN ctxCache : j <= From(at, i) /\ ctxCache[j].key = Workflow(execCache[From(at, i)].key)
      BY <1>3, <3>1
    <3>n. i \in Nat \ {0, 1} /\ j \in Nat \ {0} /\ i <= shape.exec
      <4>1. execCache' \in Seq(EntryType)
        BY <1>t, PutCacheEntries
      <4>2. i # 0
        BY <4>1
      <4>3. j \in Nat \ {0}
        BY <1>t
      <4> QED BY <1>1, <2>2, <4>2, <4>3
    <3>3. CASE ctxCache[j].key = Workflow(p)
      <4>1. 1 <= i
        BY <3>n
      <4> QED BY <3>1, <3>2, <3>3, <1>2, <4>1
    <3>4. CASE ctxCache[j].key # Workflow(p)
      <4>1. To(k, j) <= i
        BY <1>4, <1>5, <2>2, <3>2, <3>n, StackPlaces
      <4>2. To(k, j) <= shape.ctx
        BY <1>t, <1>4, <3>n, <4>1 DEF To
      <4> QED BY <1>2, <3>1, <3>2, <3>4, <4>1, <4>2
    <3> QED BY <3>3, <3>4
  <2> QED BY <2>1, <2>2
<1> QED BY <1>2, <1>6

LEMMA StackStep == LInv /\ StackInv /\ [Next]_vars => StackInv'
<1> SUFFICES ASSUME LInv, StackInv, [Next]_vars, ContextsFit'
             PROVE  /\ Distinct(ctxCache)'
                    /\ \A i \in DOMAIN execCache' : \E j \in DOMAIN ctxCache' :
                         j <= i /\ ctxCache'[j].key = Workflow(execCache[i].key)'
  BY DEF StackInv
<1>t. RInv /\ TypeOK /\ shape' = shape /\ ContextsFit
  BY PodsStep DEF LInv, RInv, ContextsFit
<1> DEFINE Goal == /\ Distinct(ctxCache')
                   /\ \A i \in DOMAIN execCache' : \E j \in DOMAIN ctxCache' :
                        j <= i /\ ctxCache'[j].key = Workflow(execCache'[i].key)
<1>s. /\ Distinct(ctxCache)
      /\ \A i \in DOMAIN execCache : \E j \in DOMAIN ctxCache :
           j <= i /\ ctxCache[j].key = Workflow(execCache[i].key)
  BY <1>t DEF StackInv
<1>1. ASSUME execCache' = execCache, ctxCache' = ctxCache PROVE Goal
  BY <1>1, <1>s
<1>2. ASSUME FoundInCache PROVE Goal
  <2> DEFINE p == Head(stream).pod
  <2>1. /\ stream # <<>> /\ Has(execCache, p)
        /\ execCache' = PutCache(execCache, p, Get(execCache, p), shape.exec)
        /\ ctxCache' = PutCache(ctxCache, Workflow(p), 0, shape.ctx)
    BY <1>2 DEF FoundInCache, Take
  <2>2. p \in Pods /\ Get(execCache, p) \in Nat
    BY <1>t, <2>1, TakeEffect, FoundEntry DEF TypeOK
  <2> HIDE DEF p
  <2> QED BY <1>t, <2>1, <2>2, StackPut
<1>3. ASSUME PatchExecution \/ PatchExecutionFails PROVE Goal
  <2>1. /\ execCache' = PutCache(execCache, w.pod, w.exec, shape.exec)
        /\ ctxCache' = PutCache(ctxCache, Workflow(w.pod), 0, shape.ctx)
    BY <1>3 DEF PatchExecution, PatchExecutionFails, CacheExecution
  <2>2. w.pod \in Pods /\ w.exec \in Nat
    BY <1>t DEF TypeOK, WriterType
  <2> QED BY <1>t, <2>1, <2>2, StackPut
<1>4. ASSUME Restart PROVE Goal
  <2>1. execCache' = <<>> /\ ctxCache' = <<>>
    BY <1>4 DEF Restart
  <2> QED BY <2>1 DEF Distinct
<1>5. ~ContextNotCached
  BY <1>s DEF ContextNotCached, Has
<1>6. ASSUME \/ SkipWritten \/ FoundOnPod \/ NewPodSeen \/ get_or_create_run_context
             \/ create_execution_with_type \/ Associate
             \/ \E uri \in w.todo : link_execution_to_input_artifact(uri)
             \/ \E o \in w.todo : create_artifact_with_type(o)
             \/ PutEvent \/ Attribute \/ PatchWritten \/ PatchWrittenFails \/ CallFails \/ WatchEnds
             \/ (\E p \in Pods : PodStep(p)) \/ UNCHANGED vars
      PROVE  execCache' = execCache /\ ctxCache' = ctxCache
  BY <1>6 DEF SkipWritten, FoundOnPod, NewPodSeen, Take, get_or_create_run_context, caches, vars,
              create_execution_with_type, Associate, link_execution_to_input_artifact, PatchWritten,
              create_artifact_with_type, PutEvent, Attribute, PatchWrittenFails, CallFails, WatchEnds,
              PodStep, PodCreated, PodOutputs, PodCompletes, PodDeleted
<1> HIDE DEF Goal
<1>7. Goal
  BY <1>1, <1>2, <1>3, <1>4, <1>5, <1>6 DEF Next, WriterStep
<1>8. \A i \in DOMAIN execCache' : Workflow(execCache[i].key)' = Workflow(execCache'[i].key)
  BY <1>t DEF Workflow
<1> QED BY <1>7, <1>8 DEF Goal, Distinct
-----------------------------------------------------------------------------
(* What is recorded stays recorded, ...                                     *)
LEMMA DoneStays ==
  ASSUME RInv, [Next]_vars
  PROVE  /\ \A u, o : ArtifactsOf(u, o) \subseteq ArtifactsOf(u, o)'
         /\ \A u : Done(u) => Done(u)'
         /\ \A u : \A o : HasArtifact(u, o) => ArtifactsOf(u, o) # {}
<1>1. StoreGrows
  BY StoreStep
<1>2. \A u, o : ArtifactsOf(u, o) \subseteq ArtifactsOf(u, o)'
  BY <1>1 DEF StoreGrows, ArtifactsOf
<1>3. \A u : Done(u) => Done(u)'
  BY <1>2 DEF Done
<1> QED BY <1>2, <1>3 DEF HasArtifact, IsArtifact, ArtifactsOf

(* ... and a pod that is marked, on itself or in the cache, is recorded.    *)
LEMMA MarkStep == LInv /\ MarkInv /\ [Next]_vars => MarkInv'
<1> SUFFICES ASSUME LInv, MarkInv, [Next]_vars PROVE MarkInv'
  OBVIOUS
<1>r. RInv /\ TypeOK /\ PodsGrow
  BY PodsStep DEF LInv, RInv
<1>d. \A u : Done(u) => Done(u)'
  BY <1>r, DoneStays
<1>w. w.pod \in Pods /\ w.exec \in Nat /\ 0 \in Nat
  BY <1>r DEF TypeOK, WriterType
<1>m. ASSUME w.pc = "patchWritten" PROVE HasResult(pods[w.pod]) /\ (pods[w.pod].outs => Done(w.pod))
  <2>1. /\ HasResult(w.obj) /\ IsSeen(w.pod, w.obj)
        /\ w.obj.outs => \A o \in Outputs : HasArtifact(w.pod, o)
    BY <1>m DEF LInv, RInv, WriterInv
  <2>2. w.obj.outs => Done(w.pod)
    BY <1>r, <2>1, DoneStays DEF Done
  <2> QED BY <2>1, <2>2 DEF HasResult, IsSeen
<1>1. ASSUME NEW u \in Pods, Has(writtenCache', u) PROVE HasResult(pods[u]) /\ (pods[u].outs => Done(u))
  <2>1. CASE Has(writtenCache, u)
    BY <2>1 DEF MarkInv
  <2>2. CASE PatchWritten \/ PatchWrittenFails
    <3>1. /\ w.pc = "patchWritten"
          /\ writtenCache' = PutCache(writtenCache, w.pod, 0, shape.written)
      BY <2>2 DEF PatchWritten, PatchWrittenFails
    <3>2. Has(writtenCache, u) \/ u = w.pod
      BY <1>1, <1>w, <3>1, CachePut
    <3> QED BY <1>m, <2>1, <3>1, <3>2
  <2>3. CASE ~PatchWritten /\ ~PatchWrittenFails
    <3>1. writtenCache' = writtenCache \/ writtenCache' = <<>>
      <4>1. ASSUME NEW q \in Pods, PodStep(q) PROVE writtenCache' = writtenCache
        BY <4>1 DEF PodStep, PodCreated, PodOutputs, PodCompletes, PodDeleted, caches
      <4>2. ASSUME Restart PROVE writtenCache' = <<>>
        BY <4>2 DEF Restart
      <4>3. ASSUME WriterStep \/ CallFails \/ WatchEnds \/ UNCHANGED vars PROVE writtenCache' = writtenCache
        BY <4>3, <2>3 DEF WriterStep, SkipWritten, FoundInCache, ContextNotCached, FoundOnPod, NewPodSeen,
             Take, get_or_create_run_context, create_execution_with_type, Associate, caches, vars,
             link_execution_to_input_artifact, PatchExecution, PatchExecutionFails,
             create_artifact_with_type, PutEvent, Attribute, CallFails, WatchEnds
      <4> QED BY <4>1, <4>2, <4>3 DEF Next
    <3> QED BY <1>1, <2>1, <3>1 DEF Has
  <2> QED BY <2>2, <2>3
<1>2. ASSUME NEW u \in Pods, Has(writtenCache', u)
      PROVE  HasResult(pods'[u]) /\ (pods'[u].outs => Done(u)')
  BY <1>1, <1>2, <1>d, <1>r DEF HasResult, PodsGrow
<1>3. ASSUME NEW i \in DOMAIN stream', stream'[i].obj.written, stream'[i].obj.outs
      PROVE  Done(stream[i].pod)'
  <2>1. PICK u : u = stream'[i].pod
    OBVIOUS
  <2>2. CASE \E j \in DOMAIN stream : stream'[i] = stream[j]
    BY <1>3, <1>d, <2>1, <2>2 DEF MarkInv, Done, ArtifactsOf
  <2>3. CASE stream'[i].pod \in Pods /\ stream'[i].obj = pods'[stream'[i].pod]
    <3>1. \A o \in Outputs : HasArtifact(u, o)'
      BY <1>3, <1>r, <2>1, <2>3, PodInvStep DEF MarkedInv
    <3> QED BY <2>1, <3>1 DEF Done, HasArtifact, IsArtifact, ArtifactsOf
  <2> QED BY <1>r, <2>2, <2>3, StreamCases
<1> QED BY <1>2, <1>3 DEF MarkInv, Has, HasResult

(* The outputs that are being recorded get recorded, ...                    *)
LEMMA WorkStep ==
  ASSUME LInv, MarkInv, [Next]_vars, faults' = 0, NEW u, Working(u)
  PROVE  Working(u)' \/ Done(u)'
<1>r. RInv /\ TypeOK /\ w \in WriterType
  BY DEF LInv, RInv, TypeOK
<1>d. \A x : Done(x) => Done(x)'
  BY <1>r, DoneStays
<1>w. /\ w.pod = u /\ w.obj.outs /\ w.pc # "idle" /\ u \in Pods
      /\ w.pod \in Pods /\ w.obj \in PodType /\ w.exec \in Nat
  BY <1>r DEF Working, WriterType
<1>0. ~CallFails /\ ~WatchEnds /\ ~Restart
  BY <1>r, NoFaults
<1>1. CASE PatchExecution \/ PatchExecutionFails
  <2>1. w' = Handle(w.pod, w.obj, w.exec) /\ w.pc = "inputs"
    BY <1>1 DEF PatchExecution, PatchExecutionFails
  <2>2. HasResult(w.obj)
    BY <1>w DEF HasResult
  <2>3. CASE Has(writtenCache, w.pod)
    <3>1. pods[w.pod].outs
      BY <1>w DEF LInv, RInv, WriterInv, IsSeen
    <3> QED BY <1>w, <1>d, <2>3, <3>1 DEF MarkInv
  <2>4. CASE ~Has(writtenCache, w.pod)
    BY <1>w, <2>1, <2>2, <2>4 DEF Handle, Working
  <2> QED BY <2>3, <2>4
<1>2. CASE PatchWritten \/ PatchWrittenFails
  <2>1. w.pc = "patchWritten"
    BY <1>2 DEF PatchWritten, PatchWrittenFails
  <2>2. \A o \in Outputs : HasArtifact(w.pod, o)
    BY <1>w, <2>1 DEF LInv, RInv, WriterInv
  <2>3. Done(u)
    BY <1>r, <1>w, <2>2, DoneStays DEF Done
  <2> QED BY <1>d, <2>3
<1>3. ASSUME w'.pod = w.pod, w'.obj = w.obj, w'.pc # "idle" PROVE Working(u)'
  BY <1>3, <1>w DEF Working
<1>4. ASSUME \/ get_or_create_run_context \/ create_execution_with_type \/ Associate
             \/ (\E uri \in w.todo : link_execution_to_input_artifact(uri))
             \/ (\E o \in w.todo : create_artifact_with_type(o)) \/ PutEvent \/ Attribute
      PROVE  w'.pod = w.pod /\ w'.obj = w.obj /\ w'.pc # "idle"
  BY <1>4, <1>r, <1>w DEF WriterType, get_or_create_run_context, create_execution_with_type, Associate,
           link_execution_to_input_artifact, create_artifact_with_type, PutEvent, Attribute
<1>5. ASSUME (\E q \in Pods : PodStep(q)) \/ UNCHANGED vars
      PROVE  w'.pod = w.pod /\ w'.obj = w.obj /\ w'.pc # "idle"
  BY <1>5, <1>w DEF PodStep, PodCreated, PodOutputs, PodCompletes, PodDeleted, vars
<1>6. ~(SkipWritten \/ FoundInCache \/ ContextNotCached \/ FoundOnPod \/ NewPodSeen)
  BY <1>w DEF SkipWritten, FoundInCache, ContextNotCached, FoundOnPod, NewPodSeen, Take
<1> QED BY <1>0, <1>1, <1>2, <1>3, <1>4, <1>5, <1>6 DEF Next, WriterStep

(* ... and so do those of the event that is taken.                          *)
LEMMA TakeStep ==
  ASSUME LInv, MarkInv, [Next]_vars, Head(stream).obj.outs, NEW u, u = Head(stream).pod,
         SkipWritten \/ FoundInCache \/ FoundOnPod \/ NewPodSeen
  PROVE  Working(u)' \/ Done(u)'
<1>r. RInv /\ TypeOK /\ stream # <<>> /\ w.pc = "idle"
  BY DEF LInv, RInv, SkipWritten, FoundInCache, FoundOnPod, NewPodSeen, Take
<1>d. \A x : Done(x) => Done(x)'
  BY <1>r, DoneStays
<1>h. Head(stream) = stream[1] /\ 1 \in DOMAIN stream /\ u \in Pods /\ Head(stream).obj \in PodType
  BY <1>r, TakeEffect
<1>o. pods[u].outs
  BY <1>h DEF LInv, RInv, StreamInv, IsSeen
<1>1. CASE SkipWritten
  <2>1. Done(u)
    BY <1>1, <1>h DEF SkipWritten, MarkInv
  <2> QED BY <1>d, <2>1
<1>2. CASE NewPodSeen
  <2>1. w'.pc = "context" /\ w'.pod = u /\ w'.obj = Head(stream).obj
    BY <1>2 DEF NewPodSeen, Idle
  <2> QED BY <2>1 DEF Working
<1>3. CASE FoundInCache \/ FoundOnPod
  <2>1. PICK f : w' = Handle(u, Head(stream).obj, f)
    BY <1>3 DEF FoundInCache, FoundOnPod
  <2>2. CASE Has(writtenCache, u)
    BY <1>h, <1>o, <1>d, <2>2 DEF MarkInv
  <2>3. CASE ~Has(writtenCache, u)
    BY <2>1, <2>3 DEF Handle, HasResult, Working
  <2> QED BY <2>2, <2>3
<1> QED BY <1>1, <1>2, <1>3

NInv == LInv /\ StackInv /\ MarkInv /\ OrderInv /\ InputInv

(* While the watch lasts, an event is taken, or a pod is written, or the    *)
(* pods and their events stay as they are.                                  *)
LEMMA StreamMoves ==
  ASSUME LInv, StackInv, ContextsFit, [Next]_vars, faults' = 0
  PROVE  \/ /\ stream # <<>> /\ stream' = Tail(stream) /\ pods' = pods /\ w.pc = "idle"
            /\ SkipWritten \/ FoundInCache \/ FoundOnPod \/ NewPodSeen
         \/ stream' = stream /\ pods' = pods
         \/ \E p \in Pods, obj \in PodType :
              /\ Put(p, obj) /\ IsUpdate(p, obj)
              /\ pods[p].state = "none" => \A u \in shape.upstream[p] : pods[u].outs
<1>r. RInv /\ TypeOK
  BY DEF LInv, RInv
<1>0. ~CallFails /\ ~WatchEnds /\ ~Restart
  BY <1>r, NoFaults
<1>1. ~ContextNotCached
  BY DEF StackInv, ContextNotCached, Has
<1>2. ASSUME SkipWritten \/ FoundInCache \/ FoundOnPod \/ NewPodSeen
      PROVE  stream # <<>> /\ stream' = Tail(stream) /\ pods' = pods /\ w.pc = "idle"
  BY <1>2 DEF SkipWritten, FoundInCache, FoundOnPod, NewPodSeen, Take
<1>3. ASSUME \/ get_or_create_run_context \/ create_execution_with_type \/ Associate
             \/ (\E uri \in w.todo : link_execution_to_input_artifact(uri))
             \/ (\E o \in w.todo : create_artifact_with_type(o)) \/ PutEvent \/ Attribute
             \/ PatchExecutionFails \/ PatchWrittenFails \/ UNCHANGED vars
      PROVE  stream' = stream /\ pods' = pods
  BY <1>3 DEF get_or_create_run_context, create_execution_with_type, Associate, vars,
              link_execution_to_input_artifact, PatchExecutionFails, create_artifact_with_type,
              PutEvent, Attribute, PatchWrittenFails
<1>4. ASSUME NEW p \in Pods, PodStep(p), pods[p].state = "none" PROVE \A u \in shape.upstream[p] : pods[u].outs
  BY <1>4 DEF PodStep, PodCreated, PodOutputs, PodCompletes, PodDeleted, There
<1>5. ASSUME PatchExecution \/ PatchWritten PROVE pods[w.pod].state # "none"
  BY <1>5 DEF PatchExecution, PatchWritten, There
<1>6. ASSUME NEW p \in Pods, PodStep(p) PROVE \E obj \in PodType : Put(p, obj) /\ IsUpdate(p, obj)
  BY <1>6, <1>r, PodUpdates
<1>7. ASSUME PatchExecution \/ PatchWritten
      PROVE  w.pod \in Pods /\ \E obj \in PodType : Put(w.pod, obj) /\ IsUpdate(w.pod, obj)
  BY <1>7, <1>r, PatchUpdates
<1> QED BY <1>0, <1>1, <1>2, <1>3, <1>4, <1>5, <1>6, <1>7 DEF Next, WriterStep

(* The first event is the one that is taken; the others move up.            *)
LEMMA TailPlaces ==
  ASSUME TypeOK, stream # <<>>, stream' = Tail(stream)
  PROVE  /\ \A j \in DOMAIN stream : j # 1 => j - 1 \in DOMAIN stream' /\ stream'[j - 1] = stream[j]
         /\ \A i \in DOMAIN stream' : i + 1 \in DOMAIN stream /\ stream'[i] = stream[i + 1] /\ i \in Nat \ {0}
         /\ \A j \in DOMAIN stream : j \in Nat \ {0}
<1>1. stream \in Seq(EventType)
  BY DEF TypeOK
<1> QED BY <1>1

(* A write of a pod comes after the events that wait.                       *)
LEMMA PutPlaces ==
  ASSUME TypeOK, NEW p \in Pods, NEW obj \in PodType, Put(p, obj)
  PROVE  /\ \A j \in DOMAIN stream : j \in DOMAIN stream' /\ stream'[j] = stream[j] /\ j < Len(stream) + 1
         /\ \A i \in DOMAIN stream' : i \in DOMAIN stream \/ i = Len(stream) + 1
         /\ Len(stream) + 1 \in DOMAIN stream' /\ stream'[Len(stream) + 1] = [pod |-> p, obj |-> obj]
<1> DEFINE ev == [pod |-> p, obj |-> obj]
<1>1. stream \in Seq(EventType) /\ stream' = Append(stream, ev)
  BY DEF TypeOK, Put
<1> HIDE DEF ev
<1>2. /\ \A j \in DOMAIN stream : j \in DOMAIN stream' /\ stream'[j] = stream[j] /\ j < Len(stream) + 1
      /\ \A i \in DOMAIN stream' : i \in DOMAIN stream \/ i = Len(stream) + 1
      /\ Len(stream) + 1 \in DOMAIN stream' /\ stream'[Len(stream) + 1] = ev
  BY <1>1
<1> QED BY <1>2 DEF ev

(* The order of the events keeps upstream pods before those that read them. *)
LEMMA OrderStep ==
  ASSUME NInv, [Next]_vars, faults' = 0, ContextsFit
  PROVE  /\ \A u \in Pods : pods'[u].outs => Queued(u)'
         /\ \A p \in Pods : pods'[p].state # "none" => \A u \in shape.upstream[p] : pods'[u].outs
         /\ \A i \in DOMAIN stream' : \A u \in shape.upstream[stream'[i].pod] : Handled(u, i)'
<1>r. LInv /\ RInv /\ TypeOK /\ StackInv /\ MarkInv /\ PodsGrow /\ PodInv /\ shape \in Shapes
  BY PodsStep DEF NInv, LInv, RInv, TypeOK
<1>u. \A p \in Pods : shape.upstream[p] \subseteq Pods
  BY <1>r, ShapeTypes
<1>0. faults = 0
  BY <1>r, NoFaults
<1>1. /\ \A u \in Pods : pods[u].outs => Queued(u)
      /\ \A p \in Pods : pods[p].state # "none" => \A u \in shape.upstream[p] : pods[u].outs
      /\ \A i \in DOMAIN stream : \A u \in shape.upstream[stream[i].pod] : Handled(u, i)
  BY <1>0 DEF NInv, OrderInv
<1>d. /\ \A u : Done(u) => Done(u)'
      /\ \A u : Working(u) => Working(u)' \/ Done(u)'
  BY <1>r, DoneStays, WorkStep
<1>p. \A i \in DOMAIN stream : stream[i].pod \in Pods
  <2>1. \A i \in DOMAIN stream : stream[i] \in EventType
    BY <1>r DEF TypeOK
  <2> QED BY <2>1 DEF EventType
<1>2. CASE stream' = stream /\ pods' = pods
  <2>1. \A u : Queued(u) => Queued(u)'
    BY <1>2, <1>d DEF Queued, Brings
  <2>2. \A u, i : Handled(u, i) => Handled(u, i)'
    BY <1>2, <1>d DEF Handled, Brings
  <2> QED BY <1>1, <1>2, <2>1, <2>2
<1>3. CASE /\ stream # <<>> /\ stream' = Tail(stream) /\ pods' = pods /\ w.pc = "idle"
           /\ SkipWritten \/ FoundInCache \/ FoundOnPod \/ NewPodSeen
  <2>t. /\ \A j \in DOMAIN stream : j # 1 => j - 1 \in DOMAIN stream' /\ stream'[j - 1] = stream[j]
        /\ \A i \in DOMAIN stream' : i + 1 \in DOMAIN stream /\ stream'[i] = stream[i + 1] /\ i \in Nat \ {0}
        /\ \A j \in DOMAIN stream : j \in Nat \ {0}
    BY <1>r, <1>3, TailPlaces
  <2>1. ASSUME NEW u, NEW j \in DOMAIN stream, Brings(u, j)
        PROVE  Working(u)' \/ Done(u)' \/ (j # 1 /\ j - 1 \in DOMAIN stream' /\ Brings(u, j - 1)')
    <3>1. CASE j = 1
      <4>1. Head(stream) = stream[1]
        BY <1>r, <1>3, TakeEffect
      <4> QED BY <1>r, <1>3, <2>1, <3>1, <4>1, TakeStep DEF Brings
    <3>2. CASE j # 1
      BY <2>1, <3>2, <2>t DEF Brings
    <3> QED BY <3>1, <3>2
  <2>2. \A u : Queued(u) => Queued(u)'
    BY <1>d, <2>1 DEF Queued
  <2>3. ASSUME NEW u, NEW i \in DOMAIN stream', Handled(u, i + 1) PROVE Handled(u, i)'
    <3>1. CASE Done(u) \/ Working(u)
      BY <3>1, <1>d DEF Handled
    <3>2. ASSUME NEW j \in DOMAIN stream, j < i + 1, Brings(u, j) PROVE Handled(u, i)'
      <4>1. CASE Working(u)' \/ Done(u)'
        BY <4>1 DEF Handled
      <4>2. CASE j # 1 /\ j - 1 \in DOMAIN stream' /\ Brings(u, j - 1)'
        <5>1. j - 1 < i
          BY <3>2, <2>t
        <5> QED BY <4>2, <5>1 DEF Handled
      <4> QED BY <2>1, <3>2, <4>1, <4>2
    <3> QED BY <2>3, <3>1, <3>2 DEF Handled
  <2>4. ASSUME NEW i \in DOMAIN stream', NEW u \in shape.upstream[stream'[i].pod] PROVE Handled(u, i)'
    <3>1. i + 1 \in DOMAIN stream /\ stream'[i] = stream[i + 1]
      BY <2>t
    <3>2. Handled(u, i + 1)
      BY <1>1, <3>1
    <3> QED BY <2>3, <3>2
  <2> QED BY <1>1, <1>3, <2>2, <2>4
<1>4. ASSUME NEW p \in Pods, NEW obj \in PodType, Put(p, obj), IsUpdate(p, obj),
             pods[p].state = "none" => \A u \in shape.upstream[p] : pods[u].outs
      PROVE  /\ \A u \in Pods : pods'[u].outs => Queued(u)'
             /\ \A q \in Pods : pods'[q].state # "none" => \A u \in shape.upstream[q] : pods'[u].outs
             /\ \A i \in DOMAIN stream' : \A u \in shape.upstream[stream'[i].pod] : Handled(u, i)'
  <2>1. pods'[p] = obj /\ \A q \in Pods \ {p} : pods'[q] = pods[q]
    BY <1>r, <1>4, PutEffect
  <2>2. PICK n : n = Len(stream) + 1
    OBVIOUS
  <2>t. /\ \A j \in DOMAIN stream : j \in DOMAIN stream' /\ stream'[j] = stream[j] /\ j < n
        /\ \A i \in DOMAIN stream' : i \in DOMAIN stream \/ i = n
        /\ n \in DOMAIN stream' /\ stream'[n] = [pod |-> p, obj |-> obj]
    BY <1>r, <1>4, <2>2, PutPlaces
  <2>3. \A u : Queued(u) => Queued(u)' /\ Handled(u, n)'
    BY <1>d, <2>t DEF Queued, Handled, Brings
  <2>4. \A u : \A i \in DOMAIN stream : Handled(u, i) => Handled(u, i)'
    BY <1>d, <2>t DEF Handled, Brings
  <2>5. \A u \in shape.upstream[p] : pods[u].outs
    BY <1>1, <1>4
  <2>6. ASSUME NEW u \in Pods, pods'[u].outs PROVE Queued(u)'
    <3>1. CASE pods[u].outs
      BY <3>1, <1>1, <2>3
    <3>2. CASE ~pods[u].outs
      <4>1. u = p /\ obj.outs
        BY <2>1, <2>6, <3>2
      <4> QED BY <4>1, <2>t DEF Queued, Brings
    <3> QED BY <3>1, <3>2
  <2>7. ASSUME NEW q \in Pods, pods'[q].state # "none", NEW u \in shape.upstream[q] PROVE pods'[u].outs
    <3>1. pods[u].outs /\ u \in Pods
      BY <1>1, <1>u, <2>1, <2>5, <2>7
    <3> QED BY <1>r, <3>1 DEF PodsGrow
  <2>8. ASSUME NEW i \in DOMAIN stream', NEW u \in shape.upstream[stream'[i].pod] PROVE Handled(u, i)'
    <3>1. CASE i \in DOMAIN stream
      BY <3>1, <1>1, <2>t, <2>4
    <3>2. CASE i = n
      <4>1. stream'[i].pod = p
        BY <3>2, <2>t
      <4>2. Queued(u)
        BY <4>1, <1>1, <1>u, <2>5
      <4> QED BY <3>2, <4>2, <2>3
    <3> QED BY <3>1, <3>2, <2>t
  <2> QED BY <2>6, <2>7, <2>8
<1> QED BY <1>r, <1>2, <1>3, <1>4, StreamMoves

(* A pod is taken up when what it reads is recorded, ...                    *)
LEMMA UpstreamStep ==
  ASSUME NInv, [Next]_vars, faults' = 0, ContextsFit, w'.pc \in Early
  PROVE  \A u \in shape.upstream[w'.pod] : Done(u)'
<1>r. LInv /\ RInv /\ TypeOK /\ w \in WriterType /\ w.obj \in PodType /\ w.pod \in Pods /\ w.exec \in Nat
  BY DEF NInv, LInv, RInv, TypeOK, WriterType
<1>0. faults = 0
  BY <1>r, NoFaults
<1>d. \A u : Done(u) => Done(u)'
  BY <1>r, DoneStays
<1>w. w.pc \in Early => \A u \in shape.upstream[w.pod] : Done(u)
  BY <1>0 DEF NInv, OrderInv
<1>1. CASE w' = Idle
  BY <1>1, ConstantTypes DEF Early
<1>2. CASE SamePod
  BY <1>2, <1>d, <1>w DEF SamePod
<1>3. CASE NewPodSeen
  <2>1. w.pc = "idle" /\ stream # <<>> /\ w'.pod = Head(stream).pod
    BY <1>3 DEF NewPodSeen, Take, Idle
  <2>2. Head(stream) = stream[1] /\ 1 \in DOMAIN stream
    BY <1>r, <2>1, TakeEffect
  <2>3. \A u \in shape.upstream[w'.pod] : Handled(u, 1)
    BY <1>0, <2>1, <2>2 DEF NInv, OrderInv
  <2>4. \A u : Handled(u, 1) => Done(u)
    <3>1. \A j \in DOMAIN stream : ~(j < 1)
      BY <1>r DEF TypeOK
    <3> QED BY <2>1, <3>1 DEF Handled, Working
  <2> QED BY <1>d, <2>3, <2>4
<1>h. ASSUME NEW q \in Pods, NEW x \in PodType, NEW f \in Nat, w' = Handle(q, x, f) PROVE FALSE
  <2>1. w' = Idle \/ w'.pc \in {"outputs", "patchWritten"}
    BY <1>h, HandleCases
  <2> QED BY <2>1, ConstantTypes DEF Early
<1>4. CASE FoundInCache \/ FoundOnPod
  <2> DEFINE q == Head(stream).pod
             x == Head(stream).obj
  <2>1. /\ w.pc = "idle" /\ stream # <<>>
        /\ (Has(execCache, q) /\ w' = Handle(q, x, Get(execCache, q))) \/ w' = Handle(q, x, x.exec)
    BY <1>4 DEF FoundInCache, FoundOnPod, Take
  <2>2. Has(execCache, q) => Get(execCache, q) \in Nat
    BY <1>r, FoundEntry DEF TypeOK
  <2>3. q \in Pods /\ x \in PodType
    BY <1>r, <2>1, TakeEffect
  <2>4. x.exec \in Nat
    BY <2>3 DEF PodType
  <2> HIDE DEF q, x
  <2> QED BY <2>1, <2>2, <2>3, <2>4, <1>h
<1>5. CASE PatchExecution \/ PatchExecutionFails
  <2>1. w' = Handle(w.pod, w.obj, w.exec)
    BY <1>5 DEF PatchExecution, PatchExecutionFails
  <2> QED BY <1>r, <2>1, <1>h
<1> QED BY <1>1, <1>2, <1>3, <1>4, <1>5, <1>r, WriterCases

(* ... and each of its inputs is found and linked.                          *)
LEMMA LinkedInput ==
  ASSUME NInv, ContextsFit, faults = 0, NEW uri \in w.todo, link_execution_to_input_artifact(uri),
         NEW u \in shape.upstream[w.pod], NEW o \in Outputs, uri = <<u, o>>
  PROVE  HasInput(w.exec, u, o)'
<1> DEFINE found == {a \in DOMAIN artifacts : <<artifacts[a].pod, artifacts[a].output>> = uri}
           last == CHOOSE a \in found : \A b \in found : b <= a
<1>r. RInv /\ TypeOK
  BY DEF NInv, LInv, RInv
<1>1. w.pc = "inputs" /\ w'.exec = w.exec /\ artifacts' = artifacts
  BY <1>r DEF link_execution_to_input_artifact, TypeOK, WriterType
<1>2. Done(u)
  BY <1>1 DEF NInv, OrderInv, Early
<1>3. found = ArtifactsOf(u, o)
  BY DEF ArtifactsOf
<1>4. found # {}
  BY <1>2, <1>3 DEF Done
<1>5. executions' = [executions EXCEPT ![w.exec].inputs = @ \cup {last}]
  BY <1>4 DEF link_execution_to_input_artifact
<1>6. last \in found
  <2>1. found \subseteq 1..Len(artifacts) /\ Len(artifacts) \in Nat
    BY <1>r, StoreTypes
  <2>2. \E a \in found : \A b \in found : b <= a
    BY <1>4, <2>1, LargestIndex
  <2> QED BY <2>2
<1>7. w.exec \in DOMAIN executions /\ executions[w.exec] \in ExecutionType
  BY <1>r, <1>1, StoreTypes DEF RInv, WriterInv, IsExecution
<1> HIDE DEF last, found
<1>8. last \in executions'[w.exec].inputs
  BY <1>5, <1>7 DEF ExecutionType
<1>9. last \in ArtifactsOf(u, o)'
  BY <1>1, <1>3, <1>6 DEF ArtifactsOf
<1> QED BY <1>1, <1>8, <1>9 DEF HasInput

LEMMA InputStep ==
  ASSUME NInv, [Next]_vars, faults' = 0, ContextsFit
  PROVE  /\ w'.pc = "inputs" => \A u \in shape.upstream[w'.pod], o \in Outputs :
              <<u, o>> \in w'.todo \/ HasInput(w.exec, u, o)'
         /\ \A p \in Pods : pods'[p].exec # 0 =>
              \A u \in shape.upstream[p], o \in Outputs : HasInput(pods[p].exec, u, o)'
<1>r. LInv /\ RInv /\ TypeOK /\ w \in WriterType /\ w.obj \in PodType /\ w.pod \in Pods /\ w.exec \in Nat
  BY DEF NInv, LInv, RInv, TypeOK, WriterType
<1>0. faults = 0 /\ ~CallFails /\ ~WatchEnds /\ ~Restart
  BY <1>r, NoFaults
<1>i. /\ w.pc = "inputs" => \A u \in shape.upstream[w.pod], o \in Outputs :
            <<u, o>> \in w.todo \/ HasInput(w.exec, u, o)
      /\ \A p \in Pods : pods[p].exec # 0 =>
            \A u \in shape.upstream[p], o \in Outputs : HasInput(pods[p].exec, u, o)
  BY <1>0 DEF NInv, InputInv
<1>g. \A e \in DOMAIN executions : \A u, o : HasInput(e, u, o) => HasInput(e, u, o)'
  <2>1. \A e \in DOMAIN executions : executions[e].inputs \subseteq executions'[e].inputs
    BY <1>r, StoreStep DEF StoreGrows
  <2>2. \A u, o : ArtifactsOf(u, o) \subseteq ArtifactsOf(u, o)'
    BY <1>r, DoneStays
  <2> QED BY <2>1, <2>2 DEF HasInput
<1>e. w.pc = "inputs" => w.exec \in DOMAIN executions
  BY <1>r DEF RInv, WriterInv, IsExecution
<1>1. ASSUME w'.pc = "inputs", NEW u \in shape.upstream[w'.pod], NEW o \in Outputs
      PROVE  <<u, o>> \in w'.todo \/ HasInput(w.exec, u, o)'
  <2>1. CASE Associate
    BY <1>1, <2>1, <1>r DEF Associate, WriterType
  <2>2. ASSUME NEW uri \in w.todo, link_execution_to_input_artifact(uri)
        PROVE  <<u, o>> \in w'.todo \/ HasInput(w.exec, u, o)'
    <3>1. w.pc = "inputs" /\ w'.pod = w.pod /\ w'.exec = w.exec /\ w'.todo = w.todo \ {uri}
      BY <2>2, <1>r DEF link_execution_to_input_artifact, WriterType
    <3>2. CASE uri = <<u, o>>
      BY <1>0, <1>1, <2>2, <3>1, <3>2, LinkedInput
    <3>3. CASE uri # <<u, o>>
      <4>1. <<u, o>> \in w'.todo \/ HasInput(w.exec, u, o)
        BY <1>i, <1>1, <3>1, <3>3
      <4>2. PICK e \in DOMAIN executions : e = w.exec
        BY <1>e, <3>1
      <4>3. HasInput(w.exec, u, o) => HasInput(e, u, o)'
        BY <1>g, <4>2
      <4> QED BY <3>1, <4>1, <4>2, <4>3 DEF HasInput
    <3> QED BY <3>2, <3>3
  <2>3. ASSUME w' = w PROVE <<u, o>> \in w'.todo \/ HasInput(w.exec, u, o)'
    <3>1. PICK e \in DOMAIN executions : e = w.exec
      BY <1>e, <1>1, <2>3
    <3>2. HasInput(w.exec, u, o) => HasInput(e, u, o)'
      BY <1>g, <3>1
    <3>3. <<u, o>> \in w.todo \/ HasInput(w.exec, u, o)
      BY <1>i, <1>1, <2>3
    <3> QED BY <2>3, <3>1, <3>2, <3>3 DEF HasInput
  <2>4. ASSUME (\E q \in Pods : PodStep(q)) \/ UNCHANGED vars \/ SkipWritten \/ ContextNotCached PROVE w' = w
    BY <2>4 DEF PodStep, PodCreated, PodOutputs, PodCompletes, PodDeleted, vars, SkipWritten, ContextNotCached
  <2>h. ASSUME NEW q \in Pods, NEW x \in PodType, NEW f \in Nat, w' = Handle(q, x, f) PROVE FALSE
    <3>1. w' = Idle \/ w'.pc \in {"outputs", "patchWritten"}
      BY <2>h, HandleCases
    <3> QED BY <1>1, <3>1, ConstantTypes
  <2>5. ASSUME FoundInCache \/ FoundOnPod PROVE FALSE
    <3> DEFINE q == Head(stream).pod
               x == Head(stream).obj
    <3>1. /\ stream # <<>>
          /\ (Has(execCache, q) /\ w' = Handle(q, x, Get(execCache, q))) \/ w' = Handle(q, x, x.exec)
      BY <2>5 DEF FoundInCache, FoundOnPod, Take
    <3>2. Has(execCache, q) => Get(execCache, q) \in Nat
      BY <1>r, FoundEntry DEF TypeOK
    <3>3. q \in Pods /\ x \in PodType
      BY <1>r, <3>1, TakeEffect
    <3>4. x.exec \in Nat
      BY <3>3 DEF PodType
    <3> HIDE DEF q, x
    <3> QED BY <3>1, <3>2, <3>3, <3>4, <2>h
  <2>6. ASSUME PatchExecution \/ PatchExecutionFails PROVE FALSE
    <3>1. w' = Handle(w.pod, w.obj, w.exec)
      BY <2>6 DEF PatchExecution, PatchExecutionFails
    <3> QED BY <1>r, <3>1, <2>h
  <2>7. ASSUME \/ NewPodSeen \/ get_or_create_run_context \/ create_execution_with_type
               \/ (\E y \in w.todo : create_artifact_with_type(y)) \/ PutEvent \/ Attribute
               \/ PatchWritten \/ PatchWrittenFails
        PROVE  FALSE
    BY <1>1, <2>7, <1>r, ConstantTypes DEF WriterType, NewPodSeen, get_or_create_run_context, Idle,
           create_execution_with_type, create_artifact_with_type, PutEvent, Attribute, PatchWritten,
           PatchWrittenFails
  <2> QED BY <1>0, <2>1, <2>2, <2>3, <2>4, <2>5, <2>6, <2>7 DEF Next, WriterStep
<1>2. ASSUME NEW p \in Pods, pods'[p].exec # 0, NEW u \in shape.upstream[p], NEW o \in Outputs
      PROVE  HasInput(pods[p].exec, u, o)'
  <2>1. CASE pods'[p].exec = pods[p].exec
    <3>1. pods[p].exec \in DOMAIN executions
      BY <1>2, <2>1 DEF NInv, LInv, RInv, PodInv, IsSeen, IsExecution
    <3>2. PICK e \in DOMAIN executions : e = pods[p].exec
      BY <3>1
    <3>3. HasInput(e, u, o)'
      BY <1>g, <1>i, <1>2, <2>1, <3>2
    <3> QED BY <2>1, <3>2, <3>3 DEF HasInput
  <2>2. CASE PatchExecution /\ p = w.pod
    <3>1. w.pc = "inputs" /\ w.todo = {} /\ pods' = [pods EXCEPT ![p] = [pods[p] EXCEPT !.exec = w.exec]]
      BY <2>2 DEF PatchExecution, Put
    <3>2. pods'[p].exec = w.exec
      BY <1>r, <3>1 DEF TypeOK, PodType
    <3>3. PICK e \in DOMAIN executions : e = w.exec
      BY <1>e, <3>1
    <3>4. HasInput(e, u, o)'
      BY <1>g, <1>i, <2>2, <3>1, <3>3
    <3> QED BY <3>2, <3>3, <3>4 DEF HasInput
  <2> QED BY <1>r, <2>1, <2>2, LabelCases
<1> QED BY <1>1, <1>2

LEMMA LineageStep == NInv /\ [Next]_vars => NInv'
<1> SUFFICES ASSUME NInv, [Next]_vars PROVE NInv'
  OBVIOUS
<1>1. LInv' /\ StackInv' /\ MarkInv'
  BY LabelStep, StackStep, MarkStep DEF NInv
<1>2. shape' = shape
  BY PodsStep DEF NInv, LInv
<1>3. ASSUME faults' = 0, ContextsFit' PROVE OrderInv' /\ InputInv'
  <2>1. ContextsFit
    BY <1>2, <1>3 DEF ContextsFit
  <2>2. OrderInv'
    BY <1>2, <1>3, <2>1, OrderStep, UpstreamStep DEF OrderInv
  <2>3. InputInv'
    BY <1>2, <1>3, <2>1, InputStep DEF InputInv
  <2> QED BY <2>2, <2>3
<1>4. OrderInv' /\ InputInv'
  BY <1>3 DEF OrderInv, InputInv
<1> QED BY <1>1, <1>4 DEF NInv

(* A pod that carries its execution has in it every artifact it read, for   *)
(* any pods and any order of their names, as long as the watch is not       *)
(* interrupted and the cache of contexts is not the smaller one: the watch  *)
(* brings what Argo wrote in the order in which it was written, and a       *)
(* context falls out of its cache no earlier than the pods that need it.    *)
THEOREM LineageHolds == Spec => []LineageIsComplete
<1>1. Init => NInv
  <2> SUFFICES ASSUME Init PROVE StackInv /\ MarkInv /\ OrderInv /\ InputInv
    BY LabelInit DEF NInv
  <2>1. \A p \in Pods : pods[p] = NewPod
    BY DEF Init
  <2> QED BY <2>1, ConstantTypes
          DEF Init, StackInv, MarkInv, OrderInv, InputInv, Distinct, Has, NewPod, Early
<1>2. NInv => LineageIsComplete
  BY DEF NInv, InputInv, LineageIsComplete, ContextsFit, HasInput
<1> QED BY <1>1, <1>2, LineageStep, PTL DEF Spec
=============================================================================
