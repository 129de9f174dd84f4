-------------------------- MODULE MCMetadataWriter --------------------------
(* The pods and the caches with which TLC checks MetadataWriter. *)
EXTENDS MetadataWriter, TLC

CONSTANTS a, b, flow, other

Sized(workflow, upstream, place, exec, ctx) ==
  [workflow |-> workflow, upstream |-> upstream, place |-> place,
   exec |-> exec, ctx |-> ctx, written |-> exec]

(* One workflow in which b reads what a writes, with names in either order, and two *)
(* workflows of one pod each, with room for one pod and with a cache of contexts    *)
(* that is too small.                                                               *)
MCShapes ==
  {Sized([p \in {a, b} |-> flow], a :> {} @@ b :> {a}, o, 2, 2) : o \in {a :> 1 @@ b :> 2, a :> 2 @@ b :> 1}}
  \cup {Sized(a :> flow @@ b :> other, [p \in {a, b} |-> {}], a :> 1 @@ b :> 2, n, 1) : n \in {1, 2}}
=============================================================================
