------------------------------- MODULE DagRun -------------------------------
(***************************************************************************)
(* What a run of a compiled dag promises, whichever orchestrator runs it:  *)
(* every task is started at most once and only when what it depends on has *)
(* settled, a task whose upstream failed runs only when it opted in to     *)
(* that, the exit tasks come after every other task, and the verdict is    *)
(* SUCCESS only when everything settled and nothing failed.                *)
(***************************************************************************)
EXTENDS FiniteSets

VARIABLES
  dag,      \* task -> [deps, tolerant, exit]: the tasks of the dag, never changed
  state,    \* task -> "pending", "running", "succeeded", "failed" or "skipped"
  verdict   \* "running", "SUCCESS", "FAILURE" or "raised"

vars == <<dag, state, verdict>>

Tasks == DOMAIN dag
Settled == {t \in Tasks : state[t] \in {"succeeded", "failed", "skipped"}}
Failed == {t \in Tasks : state[t] = "failed"}
Upstream(t) == dag[t].deps \cap Tasks

Init ==
  /\ state = [t \in Tasks |-> "pending"]
  /\ verdict = "running"

(* A task may begin once its upstream tasks have settled; an exit task once every task *)
(* of the body has.                                                                     *)
MayBegin(t) ==
  /\ verdict = "running"
  /\ state[t] = "pending"
  /\ IF dag[t].exit THEN \A u \in Tasks : dag[u].exit \/ u \in Settled
                    ELSE Upstream(t) \subseteq Settled

Set(t, s) == state' = [state EXCEPT ![t] = s] /\ UNCHANGED <<dag, verdict>>

Begin(t) ==
  /\ MayBegin(t)
  /\ Upstream(t) \cap Failed = {} \/ dag[t].tolerant
  /\ Set(t, "running")

(* A task with a failed upstream that did not opt in fails without running. *)
Cascade(t) == MayBegin(t) /\ Upstream(t) \cap Failed # {} /\ ~dag[t].tolerant /\ Set(t, "failed")

(* A conditional task whose condition does not hold, or a loop with nothing to do. *)
Skip(t) == MayBegin(t) /\ Set(t, "skipped")

Settle(t) ==
  /\ verdict = "running" /\ state[t] = "running"
  /\ \E s \in {"succeeded", "failed"} : Set(t, s)

(* The verdict is given once, when no task is running. An error that is no task failure *)
(* (an input that no task produced) ends the run at any point.                          *)
Conclude ==
  /\ verdict = "running"
  /\ \/ verdict' = "raised"
     \/ verdict' = "FAILURE" /\ Failed # {} /\ \A t \in Tasks : state[t] # "running"
     \/ verdict' = "SUCCESS" /\ Failed = {} /\ Settled = Tasks
  /\ UNCHANGED <<dag, state>>

Next ==
  \/ \E t \in Tasks : Begin(t) \/ Cascade(t) \/ Skip(t) \/ Settle(t)
  \/ Conclude

Spec == Init /\ [][Next]_vars
=============================================================================
