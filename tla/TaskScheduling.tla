---------------------------- MODULE TaskScheduling ----------------------------
(***************************************************************************)
(* What the wakeup machinery of one worker process promises.  A request to *)
(* run a task is never lost and never doubles a run: it is granted as soon *)
(* as the task is idle, absorbed by a pending request, and remembered      *)
(* ("rerun") while the task runs.  Implemented by WorkerQueue.             *)
(***************************************************************************)
CONSTANT Task

VARIABLES
  phase,  \* what the process owes to each task
  up      \* the worker loop takes new work

vars == <<phase, up>>

Phases == {"idle", "pending", "running", "rerun"}

Init ==
  /\ phase = [t \in Task |-> "idle"]
  /\ up = FALSE

After(p) ==
  CASE p = "idle" -> "pending"
    [] p = "running" -> "rerun"
    [] OTHER -> p

Request(t) ==
  /\ phase' = [phase EXCEPT ![t] = After(@)]
  /\ UNCHANGED up

Grant(t) ==
  /\ up
  /\ phase[t] = "pending"
  /\ phase' = [phase EXCEPT ![t] = "running"]
  /\ UNCHANGED up

\* A run may ask for the next one itself; a remembered request must be granted.
Complete(t) ==
  /\ phase[t] \in {"running", "rerun"}
  /\ \/ phase' = [phase EXCEPT ![t] = "pending"]
     \/ /\ up => phase[t] = "running"
        /\ phase' = [phase EXCEPT ![t] = "idle"]
  /\ UNCHANGED up

\* Shutting down forgets requests in memory; the durable state outlives them.
Stop == up' = FALSE /\ UNCHANGED phase
Forget(t) ==
  /\ ~up
  /\ phase[t] = "pending"
  /\ phase' = [phase EXCEPT ![t] = "idle"]
  /\ UNCHANGED up
Die ==
  /\ phase' = [t \in Task |-> "idle"]
  /\ up' = FALSE
Boot == ~up /\ up' = TRUE /\ UNCHANGED phase

Next ==
  \/ \E t \in Task : Request(t) \/ Grant(t) \/ Complete(t) \/ Forget(t)
  \/ Stop \/ Die \/ Boot

Spec == Init /\ [][Next]_vars
=============================================================================
