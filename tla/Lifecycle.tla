------------------------------ MODULE Lifecycle ------------------------------
(***************************************************************************)
(* The lifecycle graph of an incident task (src/src/lifecycle_graph.py).   *)
(* A pure module: the states, the declared edges, and the predicate that   *)
(* decides whether the catalog accepts a requested change of state.        *)
(***************************************************************************)

TaskStates ==
  { "received", "triaging", "collecting_context", "investigating",
    "reproducing", "implementing", "testing_local", "publishing_pr",
    "waiting_for_deployment", "testing_deployment", "waiting_for_review",
    "completed", "blocked", "failed", "cancelled" }

TerminalStates == { "completed", "blocked", "failed", "cancelled" }

\* States a worker can advance without an external event.
ActiveStates ==
  { "received", "triaging", "collecting_context", "investigating",
    "reproducing", "implementing", "testing_local", "publishing_pr",
    "testing_deployment" }

\* Pull requests may be merged by a person while a repair is running.
MergeableStates ==
  { "reproducing", "implementing", "testing_local", "publishing_pr",
    "waiting_for_deployment", "testing_deployment", "waiting_for_review" }

\* The declared work edges, grouped by their source.
Transitions ==
  LET From(s, T) == {<<s, t>> : t \in T} IN
  UNION {
    From("received", {"triaging", "collecting_context"}),
    From("triaging", {"triaging", "collecting_context"}),
    From("collecting_context", {"investigating"}),
    From("investigating", {"reproducing"}),
    From("reproducing", {"reproducing", "implementing", "blocked"}),
    From("implementing", {"testing_local", "reproducing", "blocked"}),
    From("testing_local", {"testing_local", "publishing_pr",
           "waiting_for_deployment", "implementing", "reproducing"}),
    From("publishing_pr", {"publishing_pr", "waiting_for_deployment",
           "reproducing"}),
    From("waiting_for_deployment", {"testing_deployment", "reproducing"}),
    From("testing_deployment", {"waiting_for_review", "reproducing",
           "blocked"}),
    From("waiting_for_review", {"implementing", "reproducing",
           "waiting_for_review"}),
    {<<s, "completed">> : s \in MergeableStates} }

\* Executor outcomes: any task that is not over may be stopped.
StopEdge(from, to) ==
  /\ to \in {"blocked", "cancelled", "failed"}
  /\ from \notin TerminalStates

\* What TaskCatalog.transition accepts. "release" is the operator's audited
\* release of a triage hold, the one way out of a terminal state.
ValidTransition(from, to, release) ==
  \/ release /\ from = "blocked" /\ to = "received"
  \/ StopEdge(from, to)
  \/ <<from, to>> \in Transitions
=============================================================================
