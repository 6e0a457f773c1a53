------------------------------- MODULE Intake -------------------------------
(***************************************************************************)
(* How alerts become tasks: the incident webhook of src/src/server.py,     *)
(* ConnectorManager.normalize_incident, WorkflowEngine.submit, and         *)
(* Storage.create_task with the scopes of TaskCatalog.create.              *)
(*                                                                         *)
(* Several processes may serve one runtime database.  A request runs on    *)
(* the event loop without giving it up, so a process has one in progress;  *)
(* it takes several transactions, and the process may die between any two. *)
(* The sender retries what was not answered, and repeats what was.         *)
(***************************************************************************)
EXTENDS Naturals

CONSTANTS
  Server,       \* the processes that serve the intake
  Payload,      \* the payloads that connectors may send
  Incident,     \* of each: the incident it opens (its first firing alert)
  Group,        \* of each: group key and fingerprints
  Resolved,     \* those that only resolve
  Hint,         \* of each: the repository its labels lead to, and what they name
  Repository,   \* the repositories
  Application,  \* the names of applications
  Configuration,\* the configurations that operators put in place, see configured
  MaxCrashes    \* bound on deaths of processes

\* Labels name a repository, or only a service, which leads to the first
\* repository of its application.
Hints == [repository : Repository, names : {"repository", "service"}]
None == "none"
Applications == Application \union {None}

ASSUME IntakeAssumption ==
  /\ Incident \in [Payload -> Payload] /\ Resolved \subseteq Payload
  /\ Hint \in [Payload -> Hints]
  /\ None \notin Application
  /\ Configuration \subseteq [Repository -> Applications]
  /\ MaxCrashes \in Nat

VARIABLES
  configured,  \* the application that each repository is configured in, or None
  crashes,     \* deaths so far
  up,          \* the processes that run
  request,     \* of each process: what it is doing
  tasks,       \* the rows of catalog_tasks: their scopes and repositories
  events,      \* observability_events: duplicate_of and task of each
  history,     \* incident_history: the tasks that are in it
  answered     \* ghost: payloads that were answered 202, with the task named

alerts == <<tasks, events, history, answered>>
vars == <<configured, crashes, up, request, alerts>>

Free == [at |-> "free"]
At(s, where) == s \in up /\ request[s].at = where

Init ==
  /\ configured \in Configuration
  /\ crashes = 0 /\ up = Server
  /\ request = [s \in Server |-> Free]
  /\ tasks = {} /\ events = {} /\ history = {} /\ answered = {}

-----------------------------------------------------------------------------
(* Scopes and the search for an existing task                              *)

\* resolve_application(): a service without its application is refused; a
\* repository belongs to the application it is a member of now.
Routable(p) == Hint[p].names = "service" => configured[Hint[p].repository] # None
Routed(p) ==
  [external_id |-> Incident[p], repository |-> Hint[p].repository,
   application |-> configured[Hint[p].repository]]

LegacyScope(i) == <<i.external_id, i.repository>>
Scope(i) ==
  IF i.application # None THEN <<i.external_id, i.application, "application">>
  ELSE LegacyScope(i)

\* find_by_incident()
SameIncident(t, i) ==
  /\ t.external_id = i.external_id
  /\ IF i.application # None THEN t.application = i.application
     ELSE t.repository = i.repository

\* TaskCatalog.create(): a row of either scope is the task.
\* Mutation: only the scope of the incident itself is looked up.
TakenScopesOwn(i) == {Scope(i)}
TakenScopes(i) == {Scope(i), LegacyScope(i)}
InScope(i) == {t \in tasks : Scope(t) \in TakenScopes(i)}

-----------------------------------------------------------------------------
(* The incident webhook, one transaction at a time                         *)
Receives(s, p) ==
  /\ At(s, "free")
  /\ request' = [request EXCEPT ![s] = [at |-> "record", payload |-> p]]
  /\ UNCHANGED <<configured, crashes, up, alerts>>

\* The control API and JSON files submit an incident without an event.
Submits(s, p) ==
  /\ At(s, "free") /\ p \notin Resolved /\ Routable(p)
  /\ request' = [request EXCEPT ![s] = [at |-> "find", payload |-> p, event |-> FALSE]]
  /\ UNCHANGED <<configured, crashes, up, alerts>>

\* record_observability_event(): the payload is stored once, and refers to an
\* event of its group that was there before.
Recorded(p) == \E e \in events : e.payload = p
Grouped(p) == {e.payload : e \in {f \in events : Group[f.payload] = Group[p]}}

\* Mutation: a duplicate is answered with the task of the stored event.
AfterEventStored(s, p) ==
  IF p \in Resolved \/ ~Routable(p) \/ Recorded(p) THEN Free
  ELSE [at |-> "find", payload |-> p, event |-> TRUE]
AfterEvent(s, p) ==
  IF p \in Resolved \/ ~Routable(p) THEN Free
  ELSE [at |-> "find", payload |-> p, event |-> TRUE]

Answer(p, task) == answered' = answered \union {[payload |-> p, task |-> task]}

\* A payload that only resolves is acknowledged; one that cannot be routed is
\* refused, and the event stays.
Records(s) ==
  LET p == request[s].payload IN
  /\ At(s, "record")
  /\ IF Recorded(p) THEN UNCHANGED events
     ELSE \E d \in IF Grouped(p) = {} THEN {None} ELSE Grouped(p) :
            events' = events \union {[payload |-> p, duplicate_of |-> d, task |-> {}]}
  /\ request' = [request EXCEPT ![s] = AfterEvent(s, p)]
  /\ IF p \in Resolved THEN Answer(p, {}) ELSE UNCHANGED answered
  /\ UNCHANGED <<configured, crashes, up, tasks, history>>

Proceeds(s, t) ==
  request' = [request EXCEPT ![s] =
    [at |-> "history", payload |-> request[s].payload, event |-> request[s].event, task |-> t]]

Finds(s) ==
  LET i == Routed(request[s].payload)
      existing == {t \in tasks : SameIncident(t, i)} IN
  /\ At(s, "find")
  /\ IF existing = {}
     THEN request' = [request EXCEPT ![s].at = "create"]
     ELSE \E t \in existing : Proceeds(s, t)
  /\ UNCHANGED <<configured, crashes, up, alerts>>

Creates(s) ==
  LET i == Routed(request[s].payload) IN
  /\ At(s, "create")
  /\ IF InScope(i) = {} THEN tasks' = tasks \union {i} /\ Proceeds(s, i)
     ELSE (\E t \in InScope(i) : Proceeds(s, t)) /\ UNCHANGED tasks
  /\ UNCHANGED <<configured, crashes, up, events, history, answered>>

\* record_incident_history() adds a task once; what is known of its cause stays.
KeepsHistory(s) ==
  /\ At(s, "history")
  /\ history' = history \union {request[s].task}
  /\ request' = [request EXCEPT ![s].at = "attach"]
  /\ UNCHANGED <<configured, crashes, up, tasks, events, answered>>

\* attach_event_task(), and the answer.
Attached(e, s) ==
  IF request[s].event /\ e.payload = request[s].payload
  THEN [e EXCEPT !.task = {request[s].task}] ELSE e

Answers(s) ==
  /\ At(s, "attach")
  /\ events' = {Attached(e, s) : e \in events}
  /\ Answer(request[s].payload, {request[s].task})
  /\ request' = [request EXCEPT ![s] = Free]
  /\ UNCHANGED <<configured, crashes, up, tasks, history>>

-----------------------------------------------------------------------------
Crash(s) ==
  /\ s \in up /\ crashes < MaxCrashes
  /\ crashes' = crashes + 1
  /\ up' = up \ {s}
  /\ request' = [request EXCEPT ![s] = Free]
  /\ UNCHANGED <<configured, alerts>>

\* The configuration is read when a process starts; all are restarted for a new
\* one.
Restart(s) ==
  /\ s \notin up
  /\ up' = up \union {s}
  /\ UNCHANGED <<configured, crashes, request, alerts>>

Reconfigure ==
  /\ up = {}
  /\ configured' \in Configuration
  /\ UNCHANGED <<crashes, up, request, alerts>>

Serves(s) == Records(s) \/ Finds(s) \/ Creates(s) \/ KeepsHistory(s) \/ Answers(s)

Next ==
  \/ \E s \in Server, p \in Payload : Receives(s, p) \/ Submits(s, p)
  \/ \E s \in Server : Serves(s) \/ Crash(s) \/ Restart(s)
  \/ Reconfigure

\* A process goes on with its request and is restarted when it has died; the
\* sender of an alert repeats it.
Fairness ==
  /\ \A s \in Server : WF_vars(Serves(s)) /\ WF_vars(Restart(s))
  /\ \A p \in Payload : SF_vars(\E s \in Server : Receives(s, p))

Spec == Init /\ [][Next]_vars /\ Fairness

-----------------------------------------------------------------------------
Tasks == [external_id : Payload, application : Applications, repository : Repository]
Requests ==
  {Free} \union [at : {"record"}, payload : Payload]
         \union [at : {"find", "create"}, payload : Payload, event : BOOLEAN]
         \union [at : {"history", "attach"}, payload : Payload, event : BOOLEAN, task : Tasks]

Events == [payload : Payload, duplicate_of : Payload \union {None}, task : SUBSET tasks]

\* Types; an event is stored once, and a duplicate refers to an event of its
\* group that is stored as well.
TypeOK ==
  /\ configured \in Configuration
  /\ crashes \in 0..MaxCrashes /\ up \subseteq Server
  /\ request \in [Server -> Requests]
  /\ tasks \subseteq Tasks /\ history \subseteq tasks
  /\ events \subseteq Events
  /\ \A e \in events, f \in events : e.payload = f.payload => e = f
  /\ \A e \in events : e.duplicate_of # None =>
       \E f \in events : f.payload = e.duplicate_of /\ Group[f.payload] = Group[e.payload]

\* "Deduplication still uses the incident source, external ID, environment, and
\* application scope" (docs/application-scopes.md:62): whichever of the processes
\* took its payloads, in whatever order and with whatever crashes, an alert is
\* one task of an application, and one task of a repository although the
\* repository was put into an application, or taken out of it, in between.  Only
\* a repository that moved from one application to another has a task in each.
OneTaskPerIncident ==
  \A t, u \in tasks :
    (t # u /\ t.external_id = u.external_id) =>
      /\ t.application = u.application => t.application = None
      /\ t.repository = u.repository => None \notin {t.application, u.application}

\* "Correlation is advisory and never merges, closes, or suppresses tasks"
\* (README.md:269): an alert that its sender repeats until it is answered is
\* answered with a task for its own incident, which is in the history and on
\* the event, even if the first attempt died after the event was stored or the
\* group had an event before.
AlertsOpenTasks ==
  \A p \in Payload :
    (p \notin Resolved /\ Hint[p].names = "repository") =>
      <>(\E t \in history :
           /\ t.external_id = Incident[p]
           /\ [payload |-> p, task |-> {t}] \in answered
           /\ \E e \in events : e.payload = p /\ e.task # {})
=============================================================================
