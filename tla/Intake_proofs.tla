---------------------------- MODULE Intake_proofs ----------------------------
(***************************************************************************)
(* For any processes, payloads, routes and applications: the types of the  *)
(* intake, and that an alert is one task of an application, and one task   *)
(* of a repository that is put into an application or taken out of it.     *)
(*                                                                         *)
(* The second is not inductive.  A request that did not find a task and is *)
(* about to create one may be overtaken; what keeps it from missing a task *)
(* of the other scope is that no process serves across a change of the     *)
(* configuration (Served) and that every such task either has a scope that *)
(* create() looks up, or was excluded by the search before (FoundNone).    *)
(***************************************************************************)
EXTENDS Intake, TLAPS

\* A process that is down serves nothing.
Served == \A s \in Server : s \notin up => request[s] = Free

\* What a request goes on with is a task.
Held == \A s \in Server : request[s].at \in {"history", "attach"} => request[s].task \in tasks

\* t is about the repository of the route i, but as a task of an application.
Elsewhere(t, i) ==
  /\ t.application # None
  /\ t.external_id = i.external_id /\ t.repository = i.repository

\* A request outside of applications that is about to create its task looked
\* for one by its repository, and no application has made one since.
FoundNone ==
  \A s \in Server :
    request[s].at = "create" /\ Routed(request[s].payload).application = None =>
      \A t \in tasks : ~Elsewhere(t, Routed(request[s].payload))

IntakeInv == TypeOK /\ Served /\ Held /\ FoundNone /\ OneTaskPerIncident

-----------------------------------------------------------------------------
(* The shape of a request says how far it is.                              *)

LEMMA RequestKinds ==
  ASSUME TypeOK, NEW s \in Server
  PROVE  /\ request[s].at = "record" =>
              request[s] \in [at : {"record"}, payload : Payload]
         /\ request[s].at \in {"find", "create"} =>
              request[s] \in [at : {"find", "create"}, payload : Payload, event : BOOLEAN]
         /\ request[s].at \in {"history", "attach"} =>
              request[s] \in [at : {"history", "attach"}, payload : Payload,
                              event : BOOLEAN, task : Tasks]
  BY DEF TypeOK, Requests, Free

\* What a payload is routed to is a task.
LEMMA RoutedIsTask == TypeOK => \A p \in Payload : Routed(p) \in Tasks
  BY IntakeAssumption DEF TypeOK, Routed, Tasks, Hints, Applications

\* An event that is given a task stays the event of its payload.
LEMMA AttachedKeeps ==
  ASSUME TypeOK, NEW s \in Server, request[s].at = "attach", request[s].task \in tasks,
         NEW e \in events
  PROVE  /\ Attached(e, s) \in Events
         /\ Attached(e, s).payload = e.payload
         /\ Attached(e, s).duplicate_of = e.duplicate_of
  BY RequestKinds DEF Attached, TypeOK, Events

-----------------------------------------------------------------------------
(* Types                                                                   *)

\* What TypeOK says of events.
EventsOK ==
  /\ events \subseteq Events
  /\ \A e \in events, f \in events : e.payload = f.payload => e = f
  /\ \A e \in events : e.duplicate_of # None =>
       \E f \in events : f.payload = e.duplicate_of /\ Group[f.payload] = Group[e.payload]

LEMMA IntakeInit == Init => IntakeInv
<1> SUFFICES ASSUME Init PROVE IntakeInv
  OBVIOUS
<1>1. TypeOK
  BY IntakeAssumption DEF Init, TypeOK, Requests, Free, Events
<1>2. Served /\ Held /\ FoundNone
  BY DEF Init, Served, Held, FoundNone, Free
<1>3. OneTaskPerIncident
  BY DEF Init, OneTaskPerIncident
<1>. QED
  BY <1>1, <1>2, <1>3 DEF IntakeInv

\* An alert is stored once, as a duplicate of one that is stored.
LEMMA EventsRecorded ==
  ASSUME TypeOK, NEW s \in Server, Records(s)
  PROVE  EventsOK'
<1> DEFINE p == request[s].payload
<1>1. p \in Payload /\ tasks' = tasks /\ EventsOK
  BY RequestKinds DEF Records, At, TypeOK, EventsOK
<1>2. CASE Recorded(p)
  BY <1>1, <1>2 DEF Records, EventsOK, Events
<1>3. CASE ~Recorded(p)
  <2>1. PICK d \in IF Grouped(p) = {} THEN {None} ELSE Grouped(p) :
          events' = events \union {[payload |-> p, duplicate_of |-> d, task |-> {}]}
    BY <1>3 DEF Records
  <2> DEFINE new == [payload |-> p, duplicate_of |-> d, task |-> {}]
  <2>2. d = None \/ \E f \in events : f.payload = d /\ Group[f.payload] = Group[p]
    BY <2>1 DEF Grouped
  <2>3. d \in Payload \union {None}
    BY <1>1, <2>2 DEF EventsOK, Events
  <2>4. new \in Events
    BY <1>1, <2>3 DEF Events
  <2>5. \A e \in events : e.payload # p
    BY <1>3 DEF Recorded
  <2>6. events' \subseteq Events'
    <3>1. Events' = Events
      BY <1>1 DEF Events
    <3>. QED
      BY <1>1, <2>1, <2>4, <3>1 DEF EventsOK
  <2>7. \A e \in events', f \in events' : e.payload = f.payload => e = f
    <3>1. \A e \in events' : e \in events \/ e = new
      BY <2>1
    <3>2. new.payload = p
      OBVIOUS
    <3>3. \A e \in events, f \in events : e.payload = f.payload => e = f
      BY <1>1 DEF EventsOK
    <3>. HIDE DEF new, p
    <3>. QED
      BY <2>5, <3>1, <3>2, <3>3
  <2>8. \A e \in events' : e.duplicate_of # None =>
          \E f \in events' : f.payload = e.duplicate_of /\ Group[f.payload] = Group[e.payload]
    BY <1>1, <2>1, <2>2 DEF EventsOK
  <2>. QED
    BY <2>6, <2>7, <2>8 DEF EventsOK
<1>. QED
  BY <1>2, <1>3

\* Attaching the task makes no other event of one.
LEMMA EventsAnswered ==
  ASSUME TypeOK, Held, NEW s \in Server, Answers(s)
  PROVE  EventsOK'
<1>1. /\ EventsOK /\ tasks' = tasks /\ events' = {Attached(e, s) : e \in events}
      /\ request[s].at = "attach" /\ request[s].task \in tasks
  BY DEF Answers, At, TypeOK, EventsOK, Held
<1>2. events' \subseteq Events /\ Events' = Events
  BY <1>1, AttachedKeeps DEF Events
<1>3. ASSUME NEW e \in events', NEW f \in events', e.payload = f.payload PROVE e = f
  <2>1. PICK e0 \in events, f0 \in events : e = Attached(e0, s) /\ f = Attached(f0, s)
    BY <1>1
  <2>2. e0.payload = f0.payload
    BY <1>1, <1>3, <2>1, AttachedKeeps
  <2>. QED
    BY <1>1, <2>1, <2>2 DEF EventsOK
<1>4. ASSUME NEW e \in events', e.duplicate_of # None
      PROVE  \E f \in events' : f.payload = e.duplicate_of /\ Group[f.payload] = Group[e.payload]
  <2>1. PICK e0 \in events : e = Attached(e0, s)
    BY <1>1
  <2>2. e0.duplicate_of = e.duplicate_of /\ e0.payload = e.payload
    BY <1>1, <2>1, AttachedKeeps
  <2>3. PICK f0 \in events : f0.payload = e0.duplicate_of /\ Group[f0.payload] = Group[e0.payload]
    BY <1>1, <1>4, <2>2 DEF EventsOK
  <2>4. Attached(f0, s) \in events' /\ Attached(f0, s).payload = f0.payload
    BY <1>1, AttachedKeeps
  <2>. QED
    BY <2>2, <2>3, <2>4
<1>. QED
  BY <1>2, <1>3, <1>4 DEF EventsOK

-----------------------------------------------------------------------------
(* One step                                                                *)

\* A request that has its task goes on, and nothing else changes.
LEMMA Proceeded ==
  ASSUME IntakeInv, NEW s \in Server, s \in up,
         request[s].at \in {"find", "create"}, NEW t \in tasks, Proceeds(s, t),
         UNCHANGED <<configured, crashes, up, alerts>>
  PROVE  IntakeInv'
<1>1. request[s] \in [at : {"find", "create"}, payload : Payload, event : BOOLEAN] /\ t \in Tasks
  BY RequestKinds DEF IntakeInv, TypeOK
<1>2. /\ request'[s] \in Requests
      /\ request'[s].at = "history" /\ request'[s].task = t
      /\ \A u \in Server \ {s} : request'[u] = request[u]
  BY <1>1 DEF Proceeds, IntakeInv, TypeOK, Requests
<1>3. TypeOK'
  BY <1>2 DEF IntakeInv, TypeOK, alerts, Proceeds, Events
<1>4. (Served /\ Held /\ FoundNone)'
  BY <1>2 DEF IntakeInv, Served, Held, FoundNone, alerts, Routed, Elsewhere
<1>. QED
  BY <1>3, <1>4 DEF IntakeInv, OneTaskPerIncident, alerts

LEMMA RecordsNext ==
  ASSUME IntakeInv, NEW s \in Server, Records(s) PROVE IntakeInv'
<1>1. EventsOK'
  BY EventsRecorded DEF IntakeInv
<1>2. request[s].payload \in Payload /\ s \in up
  BY RequestKinds DEF IntakeInv, Records, At
<1>3. AfterEvent(s, request[s].payload) \in Requests
  BY <1>2 DEF AfterEvent, Requests
<1>4. TypeOK'
  BY <1>1, <1>3 DEF IntakeInv, TypeOK, EventsOK, Records, Events
<1>5. (Served /\ Held /\ FoundNone)'
  BY <1>2, Zenon, SMT DEF IntakeInv, Served, Held, FoundNone, Records, AfterEvent, Free, TypeOK, Routed, Elsewhere
<1>6. OneTaskPerIncident'
  BY DEF IntakeInv, OneTaskPerIncident, Records
<1>. QED
  BY <1>4, <1>5, <1>6 DEF IntakeInv

LEMMA FindsNext ==
  ASSUME IntakeInv, NEW s \in Server, Finds(s) PROVE IntakeInv'
<1> DEFINE r == request[s]
           i == Routed(r.payload)
           existing == {t \in tasks : SameIncident(t, i)}
<1>1. /\ s \in up /\ r.at = "find"
      /\ r \in [at : {"find", "create"}, payload : Payload, event : BOOLEAN]
      /\ UNCHANGED <<configured, crashes, up, alerts>>
  BY RequestKinds DEF IntakeInv, Finds, At
<1>2. CASE existing = {}
  <2>1. request' = [request EXCEPT ![s].at = "create"]
    BY <1>2 DEF Finds
  <2>2. request'[s] \in Requests
    BY <1>1, <2>1 DEF Requests, IntakeInv, TypeOK
  <2>3. TypeOK'
    BY <1>1, <2>1, <2>2 DEF IntakeInv, TypeOK, alerts, Events
  <2>4. (Served /\ Held)'
    BY <1>1, <2>1 DEF IntakeInv, TypeOK, Served, Held, alerts
  <2>5. i.application = None => \A t \in tasks : ~Elsewhere(t, i)
    BY <1>2 DEF SameIncident, Elsewhere
  <2>6. \A u \in Server : request'[u].payload = request[u].payload
                          /\ (u # s => request'[u] = request[u])
    BY <1>1, <2>1 DEF IntakeInv, TypeOK
  <2>7. FoundNone'
    BY <1>1, <2>5, <2>6 DEF IntakeInv, FoundNone, alerts, Routed, Elsewhere
  <2>. QED
    BY <1>1, <2>3, <2>4, <2>7 DEF IntakeInv, OneTaskPerIncident, alerts
<1>3. CASE existing # {}
  <2>1. PICK t \in tasks : Proceeds(s, t)
    BY <1>3 DEF Finds
  <2>. QED
    BY <1>1, <2>1, Proceeded
<1>. QED
  BY <1>2, <1>3

\* The task that is created is the only one about its repository.
LEMMA CreatesNext ==
  ASSUME IntakeInv, NEW s \in Server, Creates(s) PROVE IntakeInv'
<1> DEFINE r == request[s]
           i == Routed(r.payload)
<1>1. /\ s \in up /\ r.at = "create"
      /\ r \in [at : {"find", "create"}, payload : Payload, event : BOOLEAN]
      /\ UNCHANGED <<configured, crashes, up, events, history, answered>>
  BY RequestKinds DEF IntakeInv, Creates, At
<1>2. CASE InScope(i) # {}
  <2>1. PICK t \in InScope(i) : Proceeds(s, t) /\ UNCHANGED tasks
    BY <1>2 DEF Creates
  <2>2. t \in tasks
    BY DEF InScope
  <2>. QED
    BY <1>1, <2>1, <2>2, Proceeded DEF alerts
<1>3. CASE InScope(i) = {}
  <2>1. tasks' = tasks \union {i} /\ Proceeds(s, i) /\ i \in Tasks
    BY <1>1, <1>3, RoutedIsTask DEF Creates, IntakeInv
  <2>2. /\ request'[s] \in Requests
        /\ request'[s].at = "history" /\ request'[s].task = i
        /\ \A u \in Server \ {s} : request'[u] = request[u]
    BY <1>1, <2>1 DEF Proceeds, IntakeInv, TypeOK, Requests
  <2>3. Events \subseteq Events'
    BY <2>1 DEF Events
  <2>4. TypeOK'
    BY <1>1, <2>1, <2>2, <2>3 DEF IntakeInv, TypeOK, Proceeds
  <2>5. (Served /\ Held)'
    BY <1>1, <2>1, <2>2 DEF IntakeInv, Served, Held
  <2>7. ASSUME NEW u \in Server, request'[u].at = "create",
               Routed(request[u].payload)'.application = None,
               NEW t \in tasks'
        PROVE  ~Elsewhere(t, Routed(request[u].payload)')
    <3>1. u # s /\ request'[u] = request[u] /\ Routed(request[u].payload)' = Routed(request[u].payload)
      BY <1>1, <2>2, <2>7 DEF Routed
    <3>2. request[u].payload \in Payload
      BY <2>7, <3>1, RequestKinds DEF IntakeInv
    <3>3. CASE t \in tasks
      BY <2>7, <3>1, <3>3 DEF IntakeInv, FoundNone
    <3>4. CASE t = i
      BY <1>1, <2>7, <3>1, <3>2, <3>4 DEF Elsewhere, Routed
    <3>. QED
      BY <2>1, <3>3, <3>4
  <2>8. FoundNone'
    BY <2>7 DEF FoundNone
  <2>9. ASSUME NEW t \in tasks, t.external_id = i.external_id
        PROVE  /\ t.application = i.application => t.application = None
               /\ t.repository = i.repository => None \notin {t.application, i.application}
    <3>1. Scope(t) \notin {Scope(i), LegacyScope(i)}
      BY <1>3 DEF InScope, TakenScopes
    <3>2. ASSUME t.application = i.application, t.application # None PROVE FALSE
      BY <2>9, <3>1, <3>2 DEF Scope
    <3>3. ASSUME t.repository = i.repository, t.application = None PROVE FALSE
      BY <2>9, <3>1, <3>3 DEF Scope, LegacyScope
    <3>4. ASSUME t.repository = i.repository, t.application # None, i.application = None
          PROVE  FALSE
      BY <1>1, <2>9, <3>4 DEF IntakeInv, FoundNone, Elsewhere
    <3>. QED
      BY <3>2, <3>3, <3>4
  <2>10. OneTaskPerIncident'
    <3>1. ASSUME NEW t \in tasks', NEW u \in tasks', t # u, t.external_id = u.external_id
          PROVE  /\ t.application = u.application => t.application = None
                 /\ t.repository = u.repository => None \notin {t.application, u.application}
      <4>1. CASE t \in tasks /\ u \in tasks
        BY <3>1, <4>1 DEF IntakeInv, OneTaskPerIncident
      <4>2. CASE t = i /\ u \in tasks
        BY <3>1, <4>2, <2>9
      <4>3. CASE t \in tasks /\ u = i
        BY <3>1, <4>3, <2>9
      <4>. QED
        BY <2>1, <3>1, <4>1, <4>2, <4>3
    <3>. QED
      BY <3>1 DEF OneTaskPerIncident
  <2>. QED
    BY <2>4, <2>5, <2>8, <2>10 DEF IntakeInv
<1>. QED
  BY <1>2, <1>3

\* The steps after the task is there, and those outside of requests.
LEMMA OtherNext ==
  ASSUME IntakeInv, [Next]_vars,
         \A s \in Server : ~(Records(s) \/ Finds(s) \/ Creates(s))
  PROVE  IntakeInv'
<1>1. ASSUME NEW s \in Server, NEW p \in Payload, Receives(s, p) PROVE IntakeInv'
  <2>1. request'[s] \in Requests /\ request'[s].at = "record" /\ s \in up
        /\ \A u \in Server \ {s} : request'[u] = request[u]
    BY <1>1 DEF Receives, At, IntakeInv, TypeOK, Requests
  <2>2. TypeOK'
    BY <1>1, <2>1 DEF Receives, IntakeInv, TypeOK, alerts, Events
  <2>. QED
    BY <1>1, <2>1, <2>2 DEF Receives, IntakeInv, Served, Held, FoundNone,
                            OneTaskPerIncident, Elsewhere, Routed, alerts
<1>2. ASSUME NEW s \in Server, NEW p \in Payload, Submits(s, p) PROVE IntakeInv'
  <2>1. request'[s] \in Requests /\ request'[s].at = "find" /\ s \in up
        /\ \A u \in Server \ {s} : request'[u] = request[u]
    BY <1>2 DEF Submits, At, IntakeInv, TypeOK, Requests
  <2>2. TypeOK'
    BY <1>2, <2>1 DEF Submits, IntakeInv, TypeOK, alerts, Events
  <2>. QED
    BY <1>2, <2>1, <2>2 DEF Submits, IntakeInv, Served, Held, FoundNone,
                            OneTaskPerIncident, Elsewhere, Routed, alerts
<1>3. ASSUME NEW s \in Server, KeepsHistory(s) PROVE IntakeInv'
  <2>1. request[s] \in [at : {"history", "attach"}, payload : Payload,
                        event : BOOLEAN, task : Tasks]
        /\ request[s].task \in tasks /\ s \in up
    BY <1>3, RequestKinds DEF KeepsHistory, At, IntakeInv, Held
  <2>2. request'[s] \in Requests /\ request'[s].at = "attach" /\ request'[s].task \in tasks
        /\ \A u \in Server \ {s} : request'[u] = request[u]
    BY <1>3, <2>1 DEF KeepsHistory, IntakeInv, TypeOK, Requests
  <2>3. TypeOK'
    BY <1>3, <2>1, <2>2 DEF KeepsHistory, IntakeInv, TypeOK, Events
  <2>. QED
    BY <1>3, <2>1, <2>2, <2>3 DEF KeepsHistory, IntakeInv, Served, Held, FoundNone,
                                  OneTaskPerIncident, Elsewhere, Routed
<1>4. ASSUME NEW s \in Server, Answers(s) PROVE IntakeInv'
  <2>1. EventsOK'
    BY <1>4, EventsAnswered DEF IntakeInv
  <2>2. request'[s] = Free /\ s \in up /\ Free \in Requests
        /\ \A u \in Server \ {s} : request'[u] = request[u]
    BY <1>4 DEF Answers, At, IntakeInv, TypeOK, Requests
  <2>3. TypeOK'
    BY <1>4, <2>1, <2>2 DEF Answers, IntakeInv, TypeOK, EventsOK
  <2>. QED
    BY <1>4, <2>2, <2>3 DEF Answers, IntakeInv, Served, Held, FoundNone,
                            OneTaskPerIncident, Elsewhere, Routed, Free
<1>5. ASSUME NEW s \in Server, Crash(s) PROVE IntakeInv'
  <2>1. request'[s] = Free /\ Free \in Requests
        /\ \A u \in Server \ {s} : request'[u] = request[u]
    BY <1>5 DEF Crash, IntakeInv, TypeOK, Requests
  <2>2. TypeOK'
    BY <1>5, <2>1, IntakeAssumption DEF Crash, IntakeInv, TypeOK, alerts, Events
  <2>. QED
    BY <1>5, <2>1, <2>2 DEF Crash, IntakeInv, Served, Held, FoundNone,
                            OneTaskPerIncident, Elsewhere, Routed, alerts, Free
<1>6. ASSUME NEW s \in Server, Restart(s) PROVE IntakeInv'
  BY <1>6 DEF Restart, IntakeInv, TypeOK, Served, Held, FoundNone,
              OneTaskPerIncident, Elsewhere, Routed, alerts, Events
<1>7. CASE Reconfigure
  <2>1. \A s \in Server : request[s] = Free /\ request'[s] = Free
    BY <1>7 DEF Reconfigure, IntakeInv, Served
  <2>2. TypeOK'
    BY <1>7 DEF Reconfigure, IntakeInv, TypeOK, alerts, Events
  <2>. QED
    BY <1>7, <2>1, <2>2 DEF Reconfigure, IntakeInv, Served, Held, FoundNone,
                            OneTaskPerIncident, alerts, Free
<1>8. CASE UNCHANGED vars
  BY <1>8 DEF vars, alerts, IntakeInv, TypeOK, Served, Held, FoundNone,
              OneTaskPerIncident, Elsewhere, Routed, Events
<1>. QED
  BY <1>1, <1>2, <1>3, <1>4, <1>5, <1>6, <1>7, <1>8 DEF Next, Serves

-----------------------------------------------------------------------------
(* The theorems                                                            *)

\* The strengthening is inductive: what every request in progress relies on
\* survives every step of every process, crashes and changes of the
\* configuration included.
THEOREM IntakeInvariant == Spec => []IntakeInv
<1>1. IntakeInv /\ [Next]_vars => IntakeInv'
  BY RecordsNext, FindsNext, CreatesNext, OtherNext
<1>. QED
  BY IntakeInit, <1>1, PTL DEF Spec

\* Type correctness of the intake: an event is stored once, a duplicate refers
\* to an event of its group, and history and events name tasks that exist.
THEOREM IntakeTypes == Spec => []TypeOK
<1>1. IntakeInv => TypeOK
  BY DEF IntakeInv
<1>. QED
  BY IntakeInvariant, <1>1, PTL

\* For any number of processes, alerts and applications, whatever they
\* interleave, die or repeat, TaskCatalog.create makes one task of an alert in
\* an application, and one of an alert about a repository unless the repository
\* has moved from one application to another.
THEOREM IncidentHasOneTask == Spec => []OneTaskPerIncident
<1>1. IntakeInv => OneTaskPerIncident
  BY DEF IntakeInv
<1>. QED
  BY IntakeInvariant, <1>1, PTL
=============================================================================
