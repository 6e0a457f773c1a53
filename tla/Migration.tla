------------------------------ MODULE Migration ------------------------------
(***************************************************************************)
(* How runtime.sqlite3 takes over what older versions left: Storage's      *)
(* constructor and FileSession's (src/src/storage.py, file_session.py),    *)
(* with TaskCatalog's (src/src/task_catalog.py) over the transactions of   *)
(* src/src/sqlite_store.py.  Several processes may start at once; one may  *)
(* die anywhere, or stop at a source that it cannot read.                  *)
(*                                                                         *)
(* A transaction works on a draft of the database that others do not see   *)
(* and that dies with it; BEGIN IMMEDIATE lets in one writer.              *)
(***************************************************************************)
EXTENDS Naturals, FiniteSets

CONSTANTS
  Process,     \* the processes that open the runtime directory
  Situations,  \* what may be found there: a status of each of Sources
  MaxStarts,   \* bound on starts
  MaxWork      \* bound on changes of a task's record

Kinds == {"messages", "history"}   \* and observability, which is like them
Sources == Kinds \cup {"sessions.sqlite3", "tasks.json", "tasks.sqlite3", "runtime.sqlite3"}

\* Which tasks are where.  c was removed when the catalog was tasks.json; b is
\* known by its snapshot alone.
Task == {"a", "b", "c"}
InJson == {"a"}
InLegacy == {"a", "c"}
Snapshots == {"a", "b"}

VARIABLES
  source,   \* absent, good or bad: the files of the older versions
  db,       \* runtime.sqlite3 as committed
  writer,   \* the process whose write transaction is open
  draft,    \* the database as that transaction sees it
  at,       \* where the constructor of each process is
  found,    \* what it has read, or which snapshots it has been through
  starts,   \* starts so far
  began     \* ghost: the database as it was at first

vars == <<source, db, writer, draft, at, found, starts, began>>

Nobody == "nobody"
Table(form, rows) == [form |-> form, rows |-> rows, aside |-> {}]

Init ==
  /\ source \in Situations
  /\ IF source["runtime.sqlite3"] = "old"
     THEN \* an earlier version of the catalog in the same file: its table of
          \* workspaces has no repository
          db = [marked |-> {"catalog"} \cup Kinds, rows |-> [k \in Kinds \cup {"sdk"} |-> 0],
                tasks |-> [t \in Task |-> IF t = "a" THEN 1 ELSE 0],
                workspaces |-> Table("old", {"a"})]
     ELSE db = [marked |-> {}, rows |-> [k \in Kinds \cup {"sdk"} |-> 0],
                tasks |-> [t \in Task |-> 0], workspaces |-> Table("absent", {})]
  /\ draft = db /\ writer = Nobody /\ began = db
  /\ at = [p \in Process |-> "down"]
  /\ found = [p \in Process |-> {}]
  /\ starts = 0

Goes(p, to) == at' = [at EXCEPT ![p] = to]
Idle == UNCHANGED <<source, starts, began>>

\* connect(): it waits 30 seconds for the writer.
Opens(p, from, to) ==
  /\ at[p] = from /\ writer = Nobody
  /\ writer' = p /\ draft' = db /\ Goes(p, to)
  /\ UNCHANGED <<db, found>> /\ Idle

Statement(p, value, to) ==
  /\ draft' = value /\ Goes(p, to)
  /\ UNCHANGED <<db, writer, found>> /\ Idle

Commits(value) == db' = value /\ draft' = value /\ writer' = Nobody

\* An exception rolls back, and so does death.
Stops(p) ==
  /\ Goes(p, "down")
  /\ found' = [found EXCEPT ![p] = {}]
  /\ IF writer = p THEN draft' = db /\ writer' = Nobody ELSE UNCHANGED <<draft, writer>>
  /\ UNCHANGED db /\ Idle

Start(p) ==
  /\ at[p] = "down" /\ starts < MaxStarts
  /\ starts' = starts + 1 /\ Goes(p, "sessions")
  /\ UNCHANGED <<source, db, writer, draft, found, began>>

Die(p) == at[p] # "down" /\ Stops(p)

\* The operator repairs the file that a start refused.
Repair(s) ==
  /\ source[s] = "bad"
  /\ source' = [source EXCEPT ![s] = "good"]
  /\ UNCHANGED <<db, writer, draft, at, found, starts, began>>

-----------------------------------------------------------------------------
(* Conversations: _migrate_session_rows() and FileSession                  *)

\* A snapshot in JSON wins over the database of the version before it.
Origin(json, legacy) == IF source[json] # "absent" THEN source[json] ELSE source[legacy]

Imported(d, k, status) ==
  [d EXCEPT !.marked = @ \cup {k}, !.rows[k] = @ + (IF status = "good" THEN 1 ELSE 0)]

\* Mutation: whether a kind was imported is not asked.
DueAlways(k) == TRUE
Due(k) == k \notin draft.marked

\* All kinds are imported in one transaction.
ImportRows(p, k) ==
  /\ at[p] = "rows" /\ k \notin found[p]
  /\ found' = [found EXCEPT ![p] = @ \cup {k}]
  /\ ~Due(k) \/ Origin(k, "sessions.sqlite3") # "bad"
  /\ draft' = IF Due(k) THEN Imported(draft, k, Origin(k, "sessions.sqlite3")) ELSE draft
  /\ UNCHANGED <<db, writer, at>> /\ Idle

RowsUnreadable(p) ==
  /\ at[p] = "rows"
  /\ \E k \in Kinds : Due(k) /\ Origin(k, "sessions.sqlite3") = "bad"
  /\ Stops(p)

RowsImported(p) ==
  /\ at[p] = "rows" /\ found[p] = Kinds
  /\ Commits(draft) /\ Goes(p, "schema")
  /\ found' = [found EXCEPT ![p] = {}]
  /\ Idle

\* The items of one conversation are taken over when it is first opened.
OpenSession(p) ==
  /\ at[p] = "ready" /\ writer = Nobody /\ "sdk" \notin db.marked
  /\ source["sessions.sqlite3"] # "bad"
  /\ Commits(Imported(db, "sdk", source["sessions.sqlite3"]))
  /\ UNCHANGED <<at, found>> /\ Idle

-----------------------------------------------------------------------------
(* The catalog: TaskCatalog's constructor                                  *)

\* The schema is created first, in no transaction: what exists stays.
CreateSchema(p) ==
  /\ at[p] = "schema" /\ writer = Nobody
  /\ Commits(IF db.workspaces.form = "absent"
             THEN [db EXCEPT !.workspaces = [@ EXCEPT !.form = "new"]] ELSE db)
  /\ Goes(p, "columns")
  /\ UNCHANGED found /\ Idle

Workspaces(p, from, form, rows, aside, to) ==
  /\ at[p] = from
  /\ Statement(p, [draft EXCEPT !.workspaces = [form |-> form, rows |-> rows, aside |-> aside]], to)

\* _ensure_workspace_schema(), statement by statement.
Upgraded(p) ==
  /\ at[p] = "upgrade" /\ draft.workspaces.form = "new"
  /\ Commits(draft) /\ Goes(p, "json")
  /\ UNCHANGED found /\ Idle
Upgrade(p) ==
  LET table == draft.workspaces IN
  \/ table.form = "old" /\ Workspaces(p, "upgrade", "absent", {}, table.rows, "renamed")
  \/ Workspaces(p, "renamed", "new", {}, table.aside, "created")
  \/ Workspaces(p, "created", "new", table.aside, table.aside, "copied")
  \/ Workspaces(p, "copied", "new", table.rows, {}, "upgrade")

\* _migrate_json() and _migrate_legacy() ask for the marker and read the file
\* before they open the transaction, in which they ask again.
Marked(d) == "catalog" \in d.marked

ReadCatalog(p, from, file, tasks, to) ==
  /\ at[p] = from /\ ~Marked(db) /\ source[file] = "good"
  /\ found' = [found EXCEPT ![p] = tasks]
  /\ Goes(p, to)
  /\ UNCHANGED <<db, writer, draft>> /\ Idle

CatalogUnreadable(p, from, file) ==
  /\ at[p] = from /\ ~Marked(db) /\ source[file] = "bad"
  /\ Stops(p)

\* Without tasks.json the marker is left to _migrate_legacy(), which sets it
\* whether there is an older database or not.
JsonDone(p) ==
  /\ at[p] = "json"
  /\ Marked(db) \/ source["tasks.json"] = "absent"
  /\ Goes(p, "legacy")
  /\ UNCHANGED <<db, writer, draft, found>> /\ Idle
LegacyDone(p) ==
  /\ at[p] = "legacy" /\ Marked(db)
  /\ Goes(p, "snapshots") /\ found' = [found EXCEPT ![p] = {}]
  /\ UNCHANGED <<db, writer, draft>> /\ Idle
NoLegacy(p) ==
  /\ at[p] = "legacy" /\ ~Marked(db) /\ source["tasks.sqlite3"] = "absent"
  /\ Goes(p, "legacy_import")
  /\ UNCHANGED <<db, writer, draft, found>> /\ Idle

WithTasks(d, tasks) ==
  [d EXCEPT !.tasks = [t \in Task |-> IF t \in tasks THEN 1 ELSE @[t]],
            !.workspaces.rows = @ \cup tasks,
            !.marked = @ \cup {"catalog"}]

ImportCatalog(p, from, to) ==
  /\ at[p] = from /\ writer = Nobody
  /\ Commits(IF Marked(db) THEN db ELSE WithTasks(db, found[p]))
  /\ found' = [found EXCEPT ![p] = {}]
  /\ Goes(p, to) /\ Idle

-----------------------------------------------------------------------------
(* Snapshots of tasks, on every start, and work                            *)

\* TaskCatalog.create() returns the row that is there.
\* Mutation: the snapshot replaces it.
RestoredOver(d, t) == [d EXCEPT !.tasks[t] = 1]
Restored(d, t) == [d EXCEPT !.tasks[t] = IF @ = 0 THEN 1 ELSE @]

ImportSnapshot(p, t) ==
  /\ at[p] = "snapshots" /\ writer = Nobody
  /\ t \in Snapshots \ found[p]
  /\ found' = [found EXCEPT ![p] = @ \cup {t}]
  /\ Commits(Restored(db, t))
  /\ UNCHANGED at /\ Idle

Ready(p) ==
  /\ at[p] = "snapshots" /\ found[p] = Snapshots
  /\ Goes(p, "ready")
  /\ UNCHANGED <<db, writer, draft, found>> /\ Idle

Work(p, t) ==
  /\ at[p] = "ready" /\ writer = Nobody
  /\ db.tasks[t] \in 1 .. MaxWork
  /\ Commits([db EXCEPT !.tasks[t] = @ + 1])
  /\ UNCHANGED <<at, found>> /\ Idle

Next ==
  \/ \E s \in Sources : Repair(s)
  \/ \E p \in Process :
       \/ Start(p) \/ Die(p)
       \/ Opens(p, "sessions", "rows")
       \/ \E k \in Kinds : ImportRows(p, k)
       \/ RowsUnreadable(p) \/ RowsImported(p) \/ OpenSession(p)
       \/ CreateSchema(p) \/ Opens(p, "columns", "upgrade") \/ Upgrade(p) \/ Upgraded(p)
       \/ ReadCatalog(p, "json", "tasks.json", InJson, "json_import")
       \/ CatalogUnreadable(p, "json", "tasks.json")
       \/ JsonDone(p) \/ ImportCatalog(p, "json_import", "legacy")
       \/ ReadCatalog(p, "legacy", "tasks.sqlite3", InLegacy, "legacy_import")
       \/ CatalogUnreadable(p, "legacy", "tasks.sqlite3")
       \/ LegacyDone(p) \/ NoLegacy(p) \/ ImportCatalog(p, "legacy_import", "snapshots")
       \/ \E t \in Task : ImportSnapshot(p, t) \/ Work(p, t)
       \/ Ready(p)

Spec == Init /\ [][Next]_vars

-----------------------------------------------------------------------------
(* Properties                                                              *)

TypeOK ==
  /\ \A s \in Sources : source[s] \in {"absent", "good", "bad", "old"}
  /\ writer \in Process \cup {Nobody}
  /\ \A d \in {db, draft} :
       /\ d.marked \subseteq Kinds \cup {"catalog", "sdk"}
       /\ d.tasks \in [Task -> 0 .. MaxWork + 1]
       /\ d.workspaces.rows \cup d.workspaces.aside \subseteq Task
       /\ d.workspaces.form \in {"absent", "old", "new"}
  /\ \A p \in Process : found[p] \subseteq Task \cup Kinds

Had(k) == Origin(IF k = "sdk" THEN "sessions.sqlite3" ELSE k, "sessions.sqlite3") = "good"

\* However many processes start and wherever they die, every source is taken
\* over once and whole: a marker says so exactly when the rows are there, and
\* a task that tasks.json no longer has does not come back from tasks.sqlite3.
ImportedOnce ==
  /\ \A k \in Kinds \cup {"sdk"} :
       db.rows[k] = IF k \in db.marked \ began.marked /\ Had(k)
                    THEN 1 ELSE 0
  /\ Marked(db) => \A t \in InJson :
       source["tasks.json"] = "good" => db.tasks[t] > 0
  /\ source["tasks.json"] # "absent" => db.tasks["c"] = 0

\* A committed record is never set back or lost: not by an import that another
\* process got ahead of, nor by the snapshots that every start goes through.
RecordsStand == [][\A t \in Task : db'.tasks[t] >= db.tasks[t]]_vars

\* The upgrade of the table of workspaces, interrupted wherever, keeps them.
WorkspacesKept == began.workspaces.rows \subseteq db.workspaces.rows
=============================================================================
