------------------------------- MODULE Runtime -------------------------------
(* The protocols around runtime.sqlite3 and its directory that share no state:
   a task's session, the take-over of older files, bundles, deliveries and
   tools.  A behaviour is a behaviour of one of them; the others stand still. *)
EXTENDS AgentSession

CONSTANTS
  Process, Situations, MaxStarts, MaxWork,
  Operator, Version, HistoryLimit, MaxCommands, MaxDamage,
  Request, Delivery, WindowLength, MaxRequests, MaxRestarts,
  Run, Local, Retryable, Extension, Retries, MaxCalls, MaxCuts

VARIABLES
  protocol,
  source, db, writer, draft, at, found, starts, began,
  content, bundles, history, marker, temporary, command, past, commands, cut,
  window, names, request, handled, forgotten, requests,
  file, lock, policy, call, place, manifests, loaded, outcomes, cuts

migration == <<source, db, writer, draft, at, found, starts, began>>
selection == <<content, bundles, history, marker, temporary, command, past, commands, cut>>
hooks == <<window, names, request, handled, forgotten, requests>>
toolbox == <<file, lock, policy, call, place, manifests, loaded, outcomes, cuts>>

M == INSTANCE Migration
B == INSTANCE Bundles WITH spent <- commands
D == INSTANCE Deliveries WITH spent <- requests
T == INSTANCE AgentTools WITH spent <- cuts

\* Limits are numbers, and a window holds something; the name for nobody is not
\* in use; of what may be found only the database that is used now can be one
\* of an earlier version, and that one can be read.
ASSUME RuntimeAssumption ==
  /\ MaxWork \in Nat /\ HistoryLimit \in Nat /\ WindowLength \in Nat \ {0}
  /\ "nobody" \notin Process \cup Run
  /\ \A s \in Situations :
       /\ s \in [M!Sources -> {"absent", "good", "bad", "old"}]
       /\ \A f \in M!Sources : s[f] = "old" => f = "runtime.sqlite3"
       /\ s["runtime.sqlite3"] \in {"absent", "old"}

RuntimeInit ==
  /\ protocol \in {"session", "migration", "bundles", "deliveries", "tools"}
  /\ Init /\ M!Init /\ B!Init /\ D!Init /\ T!Init
  /\ protocol # "migration" => \A f \in M!Sources : source[f] = "absent"
  /\ protocol # "bundles" => \A v \in Version : bundles[v] = "absent"

RuntimeNext ==
  /\ UNCHANGED protocol
  /\ IF protocol = "session" THEN Next ELSE UNCHANGED vars
  /\ IF protocol = "migration" THEN M!Next ELSE UNCHANGED migration
  /\ IF protocol = "bundles" THEN B!Next ELSE UNCHANGED selection
  /\ IF protocol = "deliveries" THEN D!Next ELSE UNCHANGED hooks
  /\ IF protocol = "tools" THEN T!Next ELSE UNCHANGED toolbox

RuntimeSpec == RuntimeInit /\ [][RuntimeNext]_<<protocol, vars, migration, selection, hooks, toolbox>>

-----------------------------------------------------------------------------
(* Properties                                                              *)

\* The type invariants of the five protocols.
TypesOK == TypeOK /\ M!TypeOK /\ B!TypeOK /\ D!TypeOK /\ T!TypeOK

\* Migration: every older file is taken over once and whole, and an interrupted
\* upgrade of the table of workspaces loses none.
ImportedOnce == M!ImportedOnce /\ M!WorkspacesKept
\* Migration: no import sets a committed record back.
RecordsStand == M!RecordsStand
\* Bundles: a rollback goes to what was active last before.
RollbackGoesBack == B!RollbackGoesBack
\* Deliveries: one process hands a delivery on once.
HandedOnOnce == D!HandedOnOnce
\* AgentTools: runs that share tools lose no recorded outcome, and what a run
\* can call was installed as a whole.
ToolsShared == T!OutcomesCounted /\ T!LoadedIsWhole
=============================================================================
