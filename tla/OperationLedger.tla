--------------------------- MODULE OperationLedger ---------------------------
(***************************************************************************)
(* The ledger that bounds how often a task may replay an external effect   *)
(* (src/src/operations.py) and the context manager that runs an effect     *)
(* under it (WorkflowEngine._operation, src/src/workflow.py).              *)
(*                                                                         *)
(* One namespace (one task).  A key is an operation at a revision.  The    *)
(* runners are the executions that may be working on the task; they are    *)
(* more than one when a lease was lost while its owner was stalled.  Every *)
(* begin and finish is one IMMEDIATE transaction, hence one step.          *)
(***************************************************************************)
EXTENDS Naturals, Sequences

CONSTANTS
  Op,           \* the keys <<operation, revision>> the task may run
  Runner,       \* executions of the task
  MaxAttempts,  \* per key: config.model.max_task_iterations
  OverallCap    \* per task: twice that

ASSUME BudgetAssumption ==
  /\ MaxAttempts \in Nat \ {0}
  /\ OverallCap \in Nat \ {0}

VARIABLES
  current,  \* operation_current: the latest attempt of each key
  budget,   \* operation_budgets: attempts charged to the task
  journal,  \* operation_history, in insertion order
  runner,   \* what each execution holds in memory
  blocked,  \* the task was moved to BLOCKED by an exhausted budget
  effects,  \* ghost: the intents whose external effect was started, in order
  overlap   \* ghost: two executions ran an operation at the same time

vars == <<current, budget, journal, runner, blocked, effects, overlap>>

Status == {"none", "started", "succeeded", "failed"}

Absent == [status |-> "none", attempts |-> 0, intent |-> 0]

\* A runner is idle, about to start the effect it charged, past it, or has
\* adopted an interrupted attempt to reconcile it without a new effect.
Modes == {"charged", "performed", "reconciling"}
Idle == [mode |-> "idle"]
Held == [mode : Modes, op : Op, intent : Nat]

Row(o, rec, event) ==
  [op |-> o, attempts |-> rec.attempts, intent |-> rec.intent, event |-> event]

Init ==
  /\ current = [o \in Op |-> Absent]
  /\ budget = 0
  /\ journal = <<>>
  /\ runner = [r \in Runner |-> Idle]
  /\ blocked = FALSE
  /\ effects = <<>>
  /\ overlap = FALSE

-----------------------------------------------------------------------------
Exhausted(o) == budget >= OverallCap \/ current[o].attempts >= MaxAttempts

\* begin(reuse_success=True) on a succeeded key returns it; nothing is charged
\* and no effect follows, so it only matters as a precondition of the others.
Reusable(o, reuse) == reuse /\ current[o].status = "succeeded"

\* Mutation: a settled attempt is resumed too.
ResumableSettled(o, reconcile) == reconcile /\ current[o].status # "none"
Resumable(o, reconcile) == reconcile /\ current[o].status = "started"

\* Mutation: a failure starts the count of its key again.
NextAttemptReset(o) ==
  [status |-> "started",
   attempts |-> IF current[o].status = "failed" THEN 1 ELSE current[o].attempts + 1,
   intent |-> budget + 1]
\* uuid4 intents are modelled by the serial number of the charge.
NextAttempt(o) ==
  [status |-> "started", attempts |-> current[o].attempts + 1, intent |-> budget + 1]

Overlaps(r) == overlap \/ \E s \in Runner \ {r} : runner[s] # Idle

\* A new attempt: charge the task, overwrite the current row, journal it.
Begin(r, o, reconcile, reuse) ==
  /\ runner[r] = Idle
  /\ ~Reusable(o, reuse)
  /\ ~Resumable(o, reconcile)
  /\ ~Exhausted(o)
  /\ LET rec == NextAttempt(o) IN
       /\ current' = [current EXCEPT ![o] = rec]
       /\ journal' = Append(journal, Row(o, rec, "started"))
       /\ runner' = [runner EXCEPT ![r] =
                       [mode |-> "charged", op |-> o, intent |-> rec.intent]]
  /\ budget' = budget + 1
  /\ UNCHANGED <<blocked, effects>>
  /\ overlap' = Overlaps(r)

\* Mutation: the interrupted attempt is run again on its old charge.
ResumedCharged(o) == [mode |-> "charged", op |-> o, intent |-> current[o].intent]
Resumed(o) == [mode |-> "reconciling", op |-> o, intent |-> current[o].intent]

\* begin(reconcile=True) hands back the interrupted attempt, uncharged.
BeginReconcile(r, o) ==
  /\ runner[r] = Idle
  /\ Resumable(o, TRUE)
  /\ runner' = [runner EXCEPT ![r] = Resumed(o)]
  /\ overlap' = Overlaps(r)
  /\ UNCHANGED <<current, budget, journal, blocked, effects>>

\* OperationBudgetExceeded: _operation moves the task to BLOCKED and raises.
BeginRefused(r, o, reconcile, reuse) ==
  /\ runner[r] = Idle
  /\ ~Reusable(o, reuse)
  /\ ~Resumable(o, reconcile)
  /\ Exhausted(o)
  /\ blocked' = TRUE
  /\ UNCHANGED <<current, budget, journal, runner, effects, overlap>>

\* The body of the context manager reaches the outside world.
Perform(r) ==
  /\ runner[r].mode = "charged"
  /\ effects' = Append(effects, runner[r].intent)
  /\ runner' = [runner EXCEPT ![r].mode = "performed"]
  /\ UNCHANGED <<current, budget, journal, blocked, overlap>>

\* Mutation: the row keeps the status it had before the update.
SettledRowBefore(o, status) == Row(o, current[o], current[o].status)
SettledRow(o, status) == Row(o, current[o], status)

\* finish() addresses the current row by key, not by the intent the caller
\* began: it settles whatever attempt the row now holds.  A runner that fails
\* before its effect (mode "charged") can only settle it as failed.
Finish(r, succeeded) ==
  /\ runner[r].mode \in Modes
  /\ succeeded => runner[r].mode # "charged"
  /\ LET o == runner[r].op
         status == IF succeeded THEN "succeeded" ELSE "failed"
     IN /\ current[o].status # "none"
        /\ current' = [current EXCEPT ![o].status = status]
        /\ journal' = Append(journal, SettledRow(o, status))
  /\ runner' = [runner EXCEPT ![r] = Idle]
  /\ UNCHANGED <<budget, blocked, effects, overlap>>

\* The process dies, or the execution is cancelled: CancelledError is not an
\* Exception, so no finish runs and the attempt stays "started".
Crash(r) ==
  /\ runner[r].mode \in Modes
  /\ runner' = [runner EXCEPT ![r] = Idle]
  /\ UNCHANGED <<current, budget, journal, blocked, effects, overlap>>

Next ==
  \E r \in Runner :
    \/ \E o \in Op, reconcile, reuse \in BOOLEAN :
         \/ Begin(r, o, reconcile, reuse)
         \/ BeginRefused(r, o, reconcile, reuse)
    \/ \E o \in Op : BeginReconcile(r, o)
    \/ Perform(r)
    \/ \E succeeded \in BOOLEAN : Finish(r, succeeded)
    \/ Crash(r)

Spec == Init /\ [][Next]_vars

-----------------------------------------------------------------------------
TypeOK ==
  /\ current \in [Op -> [status : Status, attempts : 0..MaxAttempts,
                         intent : 0..OverallCap]]
  /\ budget \in 0..OverallCap
  /\ journal \in Seq([op : Op, attempts : Nat, intent : Nat,
                      event : Status \ {"none"}])
  /\ runner \in [Runner -> Held \union {Idle}]
  /\ blocked \in BOOLEAN
  /\ effects \in Seq(Nat)
  /\ overlap \in BOOLEAN

\* The started effects are distinct intents among those the budget counts.
ChargedOnce ==
  /\ \A i \in 1..Len(effects) : effects[i] \in 1..budget
  /\ \A i, j \in 1..Len(effects) : effects[i] = effects[j] => i = j

\* Neither count goes one past its cap, whoever begins or begins again.
WithinCaps ==
  /\ budget <= OverallCap
  /\ \A o \in Op : current[o].attempts <= MaxAttempts

\* No interleaving of runners, crashes, reconciliations and retries performs an
\* effect that was not charged, or performs one charge twice ("charge every
\* replay, even after a crash", WorkflowEngine._operation), and no order of them
\* takes a key past its attempts or the task past its overall budget: so the
\* world never sees more than OverallCap effects of a task.
EffectsCharged == ChargedOnce /\ WithinCaps

\* The attempts at each key that the journal records are numbered 1, 2, ... up
\* to the count of the current row, with no gap or repeat, and the intents of
\* the started rows are exactly those the task was charged for.  A crash or an
\* overlapping finish never loses or doubles a charge.
StartedRows == {i \in 1..Len(journal) : journal[i].event = "started"}
ChargesReconcile ==
  /\ {journal[i].intent : i \in StartedRows} = 1..budget
  /\ \A i, j \in StartedRows : i # j =>
       /\ journal[i].intent # journal[j].intent
       /\ journal[i].op = journal[j].op => journal[i].attempts # journal[j].attempts
  /\ \A o \in Op :
       {journal[i].attempts : i \in {k \in StartedRows : journal[k].op = o}}
         = 1..current[o].attempts

\* Recovery reads the current rows, operators read the journal: they must tell
\* the same story, so the last row journalled for a key has the status and the
\* attempt of the current row.
JournalAgrees ==
  \A o \in Op :
    LET rows == {i \in 1..Len(journal) : journal[i].op = o} IN
    IF rows = {} THEN current[o] = Absent
    ELSE \E last \in rows :
           /\ \A i \in rows : i <= last
           /\ journal[last].event = current[o].status
           /\ journal[last].attempts = current[o].attempts
           /\ journal[last].intent = current[o].intent

\* A runner about to settle its key still finds its own attempt there, in the
\* history of crashes and retries of executions that excluded each other.
\* finish() itself does not check the intent, so this is what it needs from
\* the task lease.
SettlesOwnAttempt ==
  ~overlap =>
    \A r \in Runner :
      runner[r].mode \in Modes =>
        /\ current[runner[r].op].intent = runner[r].intent
        /\ current[runner[r].op].status = "started"
=============================================================================
