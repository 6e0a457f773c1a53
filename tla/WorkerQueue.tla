----------------------------- MODULE WorkerQueue -----------------------------
(***************************************************************************)
(* The scheduler of one worker process: WorkflowEngine.wake, run_worker,   *)
(* run_one, recover and stop (src/src/workflow.py).                        *)
(*                                                                         *)
(* asyncio runs one coroutine at a time, so code between two suspension    *)
(* points is one step.  The catalog is durable and shared: events may      *)
(* reach it through another process (serve --no-worker), which has no way  *)
(* to wake this one.  What a run of a task does is the concern of          *)
(* TaskWorkflow; here it only moves the task between the classes the       *)
(* scheduler distinguishes.                                                *)
(***************************************************************************)
EXTENDS Naturals, Sequences, FiniteSets

CONSTANTS
  Task,
  MaxConcurrent  \* config.max_concurrent_tasks

ASSUME ConcurrencyAssumption == MaxConcurrent \in Nat \ {0}

VARIABLES
  work,      \* durable: the class of each task's lifecycle state
  comments,  \* durable: tasks with pending review comments
  queue,     \* _wakeups
  queued,    \* _queued_task_ids
  running,   \* _running_task_ids
  deferred,  \* _deferred_wakeups
  semq,      \* jobs waiting for the semaphore, in arrival order
  job,       \* where the run_one coroutine of each task is
  loop,      \* where run_worker is
  todo,      \* the rows recover() listed and has not looked at yet
  due,       \* the poll interval has elapsed
  stopping,
  doubled    \* ghost: tasks that got a second job beside a live one

memory == <<queue, queued, running, deferred, semq, job, doubled>>
vars == <<work, comments, memory, loop, todo, due, stopping>>

\* "new" is not yet submitted; ACTIVE_STATES; the two waiting states; terminal.
Work == {"new", "active", "deploy_wait", "review_wait", "over"}
Listed == {"active", "deploy_wait", "review_wait"}
Loop == {"down", "boot", "recover", "top", "get", "exited", "failed"}

\* No job; waiting for the semaphore; inside process(); back from it with a
\* record in an active state or not, or with an exception, before its finally.
Returned == {"active", "inactive", "raised"}
Jobs == {"none", "waiting", "inside"} \union Returned

Init ==
  /\ work \in [Task -> {"new", "active", "deploy_wait", "review_wait"}]
  /\ comments = {}
  /\ queue = <<>> /\ queued = {} /\ running = {} /\ deferred = {}
  /\ semq = <<>>
  /\ job = [t \in Task |-> "none"]
  /\ loop = "down"
  /\ todo = {}
  /\ due = FALSE
  /\ stopping = FALSE
  /\ doubled = {}

Alive == loop # "down"
Recovering == loop \in {"boot", "recover"}
Up == (Recovering \/ loop \in {"top", "get"}) /\ ~stopping

-----------------------------------------------------------------------------
(* wake(): three branches, given the memory the caller has already changed *)
\* Mutation: enqueue a running task.
WakeWhileRunning(t, run, def) ==
  /\ deferred' = def
  /\ IF t \in queued
     THEN UNCHANGED <<queue, queued>>
     ELSE queued' = queued \union {t} /\ queue' = Append(queue, t)
Wake(t, run, def) ==
  IF t \in run
  THEN deferred' = def \union {t} /\ UNCHANGED <<queue, queued>>
  ELSE /\ deferred' = def
       /\ IF t \in queued
          THEN UNCHANGED <<queue, queued>>
          ELSE queued' = queued \union {t} /\ queue' = Append(queue, t)

\* An event changes the catalog and, in this process, wakes the worker:
\* submit and release_triage (to active), a deployment, a conflict recovery that
\* takes a task in review back to work, or a review comment (see TaskWorkflow
\* and ConflictRecovery for the exact guards).  "here" is FALSE when the event
\* came through another process, or when this one died in between.
WakingEvent(t, here) ==
  /\ \/ /\ work[t] \in {"new", "deploy_wait", "review_wait", "over"}
        /\ work' = [work EXCEPT ![t] = "active"]
        /\ UNCHANGED comments
     \/ /\ work[t] \in Listed
        /\ comments' = comments \union {t}
        /\ UNCHANGED work
  /\ IF here THEN Alive /\ Wake(t, running, deferred)
             ELSE UNCHANGED <<queue, queued, deferred>>
  /\ UNCHANGED <<running, semq, job, doubled, loop, todo, due, stopping>>

\* cancel and a merge only write the catalog.
ClosingEvent(t) ==
  /\ work[t] \in Listed
  /\ work' = [work EXCEPT ![t] = "over"]
  /\ UNCHANGED <<comments, memory, loop, todo, due, stopping>>

-----------------------------------------------------------------------------
(* recover(): list the catalog once, then look at the rows one by one.     *)
(* Resuming a merge intent suspends it between two rows.  It runs once     *)
(* before the loop ("boot") and then whenever the poll interval is over.   *)
Runnable(t) ==
  \/ work[t] = "active"
  \/ work[t] = "review_wait" /\ t \in comments

\* Mutation: the poll only looks at waiting tasks.
RowsWaiting == {[task |-> t, runnable |-> Runnable(t)] :
                  t \in {u \in Task : work[u] \in Listed \ {"active"}}}
Rows == {[task |-> t, runnable |-> Runnable(t)] :
           t \in {u \in Task : work[u] \in Listed}}

RecoverRow ==
  /\ Recovering
  /\ \E row \in todo :
       /\ todo' = todo \ {row}
       /\ IF row.runnable /\ row.task \notin running
          THEN Wake(row.task, running, deferred)
          ELSE UNCHANGED <<queue, queued, deferred>>
  /\ UNCHANGED <<work, comments, running, semq, job, doubled, loop, due, stopping>>

RecoverDone ==
  /\ Recovering
  /\ todo = {}
  /\ loop' = IF loop = "boot" THEN "top" ELSE "get"
  /\ due' = FALSE
  /\ UNCHANGED <<work, comments, memory, todo, stopping>>

-----------------------------------------------------------------------------
(* run_worker()                                                            *)
Boot ==
  /\ loop = "down"
  /\ loop' = "boot"
  /\ todo' = Rows
  /\ due' = FALSE
  /\ stopping' = FALSE
  /\ UNCHANGED <<work, comments, memory>>

Tick ==
  /\ loop \in {"top", "get"}
  /\ ~due
  /\ due' = TRUE
  /\ UNCHANGED <<work, comments, memory, loop, todo, stopping>>

LoopTop ==
  /\ loop = "top"
  /\ \/ /\ stopping
        /\ loop' = "exited"
        /\ UNCHANGED <<todo, due>>
     \/ /\ ~stopping /\ due
        /\ loop' = "recover"
        /\ todo' = Rows
        /\ UNCHANGED due
     \/ /\ ~stopping /\ ~due
        /\ loop' = "get"
        /\ UNCHANGED <<todo, due>>
  /\ UNCHANGED <<work, comments, memory, stopping>>

\* A wakeup is taken; if stop() came first it is dropped and the loop ends.
GetWakeup ==
  /\ loop = "get"
  /\ queue # <<>>
  /\ LET t == Head(queue) IN
     /\ queue' = Tail(queue)
     /\ queued' = queued \ {t}
     /\ IF stopping
        THEN loop' = "exited" /\ UNCHANGED <<running, semq, job, doubled>>
        ELSE /\ loop' = "top"
             /\ running' = running \union {t}
             /\ semq' = Append(semq, t)
             /\ job' = [job EXCEPT ![t] = "waiting"]
             /\ doubled' = doubled \union (IF job[t] = "none" THEN {} ELSE {t})
  /\ UNCHANGED <<work, comments, deferred, todo, due, stopping>>

GetTimeout ==
  /\ loop = "get"
  /\ queue = <<>>
  /\ due
  /\ loop' = "top"
  /\ UNCHANGED <<work, comments, memory, todo, due, stopping>>

-----------------------------------------------------------------------------
(* run_one()                                                               *)

\* asyncio.Semaphore hands its permits over in arrival order.
Enter(t) ==
  /\ semq # <<>> /\ Head(semq) = t
  /\ Cardinality({u \in Task : job[u] = "inside"}) < MaxConcurrent
  /\ semq' = Tail(semq)
  /\ job' = [job EXCEPT ![t] = "inside"]
  /\ UNCHANGED <<work, comments, queue, queued, running, deferred, doubled,
                 loop, todo, due, stopping>>

Results(w) == {"raised", IF w = "active" THEN "active" ELSE "inactive"}

\* process(): the lease is held elsewhere and the row is returned as it is; or
\* the run moves the task; or it raises, having moved the task or not.
Leave(t) ==
  /\ job[t] = "inside"
  /\ \/ UNCHANGED <<work, comments>>
     \/ /\ Runnable(t)
        /\ \E w \in {"active", "deploy_wait", "review_wait", "over"} :
             work' = [work EXCEPT ![t] = w]
        /\ comments' \in {comments, comments \ {t}}
  /\ \E result \in Results(work'[t]) :
       job' = [job EXCEPT ![t] = result]
  /\ UNCHANGED <<queue, queued, running, deferred, semq, doubled,
                 loop, todo, due, stopping>>

\* Mutation: only the outcome of the run decides.
ReplayActive(t) == ~stopping /\ job[t] = "active"
Replay(t) == ~stopping /\ (t \in deferred \/ job[t] = "active")

Settled(t) == deferred \ {t}

\* The finally clause runs without a suspension up to the end of wake().  It
\* decides on the record process() returned, which may be out of date by now.
JobEnds(t) ==
  /\ job[t] \in Returned
  /\ job' = [job EXCEPT ![t] = "none"]
  /\ running' = running \ {t}
  /\ IF Replay(t)
     THEN Wake(t, running', Settled(t))
     ELSE deferred' = Settled(t) /\ UNCHANGED <<queue, queued>>
  /\ UNCHANGED <<work, comments, semq, doubled, loop, todo, due, stopping>>

-----------------------------------------------------------------------------
\* recover() or the conflict poll raises: run_worker cancels every job, awaits
\* their finally clauses and ends; the process lives on without a worker.
LoopFails ==
  /\ Recovering \/ loop = "top"
  /\ loop' = "failed"
  /\ todo' = {}
  /\ job' = [t \in Task |-> IF job[t] \in {"waiting", "inside"} THEN "raised" ELSE job[t]]
  /\ semq' = <<>>
  /\ UNCHANGED <<work, comments, queue, queued, running, deferred, doubled,
                 due, stopping>>

Stop ==
  /\ Alive /\ ~stopping
  /\ stopping' = TRUE
  /\ UNCHANGED <<work, comments, memory, loop, todo, due>>

\* The process dies, or is restarted by systemd.
Crash ==
  /\ Alive
  /\ queue' = <<>> /\ queued' = {} /\ running' = {} /\ deferred' = {}
  /\ semq' = <<>>
  /\ job' = [t \in Task |-> "none"]
  /\ todo' = {}
  /\ due' = FALSE
  /\ loop' = "down"
  /\ stopping' = FALSE
  /\ UNCHANGED <<work, comments, doubled>>

Next ==
  \/ \E t \in Task :
       \/ \E here \in BOOLEAN : WakingEvent(t, here)
       \/ ClosingEvent(t)
       \/ Enter(t) \/ Leave(t) \/ JobEnds(t)
  \/ RecoverRow \/ RecoverDone
  \/ Boot \/ Tick \/ LoopTop \/ GetWakeup \/ GetTimeout
  \/ LoopFails \/ Stop \/ Crash

\* The event loop runs every ready coroutine and every elapsed timer, a run of
\* a task ends (model turns and tools carry timeouts); systemd boots a process
\* again.  Nothing is assumed of events, of stop or of crashes.
Fairness ==
  /\ WF_vars(RecoverRow) /\ WF_vars(RecoverDone)
  /\ WF_vars(Boot) /\ WF_vars(Tick) /\ WF_vars(LoopTop)
  /\ WF_vars(GetWakeup) /\ WF_vars(GetTimeout)
  /\ \A t \in Task : WF_vars(Enter(t)) /\ WF_vars(Leave(t)) /\ WF_vars(JobEnds(t))

Spec == Init /\ [][Next]_vars
FairSpec == Spec /\ Fairness

-----------------------------------------------------------------------------
InSeq(q) == {q[i] : i \in 1..Len(q)}
Unique(q) == \A i, j \in 1..Len(q) : q[i] = q[j] => i = j

TypeOK ==
  /\ work \in [Task -> Work]
  /\ comments \in SUBSET Task
  /\ queue \in Seq(Task) /\ semq \in Seq(Task)
  /\ queued \in SUBSET Task /\ running \in SUBSET Task
  /\ deferred \in SUBSET Task /\ doubled \in SUBSET Task
  /\ job \in [Task -> Jobs]
  /\ loop \in Loop
  /\ todo \in SUBSET [task : Task, runnable : BOOLEAN]
  /\ due \in BOOLEAN /\ stopping \in BOOLEAN

\* The dedup set never drifts from the queue it guards.  A task left in
\* _queued_task_ids but not in the queue could never be woken again; one in
\* the queue twice would be run twice.
QueueMatchesSet == InSeq(queue) = queued /\ Unique(queue)

\* One run at a time per task in a process, and none for a queued task: every
\* job belongs to a task marked as running, and a wakeup is deferred only
\* behind the job that will replay it, whatever the order of wakeups, recovery
\* polls, completions and failures.
OneJobPerTask ==
  /\ doubled = {}
  /\ \A t \in Task : t \in running <=> job[t] # "none"
  /\ running \cap queued = {}
  /\ deferred \subseteq running

\* While the worker is up, a task it can advance is eventually run, including
\* intake and review comments committed by another process without a wakeup.
ActiveIsRun ==
  \A t \in Task : (Runnable(t) /\ Up) ~> (job[t] = "inside" \/ ~Runnable(t) \/ ~Up)

\* A wakeup that arrives during a run is followed by another run, even if the
\* run it interrupted ends in a waiting state.
DeferredIsReplayed ==
  \A t \in Task :
    (t \in deferred /\ Up) ~> (t \in queued \/ ~Up)

\* The refinement of TaskScheduling.
Phase(t) ==
  CASE t \in deferred -> "rerun"
    [] t \in running \ deferred -> "running"
    [] t \in queued -> "pending"
    [] OTHER -> "idle"

Scheduling == INSTANCE TaskScheduling
  WITH phase <- [t \in Task |-> Phase(t)], up <- Up

Schedules == Scheduling!Spec
=============================================================================
