------------------------------ MODULE TaskLease ------------------------------
(***************************************************************************)
(* The durable lease of one task: TaskCatalog.acquire and release          *)
(* (src/src/task_catalog.py) and the runs that hold it                     *)
(* (src/src/workflow.py): process(), which renews it from a heartbeat, and *)
(* the pull request conflict recovery, which never renews it.              *)
(*                                                                         *)
(* The clock is the wall clock all processes read; it does not go back.    *)
(* Every acquire uses a fresh uuid, so an owner is used by one run only.   *)
(***************************************************************************)
EXTENDS Naturals

CONSTANTS
  Owner,     \* one per run
  Renewing,  \* the runs of process(); the others are conflict recoveries
  TTL,       \* max(60, 2 * tool_timeout_seconds + 300)
  Period,    \* TTL / 3, between two heartbeats
  Stall,     \* how late the event loop may run a heartbeat that is due
  FixedTTL,  \* 600, the lease of a conflict recovery
  Work,      \* how long a conflict recovery may take
  Horizon    \* bound on the clock

ASSUME LeaseAssumption ==
  /\ Renewing \subseteq Owner
  /\ TTL \in Nat \ {0} /\ FixedTTL \in Nat \ {0}
  /\ Period \in Nat /\ Stall \in Nat /\ Work \in Nat /\ Horizon \in Nat

VARIABLES
  clock,
  lease,    \* the row of catalog_leases, or Free
  run,      \* where each run is
  started,  \* when it first acquired the lease
  granted,  \* when it last acquired or renewed it
  thread,   \* runs with a call in a worker thread (asyncio.to_thread)
  stray,    \* ghost: runs that wrote while another run held the lease
  late      \* ghost: a run was not prompt

leaseVars == <<clock, lease, run, started, granted, thread, stray, late>>

Free == [owner |-> "none"]
Rows == [owner : Owner, expires : Nat]
Runs == {"idle", "holding", "lost", "over", "crashed"}

LeaseInit ==
  /\ clock = 0
  /\ lease = Free
  /\ run = [o \in Owner |-> "idle"]
  /\ started = [o \in Owner |-> 0]
  /\ granted = [o \in Owner |-> 0]
  /\ thread = {}
  /\ stray = {}
  /\ late = FALSE

Lifetime(o) == IF o \in Renewing THEN TTL ELSE FixedTTL

\* A prompt run acts at the latest this long after its last grant.
Patience(o) == IF o \in Renewing THEN Period + Stall ELSE Work

-----------------------------------------------------------------------------
(* TaskCatalog                                                             *)

\* Mutation: an expired row is compared the wrong way round.
ObtainableAny(o) == lease = Free \/ lease.owner = o \/ lease.expires > clock
Obtainable(o) == lease = Free \/ lease.owner = o \/ lease.expires <= clock

\* INSERT OR REPLACE: the caller takes or renews the row.
Take(o) ==
  /\ lease' = [owner |-> o, expires |-> clock + Lifetime(o)]
  /\ granted' = [granted EXCEPT ![o] = clock]

\* DELETE WHERE owner: a successor's row survives.
Drop(o) == lease' = IF lease # Free /\ lease.owner = o THEN Free ELSE lease

-----------------------------------------------------------------------------
(* Runs                                                                    *)
Start(o) ==
  /\ run[o] = "idle"
  /\ IF Obtainable(o)
     THEN /\ Take(o)
          /\ run' = [run EXCEPT ![o] = "holding"]
          /\ started' = [started EXCEPT ![o] = clock]
     ELSE /\ run' = [run EXCEPT ![o] = "over"]
          /\ UNCHANGED <<lease, granted, started>>
  /\ UNCHANGED <<clock, thread, stray, late>>

\* The heartbeat renews the lease, also when it expired and nobody took it.
\* If somebody did, it raises; the work goes on until process() is resumed.
Heartbeat(o) ==
  /\ o \in Renewing
  /\ run[o] = "holding"
  /\ clock >= granted[o] + Period
  /\ IF Obtainable(o)
     THEN Take(o) /\ UNCHANGED run
     ELSE run' = [run EXCEPT ![o] = "lost"] /\ UNCHANGED <<lease, granted>>
  /\ UNCHANGED <<clock, started, thread, stray, late>>

\* Work moves to a worker thread, for instance to clone the repository.
Delegate(o) ==
  /\ o \in Renewing
  /\ run[o] \in {"holding", "lost"}
  /\ thread' = thread \union {o}
  /\ UNCHANGED <<clock, lease, run, started, granted, stray, late>>

\* The task's record is written from the event loop, or by the last statement
\* of the thread (create_worktree's save_task).  Neither looks at the lease.
Write(o) ==
  /\ \/ run[o] \in {"holding", "lost"} /\ UNCHANGED thread
     \/ o \in thread /\ thread' = thread \ {o}
  /\ stray' = stray \union (IF \E p \in Owner \ {o} : run[p] = "holding" THEN {o} ELSE {})
  /\ UNCHANGED <<clock, lease, run, started, granted, late>>

Stopped(o) ==
  /\ Drop(o)
  /\ run' = [run EXCEPT ![o] = "over"]
  /\ UNCHANGED <<clock, started, granted, thread, stray, late>>

\* The work returned or raised.
RunFinishes(o) ==
  /\ run[o] = "holding"
  /\ o \notin thread
  /\ Stopped(o)

\* The worker is cancelled, or the lease was lost: process() cancels the work,
\* awaits it and releases the lease.  A call in a thread is abandoned, not
\* stopped.
Cancel(o) ==
  /\ run[o] \in {"holding", "lost"}
  /\ Stopped(o)

\* The process dies with its threads and leaves the row behind.
RunCrashes(o) ==
  /\ run[o] \in {"holding", "lost"}
  /\ run' = [run EXCEPT ![o] = "crashed"]
  /\ thread' = thread \ {o}
  /\ UNCHANGED <<clock, lease, started, granted, stray, late>>

\* Time passes.  An event loop that stalls delays heartbeats, and nothing
\* bounds how long the commands of a conflict recovery take together.
Overdue(o) == run[o] = "holding" /\ clock >= granted[o] + Patience(o)

Tick ==
  /\ clock < Horizon
  /\ clock' = clock + 1
  /\ late' = (late \/ \E o \in Owner : Overdue(o))
  /\ UNCHANGED <<lease, run, started, granted, thread, stray>>

LeaseNext ==
  \/ \E o \in Owner :
       \/ Start(o) \/ Heartbeat(o) \/ Delegate(o) \/ Write(o)
       \/ RunFinishes(o) \/ Cancel(o) \/ RunCrashes(o)
  \/ Tick

LeaseSpec == LeaseInit /\ [][LeaseNext]_leaseVars

-----------------------------------------------------------------------------
LeaseTypeOK ==
  /\ clock \in 0..Horizon
  /\ lease \in Rows \union {Free}
  /\ run \in [Owner -> Runs]
  /\ started \in [Owner -> Nat] /\ granted \in [Owner -> Nat]
  /\ thread \in SUBSET Owner /\ stray \in SUBSET Owner
  /\ late \in BOOLEAN

\* A prompt run acts before its grant runs out, and all were prompt.
Timely == \A o \in Owner : Patience(o) < Lifetime(o)
Prompt == Timely /\ ~late

\* Two runs never work on the task at once, as long as heartbeats are not
\* delayed by two thirds of the TTL and a conflict recovery fits its 600 s.
Exclusive ==
  Prompt => \A o, p \in Owner : run[o] = "holding" /\ run[p] = "holding" => o = p

\* "A crashed worker's lease must expire before another worker takes over"
\* (README): a run that starts after the last grant of a crashed one starts at
\* the end of that grant's lifetime or later, also if heartbeats came late.
TakeoverWaits ==
  \A o, p \in Owner :
    (run[o] = "crashed" /\ run[p] # "idle" /\ started[p] > granted[o])
      => started[p] >= granted[o] + Lifetime(o)

\* "Losing ownership stops work before any further mutation" (process): while
\* all are prompt, a run never writes the task while another run holds it.
WritesUnderLease == ~late => stray = {}
=============================================================================
