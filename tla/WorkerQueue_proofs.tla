------------------------- MODULE WorkerQueue_proofs -------------------------
(***************************************************************************)
(* For any set of tasks and any concurrency limit: the wakeup queue and    *)
(* its dedup set agree, and a task never has two jobs in one process.      *)
(***************************************************************************)
EXTENDS WorkerQueue, TLAPS

\* The semaphore's line holds exactly the jobs that wait, each once.
SemaphoreLine ==
  InSeq(semq) = {t \in Task : job[t] = "waiting"} /\ Unique(semq)

IInv == TypeOK /\ QueueMatchesSet /\ OneJobPerTask /\ SemaphoreLine

LEMMA AppendFacts ==
  ASSUME NEW S, NEW q \in Seq(S), NEW x \in S
  PROVE  /\ Append(q, x) \in Seq(S)
         /\ InSeq(Append(q, x)) = InSeq(q) \union {x}
         /\ Unique(q) /\ x \notin InSeq(q) => Unique(Append(q, x))
<1>1. /\ Append(q, x) \in Seq(S)
      /\ Len(Append(q, x)) = Len(q) + 1
      /\ Append(q, x)[Len(q) + 1] = x
      /\ \A i \in 1..Len(q) : Append(q, x)[i] = q[i]
      /\ Len(q) \in Nat
  OBVIOUS
<1>2. InSeq(Append(q, x)) = InSeq(q) \union {x}
  BY <1>1 DEF InSeq
<1>3. ASSUME Unique(q), x \notin InSeq(q) PROVE Unique(Append(q, x))
  BY <1>1, <1>3 DEF InSeq, Unique
<1> QED BY <1>1, <1>2, <1>3

LEMMA TailFacts ==
  ASSUME NEW S, NEW q \in Seq(S), q # <<>>, Unique(q)
  PROVE  /\ Head(q) \in S /\ Head(q) \in InSeq(q)
         /\ Tail(q) \in Seq(S)
         /\ InSeq(Tail(q)) = InSeq(q) \ {Head(q)}
         /\ Unique(Tail(q))
<1>1. /\ Tail(q) \in Seq(S)
      /\ Len(q) \in Nat \ {0}
      /\ Len(Tail(q)) = Len(q) - 1
      /\ Head(q) = q[1] /\ Head(q) \in S
      /\ \A i \in 1..Len(q) - 1 : Tail(q)[i] = q[i + 1]
  OBVIOUS
<1>2. Head(q) \in InSeq(q)
  BY <1>1 DEF InSeq
<1>3. Unique(Tail(q))
  BY <1>1 DEF Unique
<1>4. InSeq(Tail(q)) \subseteq InSeq(q) \ {Head(q)}
  <2> SUFFICES ASSUME NEW i \in 1..Len(Tail(q))
               PROVE  Tail(q)[i] \in InSeq(q) \ {Head(q)}
    BY DEF InSeq
  <2>1. i + 1 \in 1..Len(q) /\ i + 1 # 1 /\ 1 \in 1..Len(q) /\ Tail(q)[i] = q[i + 1]
    BY <1>1
  <2> QED BY <1>1, <2>1 DEF InSeq, Unique
<1>5. InSeq(q) \ {Head(q)} \subseteq InSeq(Tail(q))
  <2> SUFFICES ASSUME NEW i \in 1..Len(q), q[i] # q[1]
               PROVE  q[i] \in InSeq(Tail(q))
    BY <1>1 DEF InSeq
  <2>1. i - 1 \in 1..Len(Tail(q)) /\ Tail(q)[i - 1] = q[i]
    BY <1>1
  <2> QED BY <2>1 DEF InSeq
<1> QED BY <1>1, <1>2, <1>3, <1>4, <1>5

LEMMA EmptyFacts ==
  ASSUME NEW S
  PROVE  <<>> \in Seq(S) /\ InSeq(<<>>) = {} /\ Unique(<<>>)
  BY DEF InSeq, Unique

\* wake() keeps the queue and the set together, for whatever running and
\* deferred sets its caller leaves behind.
LEMMA WakeFacts ==
  ASSUME TypeOK, QueueMatchesSet, NEW t \in Task,
         NEW run \in SUBSET Task, NEW def \in SUBSET Task,
         def \subseteq run, run \cap queued = {}, Wake(t, run, def)
  PROVE  /\ queue' \in Seq(Task) /\ queued' \in SUBSET Task
         /\ deferred' \in SUBSET Task
         /\ InSeq(queue') = queued' /\ Unique(queue')
         /\ deferred' \subseteq run /\ run \cap queued' = {}
<1>1. CASE t \in run
  BY <1>1 DEF Wake, TypeOK, QueueMatchesSet
<1>2. CASE t \notin run /\ t \in queued
  BY <1>2 DEF Wake, TypeOK, QueueMatchesSet
<1>3. CASE t \notin run /\ t \notin queued
  <2>1. queue' = Append(queue, t) /\ queued' = queued \union {t} /\ deferred' = def
    BY <1>3 DEF Wake
  <2>2. queue \in Seq(Task) /\ Unique(queue) /\ t \notin InSeq(queue)
    BY <1>3 DEF TypeOK, QueueMatchesSet
  <2> QED BY <1>3, <2>1, <2>2, AppendFacts DEF TypeOK, QueueMatchesSet
<1> QED BY <1>1, <1>2, <1>3

LEMMA InitIInv == Init => IInv
<1> SUFFICES ASSUME Init PROVE IInv
  OBVIOUS
<1>1. TypeOK
  BY EmptyFacts DEF Init, TypeOK, Work, Jobs, Returned, Loop
<1>2. QueueMatchesSet /\ OneJobPerTask /\ SemaphoreLine
  BY EmptyFacts DEF Init, QueueMatchesSet, OneJobPerTask, SemaphoreLine
<1> QED BY <1>1, <1>2 DEF IInv

\* Steps that leave the in-memory scheduler alone.
LEMMA CalmStep ==
  ASSUME IInv, UNCHANGED memory,
         work' \in [Task -> Work], comments' \in SUBSET Task, loop' \in Loop,
         todo' \in SUBSET [task : Task, runnable : BOOLEAN],
         due' \in BOOLEAN, stopping' \in BOOLEAN
  PROVE  IInv'
  BY DEF IInv, TypeOK, QueueMatchesSet, OneJobPerTask, SemaphoreLine, memory

\* Steps that only wake a task.
LEMMA WakeStep ==
  ASSUME IInv, NEW t \in Task, Wake(t, running, deferred),
         UNCHANGED <<running, semq, job, doubled>>,
         work' \in [Task -> Work], comments' \in SUBSET Task, loop' \in Loop,
         todo' \in SUBSET [task : Task, runnable : BOOLEAN],
         due' \in BOOLEAN, stopping' \in BOOLEAN
  PROVE  IInv'
<1>1. /\ queue' \in Seq(Task) /\ queued' \in SUBSET Task /\ deferred' \in SUBSET Task
      /\ InSeq(queue') = queued' /\ Unique(queue')
      /\ deferred' \subseteq running /\ running \cap queued' = {}
  <2>1. TypeOK /\ QueueMatchesSet
    BY DEF IInv
  <2>2. /\ running \in SUBSET Task /\ deferred \in SUBSET Task
        /\ deferred \subseteq running /\ running \cap queued = {}
    BY DEF IInv, TypeOK, OneJobPerTask
  <2> QED BY <2>1, <2>2, WakeFacts
<1> QED BY <1>1 DEF IInv, TypeOK, QueueMatchesSet, OneJobPerTask, SemaphoreLine

\* The rows recover() lists.
LEMMA RowsType ==
  ASSUME TypeOK PROVE Rows \in SUBSET [task : Task, runnable : BOOLEAN]
<1>1. \A t \in Task : Runnable(t) \in BOOLEAN
  BY DEF Runnable
<1>2. \A t \in Task : [task |-> t, runnable |-> Runnable(t)] \in [task : Task, runnable : BOOLEAN]
  BY <1>1
<1> QED BY <1>2 DEF Rows

LEMMA GetWakeupStep == ASSUME IInv, GetWakeup PROVE IInv'
<1> DEFINE t == Head(queue)
<1>1. /\ t \in Task /\ t \in queued /\ Tail(queue) \in Seq(Task)
      /\ InSeq(Tail(queue)) = queued \ {t} /\ Unique(Tail(queue))
  <2>1. queue \in Seq(Task) /\ queue # <<>> /\ Unique(queue) /\ InSeq(queue) = queued
    BY DEF GetWakeup, IInv, TypeOK, QueueMatchesSet
  <2> QED BY <2>1, TailFacts
<1>2. t \notin running /\ job[t] = "none" /\ t \notin InSeq(semq)
  BY <1>1 DEF IInv, OneJobPerTask, SemaphoreLine
<1>3. /\ queue' = Tail(queue) /\ queued' = queued \ {t}
      /\ UNCHANGED <<work, comments, deferred, todo, due, stopping>>
  BY DEF GetWakeup
<1>4. CASE stopping
  <2>1. loop' = "exited" /\ UNCHANGED <<running, semq, job, doubled>>
    BY <1>4 DEF GetWakeup
  <2> QED BY <1>1, <1>3, <2>1
      DEF IInv, TypeOK, QueueMatchesSet, OneJobPerTask, SemaphoreLine, Loop
<1>5. CASE ~stopping
  <2>1. /\ loop' = "top" /\ running' = running \union {t}
        /\ semq' = Append(semq, t) /\ job' = [job EXCEPT ![t] = "waiting"]
        /\ doubled' = doubled
    BY <1>2, <1>5 DEF GetWakeup
  <2>2. /\ semq' \in Seq(Task) /\ Unique(semq')
        /\ InSeq(semq') = InSeq(semq) \union {t}
    BY <1>1, <1>2, <2>1, AppendFacts DEF IInv, TypeOK, SemaphoreLine
  <2>3. TypeOK'
    BY <1>1, <1>3, <2>1, <2>2 DEF IInv, TypeOK, Loop, Jobs
  <2>4. QueueMatchesSet'
    BY <1>1, <1>3 DEF QueueMatchesSet
  <2>5. OneJobPerTask'
    BY <1>1, <1>2, <1>3, <2>1 DEF IInv, OneJobPerTask, TypeOK
  <2>6. SemaphoreLine'
    BY <1>1, <2>1, <2>2 DEF IInv, SemaphoreLine, TypeOK
  <2> QED BY <2>3, <2>4, <2>5, <2>6 DEF IInv
<1> QED BY <1>4, <1>5 DEF IInv, TypeOK

LEMMA EnterStep == ASSUME IInv, NEW t \in Task, Enter(t) PROVE IInv'
<1>1. /\ Tail(semq) \in Seq(Task) /\ t \in InSeq(semq)
      /\ InSeq(Tail(semq)) = InSeq(semq) \ {t} /\ Unique(Tail(semq))
  BY TailFacts DEF Enter, IInv, TypeOK, SemaphoreLine
<1>2. job[t] = "waiting" /\ t \in running
  BY <1>1 DEF IInv, SemaphoreLine, OneJobPerTask
<1> QED BY <1>1, <1>2
    DEF Enter, IInv, TypeOK, QueueMatchesSet, OneJobPerTask, SemaphoreLine, Jobs

LEMMA LeaveStep == ASSUME IInv, NEW t \in Task, Leave(t) PROVE IInv'
<1>1. t \in running /\ t \notin InSeq(semq)
  BY DEF Leave, IInv, OneJobPerTask, SemaphoreLine
<1>2. PICK result \in Returned : job' = [job EXCEPT ![t] = result]
  BY DEF Leave, Results, Returned
<1>3. work' \in [Task -> Work] /\ comments' \in SUBSET Task
  BY DEF Leave, IInv, TypeOK, Work
<1>4. TypeOK'
  BY <1>2, <1>3 DEF Leave, IInv, TypeOK, Jobs
<1>5. QueueMatchesSet'
  BY DEF Leave, IInv, QueueMatchesSet
<1>6. OneJobPerTask'
  BY <1>1, <1>2 DEF Leave, IInv, OneJobPerTask, TypeOK, Returned
<1>7. SemaphoreLine'
  BY <1>1, <1>2 DEF Leave, IInv, SemaphoreLine, TypeOK, Returned
<1> QED BY <1>4, <1>5, <1>6, <1>7 DEF IInv

LEMMA JobEndsStep == ASSUME IInv, NEW t \in Task, JobEnds(t) PROVE IInv'
<1>1. t \in running /\ t \notin queued /\ t \notin InSeq(semq)
  BY DEF JobEnds, IInv, OneJobPerTask, SemaphoreLine, Returned
<1>2. /\ job' = [job EXCEPT ![t] = "none"] /\ running' = running \ {t}
      /\ UNCHANGED <<work, comments, semq, doubled, loop, todo, due, stopping>>
  BY DEF JobEnds
<1>3. /\ queue' \in Seq(Task) /\ queued' \in SUBSET Task /\ deferred' \in SUBSET Task
      /\ InSeq(queue') = queued' /\ Unique(queue')
      /\ deferred' \subseteq running' /\ running' \cap queued' = {}
  <2>1. CASE Replay(t)
    <3>1. TypeOK /\ QueueMatchesSet
      BY DEF IInv
    <3>2. /\ running' \in SUBSET Task /\ Settled(t) \in SUBSET Task
          /\ Settled(t) \subseteq running' /\ running' \cap queued = {}
      BY <1>2 DEF IInv, TypeOK, OneJobPerTask, Settled
    <3>3. Wake(t, running', Settled(t))
      BY <2>1 DEF JobEnds
    <3> QED BY <3>1, <3>2, <3>3, WakeFacts
  <2>2. CASE ~Replay(t)
    BY <1>2, <2>2 DEF JobEnds, IInv, OneJobPerTask, TypeOK, QueueMatchesSet, Settled
  <2> QED BY <2>1, <2>2
<1>4. TypeOK'
  BY <1>2, <1>3 DEF IInv, TypeOK, Jobs
<1>5. OneJobPerTask'
  BY <1>1, <1>2, <1>3 DEF IInv, OneJobPerTask, TypeOK
<1>6. SemaphoreLine'
  BY <1>1, <1>2 DEF IInv, SemaphoreLine, TypeOK
<1> QED BY <1>3, <1>4, <1>5, <1>6 DEF IInv, QueueMatchesSet

LEMMA LoopFailsStep == ASSUME IInv, LoopFails PROVE IInv'
<1>1. \A t \in Task : job'[t] # "waiting" /\ (job'[t] = "none" <=> job[t] = "none")
  BY DEF LoopFails, IInv, TypeOK
<1>2. TypeOK'
  BY EmptyFacts DEF LoopFails, IInv, TypeOK, Jobs, Returned, Loop
<1> QED BY <1>1, <1>2, EmptyFacts
    DEF LoopFails, IInv, QueueMatchesSet, OneJobPerTask, SemaphoreLine

LEMMA CrashStep == ASSUME IInv, Crash PROVE IInv'
<1>1. TypeOK'
  BY EmptyFacts DEF Crash, IInv, TypeOK, Jobs, Loop
<1>2. QueueMatchesSet' /\ OneJobPerTask' /\ SemaphoreLine'
  BY EmptyFacts DEF Crash, IInv, QueueMatchesSet, OneJobPerTask, SemaphoreLine
<1> QED BY <1>1, <1>2 DEF IInv

LEMMA StepIInv == IInv /\ [Next]_vars => IInv'
<1> SUFFICES ASSUME IInv, [Next]_vars PROVE IInv'
  OBVIOUS
<1>0. TypeOK
  BY DEF IInv
<1>1. ASSUME NEW t \in Task, NEW here \in BOOLEAN, WakingEvent(t, here) PROVE IInv'
  <2>1. work' \in [Task -> Work] /\ comments' \in SUBSET Task
    BY <1>0, <1>1 DEF WakingEvent, TypeOK, Work
  <2>2. CASE here
    BY <1>0, <1>1, <2>1, <2>2, WakeStep DEF WakingEvent, TypeOK
  <2>3. CASE ~here
    BY <1>0, <1>1, <2>1, <2>3, CalmStep DEF WakingEvent, TypeOK, memory
  <2> QED BY <2>2, <2>3
<1>2. ASSUME NEW t \in Task, ClosingEvent(t) PROVE IInv'
  BY <1>0, <1>2, CalmStep DEF ClosingEvent, TypeOK, Work
<1>3. ASSUME RecoverRow PROVE IInv'
  <2>1. PICK row \in todo :
          /\ todo' = todo \ {row}
          /\ IF row.runnable /\ row.task \notin running
             THEN Wake(row.task, running, deferred)
             ELSE UNCHANGED <<queue, queued, deferred>>
    BY <1>3 DEF RecoverRow
  <2>2. row.task \in Task
    BY <1>0 DEF TypeOK
  <2>3. CASE row.runnable /\ row.task \notin running
    BY <1>0, <1>3, <2>1, <2>2, <2>3, WakeStep DEF RecoverRow, TypeOK
  <2>4. CASE ~(row.runnable /\ row.task \notin running)
    BY <1>0, <1>3, <2>1, <2>4, CalmStep DEF RecoverRow, TypeOK, memory
  <2> QED BY <2>3, <2>4
<1>4. ASSUME RecoverDone \/ Tick \/ GetTimeout \/ Stop PROVE IInv'
  BY <1>0, <1>4, CalmStep DEF RecoverDone, Tick, GetTimeout, Stop, TypeOK, Loop
<1>5. ASSUME Boot \/ LoopTop PROVE IInv'
  BY <1>0, <1>5, RowsType, CalmStep DEF Boot, LoopTop, TypeOK, Loop
<1>6. CASE UNCHANGED vars
  BY <1>0, <1>6, CalmStep DEF vars, TypeOK
<1> QED BY <1>1, <1>2, <1>3, <1>4, <1>5, <1>6, GetWakeupStep, EnterStep,
           LeaveStep, JobEndsStep, LoopFailsStep, CrashStep DEF Next

\* The inductive invariant, for any tasks and any concurrency limit.
THEOREM QueueInvariant == Spec => []IInv
  BY InitIInv, StepIInv, PTL DEF Spec

\* Type correctness of the scheduler's memory and of the loop.
THEOREM QueueTypes == Spec => []TypeOK
<1>1. IInv => TypeOK
  BY DEF IInv
<1> QED BY <1>1, QueueInvariant, PTL

\* The dedup set never drifts from the queue, so no wakeup is stranded.
THEOREM DedupSetIsQueue == Spec => []QueueMatchesSet
<1>1. IInv => QueueMatchesSet
  BY DEF IInv
<1> QED BY <1>1, QueueInvariant, PTL

\* At most one job per task in a process, and deferrals only behind a job.
THEOREM NoConcurrentRuns == Spec => []OneJobPerTask
<1>1. IInv => OneJobPerTask
  BY DEF IInv
<1> QED BY <1>1, QueueInvariant, PTL

-----------------------------------------------------------------------------
(* The refinement of TaskScheduling.                                       *)

phases == [t \in Task |-> Phase(t)]

\* A task whose membership of the three sets stays the same keeps its phase.
LEMMA SamePhase ==
  ASSUME NEW u, u \in deferred' <=> u \in deferred, u \in running' <=> u \in running,
         u \in queued' <=> u \in queued
  PROVE  Phase(u)' = Phase(u)
  BY DEF Phase

LEMMA PhaseChange ==
  ASSUME NEW t \in Task, \A u \in Task : u # t => Phase(u)' = Phase(u)
  PROVE  phases' = [phases EXCEPT ![t] = Phase(t)']
  BY DEF phases

\* Steps that touch neither the three sets nor whether the worker is up.
LEMMA Stutter ==
  ASSUME UNCHANGED <<queued, running, deferred>>, Up' = Up
  PROVE  UNCHANGED Scheduling!vars
<1>1. \A u \in Task : Phase(u)' = Phase(u)
  BY DEF Phase
<1> QED BY <1>1 DEF Scheduling!vars

\* wake() outside the end of a job is a request.
LEMMA WakeRequests ==
  ASSUME IInv, NEW t \in Task, Wake(t, running, deferred), UNCHANGED running, Up' = Up
  PROVE  Scheduling!Request(t)
<1>1. \A u \in Task : u # t => Phase(u)' = Phase(u)
  BY DEF Wake, Phase
<1>2. Phase(t)' = Scheduling!After(Phase(t))
  BY DEF Wake, Phase, Scheduling!After, IInv, OneJobPerTask
<1>3. phases' = [phases EXCEPT ![t] = Scheduling!After(phases[t])]
  BY <1>1, <1>2, PhaseChange DEF phases
<1> QED BY <1>3 DEF Scheduling!Request, phases

\* Taking a wakeup grants the run, or forgets the request after stop().
LEMMA GetWakeupRefines ==
  ASSUME IInv, IInv', GetWakeup
  PROVE  \E t \in Task : Scheduling!Grant(t) \/ Scheduling!Forget(t)
<1>1. PICK t \in Task : /\ t = Head(queue) /\ t \in queued
                       /\ t \notin running /\ t \notin deferred
  <2>1. queue \in Seq(Task) /\ queue # <<>> /\ Unique(queue) /\ InSeq(queue) = queued
    BY DEF GetWakeup, IInv, TypeOK, QueueMatchesSet
  <2> QED BY <2>1, TailFacts DEF IInv, OneJobPerTask
<1>2. queued' = queued \ {t} /\ deferred' = deferred /\ loop = "get" /\ stopping' = stopping
  BY <1>1 DEF GetWakeup
<1>3. phases[t] = "pending"
  BY <1>1 DEF phases, Phase
<1>4. CASE stopping
  <2>1. running' = running /\ ~Up /\ ~Up'
    BY <1>2, <1>4 DEF GetWakeup, Up
  <2>2. \A u \in Task : u # t => Phase(u)' = Phase(u)
    BY <1>2, <2>1 DEF Phase
  <2>3. Phase(t)' = "idle"
    BY <1>1, <1>2, <2>1 DEF Phase
  <2>4. phases' = [phases EXCEPT ![t] = "idle"]
    BY <1>1, <2>2, <2>3, PhaseChange
  <2>5. Up' = Up
    BY <2>1 DEF Up
  <2>6. Scheduling!Forget(t)
    BY <1>3, <2>1, <2>4, <2>5 DEF Scheduling!Forget, phases
  <2> QED BY <2>6
<1>5. CASE ~stopping
  <2>1. running' = running \union {t} /\ Up /\ Up'
    BY <1>1, <1>2, <1>5 DEF GetWakeup, Up
  <2>2. \A u \in Task : u # t => Phase(u)' = Phase(u)
    BY <1>2, <2>1 DEF Phase
  <2>3. Phase(t)' = "running"
    BY <1>1, <1>2, <2>1 DEF Phase
  <2>4. phases' = [phases EXCEPT ![t] = "running"]
    BY <1>1, <2>2, <2>3, PhaseChange
  <2> QED BY <1>1, <1>3, <2>1, <2>4 DEF Scheduling!Grant, phases
<1> QED BY <1>4, <1>5 DEF IInv, TypeOK

\* The end of a job completes the run; what was deferred behind it is granted.
LEMMA JobEndsRefines ==
  ASSUME IInv, NEW t \in Task, JobEnds(t)
  PROVE  Scheduling!Complete(t)
<1>1. t \in running /\ t \notin queued
  BY DEF JobEnds, IInv, OneJobPerTask, Returned
<1>2. running' = running \ {t} /\ Up' = Up
  BY DEF JobEnds, Up, Recovering
<1>3. phases[t] = IF t \in deferred THEN "rerun" ELSE "running"
  BY <1>1 DEF phases, Phase
<1>4. CASE Replay(t)
  <2>1. queued' = queued \union {t} /\ deferred' = deferred \ {t}
    BY <1>1, <1>2, <1>4 DEF JobEnds, Wake, Settled
  <2>2. \A u \in Task : u # t => Phase(u)' = Phase(u)
    BY <1>2, <2>1 DEF Phase
  <2>3. Phase(t)' = "pending"
    BY <1>2, <2>1 DEF Phase
  <2>4. phases' = [phases EXCEPT ![t] = "pending"]
    BY <2>2, <2>3, PhaseChange
  <2> QED BY <1>2, <1>3, <2>4 DEF Scheduling!Complete, phases
<1>5. CASE ~Replay(t)
  <2>1. queued' = queued /\ deferred' = deferred \ {t}
    BY <1>5 DEF JobEnds, Settled
  <2>2. \A u \in Task : u # t => Phase(u)' = Phase(u)
    BY <1>2, <2>1 DEF Phase
  <2>3. Phase(t)' = "idle"
    BY <1>1, <1>2, <2>1 DEF Phase
  <2>4. phases' = [phases EXCEPT ![t] = "idle"]
    BY <2>2, <2>3, PhaseChange
  <2>5. Up => phases[t] = "running"
    BY <1>3, <1>5 DEF Replay, Up
  <2> QED BY <1>2, <1>3, <2>4, <2>5 DEF Scheduling!Complete, phases
<1> QED BY <1>4, <1>5

\* A crash idles every task.
LEMMA CrashRefines == ASSUME Crash PROVE Scheduling!Die
<1>1. ~Up' /\ \A u \in Task : Phase(u)' = "idle"
  BY DEF Crash, Up, Recovering, Phase
<1> QED BY <1>1 DEF Scheduling!Die

LEMMA InitRefines == Init => Scheduling!Init
<1> SUFFICES ASSUME Init PROVE Scheduling!Init
  OBVIOUS
<1>1. ~Up /\ \A u \in Task : Phase(u) = "idle"
  BY DEF Init, Up, Recovering, Phase
<1> QED BY <1>1 DEF Scheduling!Init

LEMMA StepRefines ==
  IInv /\ IInv' /\ [Next]_vars => [Scheduling!Next]_(Scheduling!vars)
<1> SUFFICES ASSUME IInv, IInv', [Next]_vars
             PROVE  Scheduling!Next \/ UNCHANGED Scheduling!vars
  OBVIOUS
<1>1. ASSUME NEW t \in Task, NEW here \in BOOLEAN, WakingEvent(t, here)
      PROVE  Scheduling!Request(t) \/ UNCHANGED Scheduling!vars
  <2>1. UNCHANGED running /\ Up' = Up
    BY <1>1 DEF WakingEvent, Up, Recovering
  <2>2. CASE here
    BY <1>1, <2>1, <2>2, WakeRequests DEF WakingEvent
  <2>3. CASE ~here
    BY <1>1, <2>1, <2>3, Stutter DEF WakingEvent
  <2> QED BY <2>2, <2>3
<1>2. ASSUME RecoverRow
      PROVE  (\E t \in Task : Scheduling!Request(t)) \/ UNCHANGED Scheduling!vars
  <2>1. UNCHANGED running /\ Up' = Up
    BY <1>2 DEF RecoverRow, Up, Recovering
  <2>2. PICK row \in todo :
          IF row.runnable /\ row.task \notin running
          THEN Wake(row.task, running, deferred)
          ELSE UNCHANGED <<queue, queued, deferred>>
    BY <1>2 DEF RecoverRow
  <2>3. row.task \in Task
    BY DEF IInv, TypeOK
  <2>4. CASE row.runnable /\ row.task \notin running
    BY <2>1, <2>2, <2>3, <2>4, WakeRequests
  <2>5. CASE ~(row.runnable /\ row.task \notin running)
    BY <2>1, <2>2, <2>5, Stutter
  <2> QED BY <2>4, <2>5
<1>3. ASSUME (\E t \in Task : ClosingEvent(t) \/ Enter(t) \/ Leave(t))
             \/ RecoverDone \/ Tick \/ GetTimeout \/ LoopTop
      PROVE  UNCHANGED Scheduling!vars
  <2>1. UNCHANGED <<queued, running, deferred>>
    BY <1>3 DEF ClosingEvent, Enter, Leave, RecoverDone, Tick, GetTimeout, LoopTop, memory
  <2>2. CASE UNCHANGED <<loop, stopping>>
    BY <2>1, <2>2, Stutter DEF Up, Recovering
  <2>3. CASE RecoverDone \/ GetTimeout
    BY <2>1, <2>3, Stutter DEF RecoverDone, GetTimeout, Up, Recovering
  <2>4. CASE LoopTop
    BY <2>1, <2>4, Stutter DEF LoopTop, Up, Recovering
  <2> QED BY <1>3, <2>2, <2>3, <2>4 DEF ClosingEvent, Enter, Leave, Tick
<1>4. CASE Boot
  <2>1. ~Up /\ Up' /\ UNCHANGED <<queued, running, deferred>>
    BY <1>4 DEF Boot, Up, Recovering, memory
  <2>2. \A u \in Task : Phase(u)' = Phase(u)
    BY <2>1 DEF Phase
  <2> QED BY <2>1, <2>2 DEF Scheduling!Next, Scheduling!Boot
<1>5. CASE LoopFails \/ Stop
  <2>1. ~Up' /\ UNCHANGED <<queued, running, deferred>>
    BY <1>5 DEF LoopFails, Stop, Up, Recovering, memory
  <2>2. \A u \in Task : Phase(u)' = Phase(u)
    BY <2>1 DEF Phase
  <2> QED BY <2>1, <2>2 DEF Scheduling!Next, Scheduling!Stop
<1>6. CASE UNCHANGED vars
  BY <1>6, Stutter DEF vars, memory, Up, Recovering
<1>7. CASE GetWakeup
  BY <1>7, GetWakeupRefines DEF Scheduling!Next
<1>8. ASSUME NEW t \in Task, JobEnds(t) PROVE Scheduling!Next
  BY <1>8, JobEndsRefines DEF Scheduling!Next
<1>9. CASE Crash
  BY <1>9, CrashRefines DEF Scheduling!Next
<1> QED BY <1>1, <1>2, <1>3, <1>4, <1>5, <1>6, <1>7, <1>8, <1>9
        DEF Next, Scheduling!Next

\* The scheduler of a worker process implements TaskScheduling: no wakeup is
\* lost and none doubles a run, for any tasks and any concurrency limit.
THEOREM QueueImplementsScheduling == Spec => Schedules
  BY InitRefines, StepRefines, QueueInvariant, PTL DEF Spec, Schedules, Scheduling!Spec
=============================================================================
