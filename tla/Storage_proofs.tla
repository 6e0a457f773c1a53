---------------------------- MODULE Storage_proofs ----------------------------
(***************************************************************************)
(* Proofs about what the processes share through durable rows and files,   *)
(* each for any value of its constants:                                    *)
(* - the operation ledger never lets the world see an effect that was not  *)
(*   charged, and its journal tells the same story as its rows;            *)
(* - as long as every run is prompt no two runs hold the lease of a task,  *)
(*   and a crashed run is succeeded only when its last grant is over;      *)
(* - no live process leaves the lock file of a repository behind.  (Mutual *)
(*   exclusion does not hold for it: LockExcludes in the README.)          *)
(***************************************************************************)
EXTENDS OperationLedger, TaskLease, FiniteSetTheorems, TLAPS

\* The lock file of a repository, with its own parameters and state.
CONSTANTS Locker, Process, pid, Inode
VARIABLES file, alive, at, inode, owner
Lock == INSTANCE RepositoryLock

-----------------------------------------------------------------------------
(* The ledger.                                                             *)

\* A charge not spent yet is counted, unspent, and held by one runner only.
UnspentCharges ==
  /\ \A r \in Runner : runner[r].mode = "charged" =>
       /\ runner[r].intent \in 1..budget
       /\ \A i \in 1..Len(effects) : effects[i] # runner[r].intent
  /\ \A r, s \in Runner :
       (runner[r].mode = "charged" /\ runner[s].mode = "charged"
          /\ runner[r].intent = runner[s].intent) => r = s

IInv == TypeOK /\ ChargedOnce /\ UnspentCharges

\* The effects seen so far never outnumber the task-wide cap.
EffectsCapped == Len(effects) <= OverallCap

LEMMA InitIInv == Init => IInv
<1> SUFFICES ASSUME Init PROVE IInv
  OBVIOUS
<1> USE DEF Init
<1>1. Len(effects) = 0 /\ \A r \in Runner : runner[r].mode # "charged"
  BY DEF Idle
<1>2. ChargedOnce /\ UnspentCharges
  BY <1>1 DEF ChargedOnce, UnspentCharges
<1>3. current \in [Op -> [status : Status, attempts : 0..MaxAttempts,
                         intent : 0..OverallCap]] /\ budget \in 0..OverallCap
  BY BudgetAssumption DEF Absent, Status
<1>4. journal \in Seq([op : Op, attempts : Nat, intent : Nat,
                      event : Status \ {"none"}]) /\ effects \in Seq(Nat)
  OBVIOUS
<1>5. runner \in [Runner -> Held \union {Idle}] /\ blocked \in BOOLEAN
  OBVIOUS
<1> QED BY <1>2, <1>3, <1>4, <1>5 DEF IInv, TypeOK

\* Types alone, one step per operation of the ledger.
LEMMA TypeStep == TypeOK /\ [Next]_vars => TypeOK'
<1> SUFFICES ASSUME TypeOK, [Next]_vars PROVE TypeOK'
  OBVIOUS
<1>0. \A r \in Runner : Overlaps(r) \in BOOLEAN
  BY DEF TypeOK, Overlaps
<1> USE BudgetAssumption DEF TypeOK, Status, Modes, Held, Idle
<1>1. ASSUME NEW r \in Runner, NEW o \in Op, NEW c \in BOOLEAN, NEW u \in BOOLEAN,
             Begin(r, o, c, u)
      PROVE  TypeOK'
  <2> DEFINE rec == [status |-> "started", attempts |-> current[o].attempts + 1,
                     intent |-> budget + 1]
  <2>1. rec.attempts \in 0..MaxAttempts /\ rec.intent \in 0..OverallCap
        /\ budget + 1 \in 0..OverallCap
    BY <1>1 DEF Begin, NextAttempt, Exhausted
  <2>2. current' \in [Op -> [status : Status, attempts : 0..MaxAttempts,
                             intent : 0..OverallCap]]
    BY <1>1, <2>1 DEF Begin, NextAttempt
  <2>3. Row(o, rec, "started") \in [op : Op, attempts : Nat, intent : Nat,
                                    event : Status \ {"none"}]
    BY <2>1 DEF Row
  <2>4. journal' \in Seq([op : Op, attempts : Nat, intent : Nat,
                          event : Status \ {"none"}])
    BY <1>1, <2>3 DEF Begin, NextAttempt
  <2>5. runner' \in [Runner -> Held \union {Idle}]
    BY <1>1, <2>1 DEF Begin, NextAttempt
  <2>6. overlap' \in BOOLEAN
    BY <1>0, <1>1 DEF Begin
  <2> QED BY <1>1, <2>1, <2>2, <2>4, <2>5, <2>6 DEF Begin, NextAttempt
<1>2. ASSUME NEW r \in Runner, NEW o \in Op, BeginReconcile(r, o)
      PROVE  TypeOK'
  <2>1. overlap' \in BOOLEAN
    BY <1>0, <1>2 DEF BeginReconcile
  <2> QED BY <1>2, <2>1 DEF BeginReconcile, Resumed
<1>3. ASSUME NEW r \in Runner, NEW o \in Op, NEW c \in BOOLEAN, NEW u \in BOOLEAN,
             BeginRefused(r, o, c, u)
      PROVE  TypeOK'
  BY <1>3 DEF BeginRefused
<1>4. ASSUME NEW r \in Runner, Perform(r) PROVE TypeOK'
  <2>1. runner[r] \in Held
    BY <1>4 DEF Perform
  <2>2. effects' \in Seq(Nat)
    BY <1>4, <2>1 DEF Perform
  <2>3. [runner[r] EXCEPT !.mode = "performed"] \in Held
    BY <2>1
  <2>4. runner' \in [Runner -> Held \union {Idle}]
    BY <1>4, <2>3 DEF Perform
  <2> QED BY <1>4, <2>2, <2>4 DEF Perform
<1>5. ASSUME NEW r \in Runner, NEW succeeded \in BOOLEAN, Finish(r, succeeded)
      PROVE  TypeOK'
  <2> DEFINE o == runner[r].op
             status == IF succeeded THEN "succeeded" ELSE "failed"
  <2>1. o \in Op
    BY <1>5 DEF Finish, SettledRow
  <2>2. Row(o, current[o], status) \in [op : Op, attempts : Nat, intent : Nat,
                                        event : Status \ {"none"}]
    BY <2>1 DEF Row
  <2>3. journal' \in Seq([op : Op, attempts : Nat, intent : Nat,
                          event : Status \ {"none"}])
    BY <1>5, <2>2 DEF Finish, SettledRow
  <2> QED BY <1>5, <2>1, <2>3 DEF Finish, SettledRow
<1>6. ASSUME NEW r \in Runner, Crash(r) PROVE TypeOK'
  BY <1>6 DEF Crash
<1>7. CASE UNCHANGED vars
  BY <1>7 DEF vars
<1> QED BY <1>1, <1>2, <1>3, <1>4, <1>5, <1>6, <1>7, Zenon DEF Next

\* Appending an unspent intent keeps the effects distinct and counted.
LEMMA PerformStep ==
  ASSUME IInv, TypeOK', NEW r \in Runner, Perform(r)
  PROVE  ChargedOnce' /\ UnspentCharges'
<1> USE DEF IInv, TypeOK, ChargedOnce, UnspentCharges, Perform
<1>1. runner[r] \in Held /\ runner[r].intent \in 1..budget
  BY DEF Idle, Held
<1>2. /\ Len(effects') = Len(effects) + 1
      /\ effects'[Len(effects) + 1] = runner[r].intent
      /\ \A i \in 1..Len(effects) : effects'[i] = effects[i]
  OBVIOUS
<1>3. ChargedOnce'
  BY <1>1, <1>2
<1>4. \A s \in Runner : runner'[s].mode = "charged" => s # r /\ runner'[s] = runner[s]
  BY <1>1 DEF Held
<1>5. UnspentCharges'
  BY <1>1, <1>2, <1>4
<1> QED BY <1>3, <1>5

LEMMA StepIInv == IInv /\ [Next]_vars => IInv'
<1> SUFFICES ASSUME IInv, [Next]_vars PROVE IInv'
  OBVIOUS
<1>0. TypeOK'
  BY TypeStep DEF IInv
<1> USE DEF IInv
<1>1. ASSUME NEW r \in Runner, NEW o \in Op, NEW c \in BOOLEAN, NEW u \in BOOLEAN,
             Begin(r, o, c, u)
      PROVE  ChargedOnce' /\ UnspentCharges'
  <2>1. runner'[r] = [mode |-> "charged", op |-> o, intent |-> budget + 1]
        /\ \A s \in Runner \ {r} : runner'[s] = runner[s]
    BY <1>1 DEF Begin, NextAttempt, TypeOK
  <2>2. budget' = budget + 1 /\ effects' = effects /\ budget \in Nat
    BY <1>1 DEF Begin, NextAttempt, TypeOK
  <2>3. ChargedOnce'
    BY <2>2 DEF ChargedOnce
  <2>4. \A s \in Runner \ {r} : runner'[s].mode = "charged" =>
           runner'[s].intent \in 1..budget
    BY <2>1 DEF UnspentCharges
  <2>5. \A i \in 1..Len(effects) : effects[i] # budget + 1
    BY <2>2 DEF ChargedOnce
  <2>6. runner'[r].intent = budget + 1
    BY <2>1
  <2>7. \A s \in Runner : runner'[s].mode = "charged" =>
           /\ runner'[s].intent \in 1..budget'
           /\ \A i \in 1..Len(effects') : effects'[i] # runner'[s].intent
    BY <2>1, <2>2, <2>4, <2>5, <2>6 DEF UnspentCharges
  <2>8. \A s, t \in Runner :
           (runner'[s].mode = "charged" /\ runner'[t].mode = "charged"
              /\ runner'[s].intent = runner'[t].intent) => s = t
    BY <2>1, <2>2, <2>4, <2>6 DEF UnspentCharges
  <2> QED BY <2>3, <2>7, <2>8 DEF UnspentCharges
<1>2. ASSUME NEW r \in Runner, NEW o \in Op, BeginReconcile(r, o)
      PROVE  ChargedOnce' /\ UnspentCharges'
  BY <1>2 DEF BeginReconcile, Resumed, ChargedOnce, UnspentCharges, TypeOK
<1>3. ASSUME NEW r \in Runner, NEW o \in Op, NEW c \in BOOLEAN, NEW u \in BOOLEAN,
             BeginRefused(r, o, c, u)
      PROVE  ChargedOnce' /\ UnspentCharges'
  BY <1>3 DEF BeginRefused, ChargedOnce, UnspentCharges
<1>4. ASSUME NEW r \in Runner, Perform(r)
      PROVE  ChargedOnce' /\ UnspentCharges'
  BY <1>0, <1>4, PerformStep
<1>5. ASSUME NEW r \in Runner, NEW succeeded \in BOOLEAN, Finish(r, succeeded)
      PROVE  ChargedOnce' /\ UnspentCharges'
  BY <1>5 DEF Finish, SettledRow, ChargedOnce, UnspentCharges, TypeOK, Idle
<1>6. ASSUME NEW r \in Runner, Crash(r)
      PROVE  ChargedOnce' /\ UnspentCharges'
  BY <1>6 DEF Crash, ChargedOnce, UnspentCharges, TypeOK, Idle
<1>7. CASE UNCHANGED vars
  BY <1>7 DEF vars, ChargedOnce, UnspentCharges, TypeOK
<1> QED BY <1>0, <1>1, <1>2, <1>3, <1>4, <1>5, <1>6, <1>7 DEF Next

\* The inductive invariant of the ledger holds for any keys, runners and caps.
THEOREM LedgerInvariant == Spec => []IInv
  BY InitIInv, StepIInv, PTL DEF Spec

\* Type correctness of the ledger tables.
THEOREM LedgerTypes == Spec => []TypeOK
<1>1. IInv => TypeOK
  BY DEF IInv
<1> QED BY <1>1, LedgerInvariant, PTL

\* No interleaving performs an uncharged effect, performs a charge twice or
\* charges past a cap.
THEOREM EveryEffectCharged == Spec => []EffectsCharged
<1>1. IInv => EffectsCharged
  BY BudgetAssumption DEF IInv, TypeOK, EffectsCharged, WithinCaps
<1> QED BY <1>1, LedgerInvariant, PTL

\* Distinct effects, each one of the charges 1..budget, number at most budget.
LEMMA ChargesBoundEffects == IInv => EffectsCapped
<1> SUFFICES ASSUME IInv PROVE EffectsCapped
  OBVIOUS
<1> USE DEF IInv, TypeOK, ChargedOnce
<1>1. Len(effects) \in Nat /\ effects \in [1..Len(effects) -> 1..budget]
  OBVIOUS
<1>2. IsInjective(effects)
  BY <1>1 DEF IsInjective
<1>3. effects \in Injection(1..Len(effects), 1..budget)
  BY <1>1, <1>2 DEF Injection
<1>4. \A n \in Nat : IsFiniteSet(1..n) /\ Cardinality(1..n) = n
  BY FS_Interval
<1>5. budget \in Nat /\ budget <= OverallCap
  BY BudgetAssumption
<1>6. Cardinality(1..Len(effects)) <= Cardinality(1..budget)
  BY <1>3, <1>4, <1>5, FS_Injection
<1> QED BY <1>1, <1>4, <1>5, <1>6, BudgetAssumption DEF EffectsCapped

\* However often workers crash, retry or overlap, one task starts at most
\* OverallCap external effects.
THEOREM EffectsNeverExceedCap == Spec => []EffectsCapped
  BY ChargesBoundEffects, LedgerInvariant, PTL

-----------------------------------------------------------------------------
(* The journal tells the story of the current rows and of the charges.     *)

Quiet == UNCHANGED <<current, budget, journal>>

\* What a charge does to the three tables.
ChargesKey(o) ==
  /\ budget' = budget + 1 /\ budget \in Nat /\ Len(journal) \in Nat
  /\ current'[o].status = "started" /\ current'[o].intent = budget + 1
  /\ current'[o].attempts = current[o].attempts + 1 /\ current[o].attempts \in Nat
  /\ \A p \in Op \ {o} : current'[p] = current[p]
  /\ Len(journal') = Len(journal) + 1
  /\ journal'[Len(journal) + 1] = [op |-> o, attempts |-> current[o].attempts + 1,
                                   intent |-> budget + 1, event |-> "started"]
  /\ \A i \in 1..Len(journal) : journal'[i] = journal[i]

LEMMA ChargedTables ==
  ASSUME TypeOK, NEW r \in Runner, NEW o \in Op, NEW c \in BOOLEAN, NEW u \in BOOLEAN,
         Begin(r, o, c, u)
  PROVE  ChargesKey(o)
<1>1. current'[o] = [status |-> "started", attempts |-> current[o].attempts + 1,
                     intent |-> budget + 1]
      /\ \A p \in Op \ {o} : current'[p] = current[p]
  BY DEF Begin, NextAttempt, TypeOK
<1>2. /\ Len(journal) \in Nat /\ Len(journal') = Len(journal) + 1
      /\ journal'[Len(journal) + 1] = Row(o, NextAttempt(o), "started")
      /\ \A i \in 1..Len(journal) : journal'[i] = journal[i]
  BY DEF Begin, TypeOK
<1>3. budget' = budget + 1 /\ budget \in Nat /\ current[o].attempts \in Nat
  BY DEF Begin, TypeOK
<1> QED BY <1>1, <1>2, <1>3 DEF ChargesKey, Row, NextAttempt

\* What settling an attempt does to them.
SettlesKey(o, status) ==
  /\ budget' = budget /\ Len(journal) \in Nat /\ status # "started"
  /\ current'[o].status = status /\ current'[o].intent = current[o].intent
  /\ current'[o].attempts = current[o].attempts
  /\ \A p \in Op \ {o} : current'[p] = current[p]
  /\ Len(journal') = Len(journal) + 1
  /\ journal'[Len(journal) + 1] = [op |-> o, attempts |-> current[o].attempts,
                                   intent |-> current[o].intent, event |-> status]
  /\ \A i \in 1..Len(journal) : journal'[i] = journal[i]

LEMMA SettledTables ==
  ASSUME TypeOK, NEW r \in Runner, NEW succeeded \in BOOLEAN, Finish(r, succeeded)
  PROVE  \E o \in Op, status \in {"succeeded", "failed"} : SettlesKey(o, status)
<1> DEFINE o == runner[r].op
           status == IF succeeded THEN "succeeded" ELSE "failed"
<1>1. o \in Op
  BY DEF Finish, TypeOK, Held, Idle, Modes
<1>2. status \in {"succeeded", "failed"}
  OBVIOUS
<1>3. /\ budget' = budget /\ current' = [current EXCEPT ![o].status = status]
      /\ journal' = Append(journal, Row(o, current[o], status))
  BY DEF Finish, SettledRow
<1>4. current[o] \in [status : Status, attempts : 0..MaxAttempts, intent : 0..OverallCap]
  BY <1>1 DEF TypeOK
<1>5. current'[o] = [status |-> status, attempts |-> current[o].attempts,
                     intent |-> current[o].intent]
  BY <1>1, <1>3, <1>4 DEF TypeOK
<1>6. \A p \in Op \ {o} : current'[p] = current[p]
  BY <1>1, <1>3 DEF TypeOK
<1>7. /\ Len(journal) \in Nat /\ Len(journal') = Len(journal) + 1
      /\ journal'[Len(journal) + 1] = Row(o, current[o], status)
      /\ \A i \in 1..Len(journal) : journal'[i] = journal[i]
  BY <1>3 DEF TypeOK
<1>8. SettlesKey(o, status)
  BY <1>2, <1>3, <1>5, <1>6, <1>7 DEF SettlesKey, Row
<1> QED BY <1>1, <1>2, <1>8

\* Every other step leaves the tables alone.
LEMMA QuietSteps ==
  ASSUME [Next]_vars,
         \A r \in Runner, o \in Op, c, u \in BOOLEAN : ~Begin(r, o, c, u),
         \A r \in Runner, succeeded \in BOOLEAN : ~Finish(r, succeeded)
  PROVE  Quiet
  BY DEF Next, vars, Quiet, BeginReconcile, BeginRefused, Perform, Crash

\* The last row of a key is the row that was just added, or the one before.
LEMMA JournalStep == TypeOK /\ JournalAgrees /\ [Next]_vars => JournalAgrees'
<1> SUFFICES ASSUME TypeOK, JournalAgrees, [Next]_vars PROVE JournalAgrees'
  OBVIOUS
<1>1. ASSUME NEW n \in Nat, n = Len(journal), Len(journal') = n + 1,
             \A i \in 1..n : journal'[i] = journal[i],
             NEW o \in Op, journal'[n + 1].op = o,
             journal'[n + 1].event = current'[o].status,
             journal'[n + 1].attempts = current'[o].attempts,
             journal'[n + 1].intent = current'[o].intent,
             \A p \in Op \ {o} : current'[p] = current[p]
      PROVE  JournalAgrees'
  <2> SUFFICES ASSUME NEW p \in Op
               PROVE  LET rows == {i \in 1..Len(journal') : journal'[i].op = p} IN
                      IF rows = {} THEN current'[p] = Absent
                      ELSE \E last \in rows :
                             /\ \A i \in rows : i <= last
                             /\ journal'[last].event = current'[p].status
                             /\ journal'[last].attempts = current'[p].attempts
                             /\ journal'[last].intent = current'[p].intent
    BY DEF JournalAgrees, Absent
  <2> DEFINE rows == {i \in 1..Len(journal) : journal[i].op = p}
             rowsNext == {i \in 1..Len(journal') : journal'[i].op = p}
  <2>1. CASE p = o
    <3>1. n + 1 \in rowsNext /\ \A i \in rowsNext : i <= n + 1
      BY <1>1, <2>1
    <3> QED BY <1>1, <2>1, <3>1
  <2>2. CASE p # o
    <3>1. rowsNext = rows
      BY <1>1, <2>2
    <3>2. current'[p] = current[p] /\ \A i \in rows : journal'[i] = journal[i]
      BY <1>1, <2>2
    <3>3. IF rows = {} THEN current[p] = Absent
          ELSE \E last \in rows :
                 /\ \A i \in rows : i <= last
                 /\ journal[last].event = current[p].status
                 /\ journal[last].attempts = current[p].attempts
                 /\ journal[last].intent = current[p].intent
      BY DEF JournalAgrees
    <3> QED BY <3>1, <3>2, <3>3
  <2> QED BY <2>1, <2>2
<1>2. ASSUME NEW r \in Runner, NEW o \in Op, NEW c \in BOOLEAN, NEW u \in BOOLEAN,
             Begin(r, o, c, u)
      PROVE  JournalAgrees'
  <2>1. ChargesKey(o)
    BY <1>2, ChargedTables
  <2> QED BY <1>1, <2>1 DEF ChargesKey
<1>3. ASSUME NEW r \in Runner, NEW succeeded \in BOOLEAN, Finish(r, succeeded)
      PROVE  JournalAgrees'
  <2>1. PICK o \in Op, status \in {"succeeded", "failed"} : SettlesKey(o, status)
    BY <1>3, SettledTables
  <2> QED BY <1>1, <2>1 DEF SettlesKey
<1>4. CASE Quiet
  BY <1>4 DEF Quiet, JournalAgrees
<1> QED BY <1>2, <1>3, <1>4, QuietSteps

\* A charge adds the next number of its key and of the task; settling adds none.
LEMMA ReconcileStep == TypeOK /\ ChargesReconcile /\ [Next]_vars => ChargesReconcile'
<1> SUFFICES ASSUME TypeOK, ChargesReconcile, [Next]_vars PROVE ChargesReconcile'
  OBVIOUS
<1> DEFINE Of(o) == {journal[i].attempts : i \in {k \in StartedRows : journal[k].op = o}}
<1>1. ASSUME NEW r \in Runner, NEW o \in Op, NEW c \in BOOLEAN, NEW u \in BOOLEAN,
             Begin(r, o, c, u)
      PROVE  ChargesReconcile'
  <2> DEFINE n == Len(journal) + 1
             a == current[o].attempts + 1
  <2>0. ChargesKey(o)
    BY <1>1, ChargedTables
  <2>1. StartedRows' = StartedRows \union {n} /\ n \notin StartedRows
    BY <2>0 DEF StartedRows, ChargesKey
  <2>2. /\ \A i \in StartedRows : journal'[i] = journal[i]
        /\ journal'[n].op = o /\ journal'[n].attempts = a /\ journal'[n].intent = budget + 1
        /\ budget \in Nat /\ budget' = budget + 1 /\ current[o].attempts \in Nat
        /\ current'[o].attempts = a /\ \A p \in Op \ {o} : current'[p] = current[p]
    BY <2>0 DEF StartedRows, ChargesKey
  <2> HIDE DEF n
  <2>3. {journal'[i].intent : i \in StartedRows'} = 1..budget'
    <3>1. {journal'[i].intent : i \in StartedRows'}
            = {journal[i].intent : i \in StartedRows} \union {budget + 1}
      BY <2>1, <2>2
    <3>2. 1..budget' = (1..budget) \union {budget + 1}
      BY <2>2
    <3> QED BY <3>1, <3>2 DEF ChargesReconcile
  <2>4. \A i \in StartedRows : journal[i].intent \in 1..budget /\ journal[i].intent # budget + 1
    BY <2>2 DEF ChargesReconcile
  <2>5. \A i \in StartedRows : journal[i].op = o =>
          journal[i].attempts \in 1..current[o].attempts /\ journal[i].attempts # a
    <3>1. Of(o) = 1..current[o].attempts
      BY DEF ChargesReconcile
    <3> QED BY <2>2, <3>1
  <2>6. \A i, j \in StartedRows' : i # j =>
          /\ journal'[i].intent # journal'[j].intent
          /\ journal'[i].op = journal'[j].op => journal'[i].attempts # journal'[j].attempts
    BY <2>1, <2>2, <2>4, <2>5 DEF ChargesReconcile
  <2>7. ASSUME NEW p \in Op
        PROVE  {journal'[i].attempts : i \in {k \in StartedRows' : journal'[k].op = p}}
                 = 1..current'[p].attempts
    <3>1. Of(p) = 1..current[p].attempts
      BY DEF ChargesReconcile
    <3>2. CASE p = o
      <4>1. {k \in StartedRows' : journal'[k].op = o}
              = {k \in StartedRows : journal[k].op = o} \union {n}
        BY <2>1, <2>2
      <4>2. {journal'[i].attempts : i \in {k \in StartedRows' : journal'[k].op = o}}
              = Of(o) \union {a}
        BY <2>2, <4>1
      <4>3. 1..a = (1..current[o].attempts) \union {a}
        BY <2>2
      <4> QED BY <2>2, <3>1, <3>2, <4>2, <4>3
    <3>3. CASE p # o
      <4>1. {k \in StartedRows' : journal'[k].op = p} = {k \in StartedRows : journal[k].op = p}
        BY <2>1, <2>2, <3>3
      <4> QED BY <2>2, <3>1, <3>3, <4>1
    <3> QED BY <3>2, <3>3
  <2> QED BY <2>3, <2>6, <2>7 DEF ChargesReconcile, StartedRows
<1>2. ASSUME NEW r \in Runner, NEW succeeded \in BOOLEAN, Finish(r, succeeded)
      PROVE  ChargesReconcile'
  <2>0. PICK o \in Op, status \in {"succeeded", "failed"} : SettlesKey(o, status)
    BY <1>2, SettledTables
  <2>1. StartedRows' = StartedRows /\ \A i \in StartedRows : journal'[i] = journal[i]
    BY <2>0 DEF StartedRows, SettlesKey
  <2>2. budget' = budget /\ \A p \in Op : current'[p].attempts = current[p].attempts
    BY <2>0 DEF SettlesKey
  <2>3. {journal'[i].intent : i \in StartedRows'} = 1..budget'
    BY <2>1, <2>2 DEF ChargesReconcile
  <2>4. \A i, j \in StartedRows' : i # j =>
          /\ journal'[i].intent # journal'[j].intent
          /\ journal'[i].op = journal'[j].op => journal'[i].attempts # journal'[j].attempts
    BY <2>1 DEF ChargesReconcile
  <2>5. ASSUME NEW p \in Op
        PROVE  {journal'[i].attempts : i \in {k \in StartedRows' : journal'[k].op = p}}
                 = 1..current'[p].attempts
    <3>1. Of(p) = 1..current[p].attempts
      BY DEF ChargesReconcile
    <3> QED BY <2>1, <2>2, <3>1
  <2> QED BY <2>3, <2>4, <2>5 DEF ChargesReconcile, StartedRows
<1>3. CASE Quiet
  BY <1>3 DEF Quiet, ChargesReconcile, StartedRows
<1> QED BY <1>1, <1>2, <1>3, QuietSteps

\* While executions exclude each other, the one that is busy is alone, and the
\* row of its key is the attempt it began or took over.
OneAtATime ==
  ~overlap => \A r, s \in Runner : runner[r] # Idle /\ runner[s] # Idle => r = s

LEMMA OwnStep ==
  TypeOK /\ OneAtATime /\ SettlesOwnAttempt /\ [Next]_vars => (OneAtATime /\ SettlesOwnAttempt)'
<1> SUFFICES ASSUME TypeOK, OneAtATime, SettlesOwnAttempt, [Next]_vars
             PROVE  (OneAtATime /\ SettlesOwnAttempt)'
  OBVIOUS
<1> USE DEF Modes, Idle
<1>1. ASSUME NEW r \in Runner, NEW o \in Op, NEW c \in BOOLEAN, NEW u \in BOOLEAN,
             Begin(r, o, c, u)
      PROVE  (OneAtATime /\ SettlesOwnAttempt)'
  <2>1. ~overlap' => \A s \in Runner \ {r} : runner[s] = Idle
    BY <1>1 DEF Begin, Overlaps
  <2>2. /\ runner'[r] = [mode |-> "charged", op |-> o, intent |-> budget + 1]
        /\ \A s \in Runner \ {r} : runner'[s] = runner[s]
    BY <1>1 DEF Begin, NextAttempt, TypeOK
  <2>3. current'[o].intent = budget + 1 /\ current'[o].status = "started"
    BY <1>1, ChargedTables DEF ChargesKey
  <2> QED BY <2>1, <2>2, <2>3 DEF OneAtATime, SettlesOwnAttempt
<1>2. ASSUME NEW r \in Runner, NEW o \in Op, BeginReconcile(r, o)
      PROVE  (OneAtATime /\ SettlesOwnAttempt)'
  <2>1. ~overlap' => \A s \in Runner \ {r} : runner[s] = Idle
    BY <1>2 DEF BeginReconcile, Overlaps
  <2>2. /\ runner'[r] = [mode |-> "reconciling", op |-> o, intent |-> current[o].intent]
        /\ \A s \in Runner \ {r} : runner'[s] = runner[s]
    BY <1>2 DEF BeginReconcile, Resumed, TypeOK
  <2>3. current' = current /\ current[o].status = "started"
    BY <1>2 DEF BeginReconcile, Resumable
  <2> QED BY <2>1, <2>2, <2>3 DEF OneAtATime, SettlesOwnAttempt
<1>3. ASSUME NEW r \in Runner, NEW o \in Op, NEW c \in BOOLEAN, NEW u \in BOOLEAN,
             BeginRefused(r, o, c, u)
      PROVE  (OneAtATime /\ SettlesOwnAttempt)'
  BY <1>3 DEF BeginRefused, OneAtATime, SettlesOwnAttempt
<1>4. ASSUME NEW r \in Runner, Perform(r) PROVE (OneAtATime /\ SettlesOwnAttempt)'
  <2>1. runner[r] \in Held
    BY <1>4 DEF Perform, TypeOK
  <2>2. /\ runner'[r].op = runner[r].op /\ runner'[r].intent = runner[r].intent
        /\ \A s \in Runner \ {r} : runner'[s] = runner[s]
        /\ overlap' = overlap /\ current' = current /\ runner[r] # Idle
    BY <1>4, <2>1 DEF Perform, TypeOK, Held
  <2> QED BY <1>4, <2>1, <2>2 DEF OneAtATime, SettlesOwnAttempt, Perform
<1>5. ASSUME NEW r \in Runner, NEW succeeded \in BOOLEAN, Finish(r, succeeded)
      PROVE  (OneAtATime /\ SettlesOwnAttempt)'
  <2>1. /\ runner'[r] = Idle /\ runner[r] # Idle /\ overlap' = overlap
        /\ \A s \in Runner \ {r} : runner'[s] = runner[s]
    BY <1>5 DEF Finish, TypeOK
  <2>2. ~overlap => \A s \in Runner : runner'[s] = Idle
    BY <2>1 DEF OneAtATime
  <2> QED BY <2>1, <2>2 DEF OneAtATime, SettlesOwnAttempt
<1>6. ASSUME NEW r \in Runner, Crash(r) PROVE (OneAtATime /\ SettlesOwnAttempt)'
  BY <1>6 DEF Crash, TypeOK, OneAtATime, SettlesOwnAttempt
<1>7. CASE UNCHANGED vars
  BY <1>7 DEF vars, OneAtATime, SettlesOwnAttempt
<1> QED BY <1>1, <1>2, <1>3, <1>4, <1>5, <1>6, <1>7 DEF Next

LEMMA StoryInit == Init => ChargesReconcile /\ JournalAgrees /\ OneAtATime /\ SettlesOwnAttempt
<1> SUFFICES ASSUME Init PROVE ChargesReconcile /\ JournalAgrees /\ OneAtATime /\ SettlesOwnAttempt
  OBVIOUS
<1>1. StartedRows = {} /\ budget = 0 /\ \A o \in Op : current[o].attempts = 0
  BY DEF Init, StartedRows, Absent
<1>2. ChargesReconcile
  BY <1>1 DEF ChargesReconcile
<1>3. JournalAgrees
  <2>1. Len(journal) = 0 /\ \A o \in Op : current[o] = Absent
    BY DEF Init
  <2>2. 1..Len(journal) = {}
    BY <2>1
  <2>3. \A o \in Op : {i \in 1..Len(journal) : journal[i].op = o} = {}
    BY <2>2, Zenon
  <2> QED BY <2>1, <2>3, Zenon DEF JournalAgrees
<1>4. OneAtATime /\ SettlesOwnAttempt
  BY DEF Init, OneAtATime, SettlesOwnAttempt, Idle, Modes
<1> QED BY <1>2, <1>3, <1>4

\* For any keys, executions and caps, the attempts in the journal are numbered
\* without gap or repeat up to the current rows, and its intents are exactly
\* the charges of the task, whichever executions overlap or die.
THEOREM LedgerReconciles == Spec => []ChargesReconcile
<1>1. Spec => []TypeOK
  BY LedgerTypes
<1>2. Init => ChargesReconcile
  BY StoryInit
<1> QED BY <1>1, <1>2, ReconcileStep, PTL DEF Spec

\* The last row that begin() and finish() journal for a key always tells what
\* its current row tells.
THEOREM LedgerJournalAgrees == Spec => []JournalAgrees
<1>1. Spec => []TypeOK
  BY LedgerTypes
<1>2. Init => JournalAgrees
  BY StoryInit
<1> QED BY <1>1, <1>2, JournalStep, PTL DEF Spec

\* As long as executions exclude each other, through any crashes and retries,
\* finish() settles the attempt that its caller began.
THEOREM LedgerSettlesOwn == Spec => []SettlesOwnAttempt
<1>1. Spec => []TypeOK
  BY LedgerTypes
<1>2. Init => OneAtATime /\ SettlesOwnAttempt
  BY StoryInit
<1>3. Spec => [](OneAtATime /\ SettlesOwnAttempt)
  BY <1>1, <1>2, OwnStep, PTL DEF Spec
<1> QED BY <1>3, PTL

-----------------------------------------------------------------------------
(* The lease.                                                              *)

\* A live run's grant is still in the row, and the clock has not run past the
\* moment by which the run renews or ends.
Granted(o) ==
  /\ lease \in Rows /\ lease.owner = o
  /\ lease.expires = granted[o] + Lifetime(o)
  /\ clock <= granted[o] + Patience(o)

LeaseInv == LeaseTypeOK /\ (Prompt => \A o \in Owner : run[o] = "holding" => Granted(o))

LEMMA Spans ==
  \A o \in Owner : Lifetime(o) \in Nat \ {0} /\ Patience(o) \in Nat
  BY LeaseAssumption DEF Lifetime, Patience

\* "none" is no owner's name in the code: owners are uuids.  The proofs need
\* only that the record Free is not a row, which follows from its domain.
LEMMA FreeIsNoRow == Free \notin Rows
  BY DEF Free, Rows

LEMMA LeaseTypeStep == LeaseTypeOK /\ [LeaseNext]_leaseVars => LeaseTypeOK'
<1> SUFFICES ASSUME LeaseTypeOK, [LeaseNext]_leaseVars PROVE LeaseTypeOK'
  OBVIOUS
<1> USE Spans DEF LeaseTypeOK, Runs
<1>1. ASSUME NEW o \in Owner, Take(o)
      PROVE  lease' \in Rows /\ granted' \in [Owner -> Nat]
  BY <1>1, LeaseAssumption DEF Take, Rows
<1>2. ASSUME NEW o \in Owner, Drop(o) PROVE lease' \in Rows \union {Free}
  BY <1>2 DEF Drop
<1>3. ASSUME NEW o \in Owner, Start(o) PROVE LeaseTypeOK'
  BY <1>1, <1>3 DEF Start
<1>4. ASSUME NEW o \in Owner, Heartbeat(o) PROVE LeaseTypeOK'
  BY <1>1, <1>4 DEF Heartbeat
<1>5. ASSUME NEW o \in Owner, Delegate(o) \/ Write(o) \/ RunCrashes(o) PROVE LeaseTypeOK'
  BY <1>5 DEF Delegate, Write, RunCrashes
<1>6. ASSUME NEW o \in Owner, RunFinishes(o) \/ Cancel(o) PROVE LeaseTypeOK'
  BY <1>2, <1>6 DEF RunFinishes, Cancel, Stopped
<1>7. ASSUME Tick PROVE LeaseTypeOK'
  BY <1>7, LeaseAssumption DEF Tick
<1>8. CASE UNCHANGED leaseVars
  BY <1>8 DEF leaseVars
<1> QED BY <1>3, <1>4, <1>5, <1>6, <1>7, <1>8 DEF LeaseNext

\* While a timely run holds the lease nobody else can obtain it.
LEMMA HolderExcludes ==
  ASSUME LeaseInv, Prompt, NEW o \in Owner, NEW p \in Owner,
         run[p] = "holding", Obtainable(o)
  PROVE  o = p
<1>1. Granted(p)
  BY DEF LeaseInv
<1>2. granted[p] \in Nat /\ clock \in Nat /\ Patience(p) < Lifetime(p)
      /\ Lifetime(p) \in Nat /\ Patience(p) \in Nat
  BY Spans, LeaseAssumption DEF LeaseInv, LeaseTypeOK, Timely, Prompt
<1>3. lease.expires > clock
  BY <1>1, <1>2 DEF Granted
<1>4. lease # Free /\ lease.owner = p /\ lease.expires \in Nat
  BY <1>1, FreeIsNoRow DEF Granted, Rows
<1> QED BY <1>2, <1>3, <1>4 DEF Obtainable

\* The state every holder is in after a run took or renewed the lease.
LEMMA TakeStep ==
  ASSUME LeaseInv, Prompt, NEW o \in Owner, Obtainable(o), Take(o),
         UNCHANGED clock, \A p \in Owner \ {o} : run'[p] = run[p]
  PROVE  \A p \in Owner : run'[p] = "holding" => Granted(p)'
<1> SUFFICES ASSUME NEW p \in Owner, run'[p] = "holding" PROVE Granted(p)'
  OBVIOUS
<1>1. p = o
  BY HolderExcludes
<1>2. /\ clock \in Nat /\ Lifetime(o) \in Nat /\ Patience(o) \in Nat
      /\ granted'[o] = clock /\ lease' = [owner |-> o, expires |-> clock + Lifetime(o)]
  BY Spans, LeaseAssumption DEF Take, LeaseInv, LeaseTypeOK
<1>3. Lifetime(o)' = Lifetime(o) /\ Patience(o)' = Patience(o)
  BY DEF Lifetime, Patience
<1> QED BY <1>1, <1>2, <1>3 DEF Granted, Rows

\* Steps in which no run begins to hold and no holder's row or grant changes.
LEMMA KeepStep ==
  ASSUME LeaseInv, Prompt, UNCHANGED <<clock, granted>>,
         \A p \in Owner : run'[p] = "holding" =>
           run[p] = "holding" /\ (lease' = lease \/ lease.owner # p)
             /\ (lease.owner = p => lease' = lease)
  PROVE  \A p \in Owner : run'[p] = "holding" => Granted(p)'
  BY DEF LeaseInv, Granted, Lifetime, Patience

LEMMA LeaseStepInv == LeaseInv /\ [LeaseNext]_leaseVars => LeaseInv'
<1> SUFFICES ASSUME LeaseInv, [LeaseNext]_leaseVars, Prompt'
             PROVE  \A p \in Owner : run'[p] = "holding" => Granted(p)'
  BY LeaseTypeStep DEF LeaseInv
<1>p. Prompt
  <2>1. Timely /\ ~late'
    BY DEF Prompt, Timely, Lifetime, Patience
  <2>2. late => late'
    BY DEF LeaseNext, leaseVars, Start, Heartbeat, Delegate, Write, RunFinishes, Cancel,
           Stopped, RunCrashes, Tick
  <2> QED BY <2>1, <2>2 DEF Prompt
<1>0. LeaseTypeOK
  BY DEF LeaseInv
<1>1. ASSUME NEW o \in Owner, Start(o)
      PROVE  \A p \in Owner : run'[p] = "holding" => Granted(p)'
  <2>1. CASE Obtainable(o)
    BY <1>0, <1>p, <1>1, <2>1, TakeStep DEF Start, LeaseTypeOK
  <2>2. CASE ~Obtainable(o)
    BY <1>0, <1>p, <1>1, <2>2, KeepStep DEF Start, LeaseTypeOK
  <2> QED BY <2>1, <2>2
<1>2. ASSUME NEW o \in Owner, Heartbeat(o)
      PROVE  \A p \in Owner : run'[p] = "holding" => Granted(p)'
  <2>1. CASE Obtainable(o)
    BY <1>p, <1>2, <2>1, TakeStep DEF Heartbeat
  <2>2. CASE ~Obtainable(o)
    BY <1>0, <1>p, <1>2, <2>2, KeepStep DEF Heartbeat, LeaseTypeOK
  <2> QED BY <2>1, <2>2
<1>3. ASSUME NEW o \in Owner, Delegate(o) \/ Write(o)
      PROVE  \A p \in Owner : run'[p] = "holding" => Granted(p)'
  BY <1>p, <1>3, KeepStep DEF Delegate, Write
<1>4. ASSUME NEW o \in Owner, RunCrashes(o)
      PROVE  \A p \in Owner : run'[p] = "holding" => Granted(p)'
  BY <1>0, <1>p, <1>4, KeepStep DEF RunCrashes, LeaseTypeOK
<1>5. ASSUME NEW o \in Owner, RunFinishes(o) \/ Cancel(o)
      PROVE  \A p \in Owner : run'[p] = "holding" => Granted(p)'
  <2>1. \A p \in Owner : run'[p] = "holding" => run[p] = "holding" /\ p # o
    BY <1>0, <1>5 DEF RunFinishes, Cancel, Stopped, LeaseTypeOK
  <2>2. \A p \in Owner : run'[p] = "holding" => lease' = lease
    BY <1>p, <1>5, <2>1 DEF RunFinishes, Cancel, Stopped, Drop, LeaseInv, Granted
  <2> QED BY <1>p, <1>5, <2>1, <2>2, KeepStep DEF RunFinishes, Cancel, Stopped
<1>6. ASSUME Tick
      PROVE  \A p \in Owner : run'[p] = "holding" => Granted(p)'
  <2> SUFFICES ASSUME NEW p \in Owner, run'[p] = "holding" PROVE Granted(p)'
    OBVIOUS
  <2>1. Granted(p) /\ clock < granted[p] + Patience(p)
    <3>1. ~Overdue(p) /\ run[p] = "holding"
      BY <1>6 DEF Tick, Prompt
    <3>2. clock \in Nat /\ granted[p] \in Nat /\ Patience(p) \in Nat
      BY <1>0, Spans, LeaseAssumption DEF LeaseTypeOK
    <3> QED BY <1>p, <3>1, <3>2 DEF LeaseInv, Overdue
  <2>2. clock \in Nat /\ granted[p] \in Nat /\ Patience(p) \in Nat
    BY <1>0, Spans, LeaseAssumption DEF LeaseTypeOK
  <2>3. clock + 1 <= granted[p] + Patience(p)
    BY <2>1, <2>2
  <2> QED BY <1>6, <2>1, <2>3 DEF Tick, Granted, Lifetime, Patience
<1>7. CASE UNCHANGED leaseVars
  BY <1>p, <1>7, KeepStep DEF leaseVars
<1> QED BY <1>1, <1>2, <1>3, <1>4, <1>5, <1>6, <1>7 DEF LeaseNext

LEMMA LeaseInitInv == LeaseInit => LeaseInv
<1> SUFFICES ASSUME LeaseInit PROVE LeaseInv
  OBVIOUS
<1>1. \A o \in Owner : run[o] = "idle"
  BY DEF LeaseInit
<1>2. clock \in 0..Horizon /\ lease \in Rows \union {Free} /\ run \in [Owner -> Runs]
  BY LeaseAssumption DEF LeaseInit, Runs
<1>3. /\ started \in [Owner -> Nat] /\ granted \in [Owner -> Nat]
      /\ thread \in SUBSET Owner /\ stray \in SUBSET Owner
  BY DEF LeaseInit
<1>4. late \in BOOLEAN
  BY DEF LeaseInit
<1>5. LeaseTypeOK
  BY <1>2, <1>3, <1>4 DEF LeaseTypeOK
<1> QED BY <1>1, <1>5 DEF LeaseInv

\* The inductive invariant, for any runs and any timing constants.
THEOREM LeaseInvariant == LeaseSpec => []LeaseInv
  BY LeaseInitInv, LeaseStepInv, PTL DEF LeaseSpec

\* Type correctness of the lease row and of the runs.
THEOREM LeaseTypes == LeaseSpec => []LeaseTypeOK
<1>1. LeaseInv => LeaseTypeOK
  BY DEF LeaseInv
<1> QED BY <1>1, LeaseInvariant, PTL

\* If every run acts before its grant runs out, no two runs ever hold the task.
THEOREM LeaseExcludes == LeaseSpec => []Exclusive
<1>1. LeaseInv => Exclusive
  BY DEF LeaseInv, Exclusive, Granted
<1> QED BY <1>1, LeaseInvariant, PTL

-----------------------------------------------------------------------------
(* Takeovers, prompt or not.                                               *)

\* A run that has not let go of the lease either still has its row, or the
\* lifetime of its last grant is over; and so it was for all that came after.
Outlived(o) == clock >= granted[o] + Lifetime(o)
OwnRow(o) == lease # Free /\ lease.owner = o /\ lease.expires = granted[o] + Lifetime(o)
Guarded(o) ==
  /\ OwnRow(o) \/ Outlived(o)
  /\ \A p \in Owner : started[p] > granted[o] => started[p] >= granted[o] + Lifetime(o)

Claimed(o) == run[o] \in {"holding", "lost", "crashed"}

Succession ==
  /\ \A o \in Owner : started[o] <= clock
  /\ \A o \in Owner : Claimed(o) => Guarded(o)

\* Whoever obtains the lease besides a run that still claims it came after it.
LEMMA ObtainedAfter ==
  ASSUME LeaseTypeOK, Succession, NEW o \in Owner, NEW p \in Owner, p # o,
         Claimed(o), Obtainable(p)
  PROVE  Outlived(o)
<1>1. clock \in Nat /\ granted[o] \in Nat /\ Lifetime(o) \in Nat
  BY Spans, LeaseAssumption DEF LeaseTypeOK
<1>2. CASE OwnRow(o)
  BY <1>1, <1>2 DEF OwnRow, Obtainable, Outlived
<1>3. CASE Outlived(o)
  BY <1>3
<1> QED BY <1>2, <1>3 DEF Succession, Guarded

\* Obtaining the lease, by a first acquire or by a heartbeat.
LEMMA TakeSucceeds ==
  ASSUME LeaseTypeOK, Succession, NEW p \in Owner, Obtainable(p), Take(p),
         UNCHANGED clock, \A o \in Owner \ {p} : run'[o] = run[o],
         \A o \in Owner : started'[o] = started[o] \/ (o = p /\ started'[o] = clock)
  PROVE  Succession'
<1>1. \A o \in Owner : Lifetime(o)' = Lifetime(o) /\ Lifetime(o) \in Nat
  BY Spans DEF Lifetime
<1>2. /\ clock \in Nat /\ clock' = clock
      /\ \A o \in Owner : granted[o] \in Nat /\ started[o] \in Nat
  BY LeaseAssumption DEF LeaseTypeOK
<1>3. \A o \in Owner : started'[o] \in Nat /\ started'[o] <= clock
  BY <1>2 DEF Succession
<1>4. granted'[p] = clock /\ \A o \in Owner \ {p} : granted'[o] = granted[o]
  BY DEF Take, LeaseTypeOK
<1>5. Guarded(p)'
  <2>1. OwnRow(p)'
    BY <1>1, <1>4 DEF Take, OwnRow, Free
  <2>2. \A q \in Owner : ~(started'[q] > granted'[p])
    BY <1>2, <1>3, <1>4
  <2> QED BY <2>1, <2>2 DEF Guarded
<1>6. ASSUME NEW o \in Owner \ {p}, Claimed(o)' PROVE Guarded(o)'
  <2>1. Claimed(o) /\ Guarded(o)
    BY <1>6 DEF Claimed, Succession
  <2>2. Outlived(o)
    BY <2>1, ObtainedAfter
  <2>3. Outlived(o)'
    BY <1>1, <1>2, <1>4, <2>2 DEF Outlived
  <2>4. \A q \in Owner : started'[q] > granted'[o] => started'[q] >= granted'[o] + Lifetime(o)'
    BY <1>1, <1>2, <1>4, <2>1, <2>2 DEF Guarded, Outlived
  <2> QED BY <2>3, <2>4 DEF Guarded
<1> QED BY <1>2, <1>3, <1>5, <1>6 DEF Succession

\* Steps in which nobody obtains the lease and no claimed row is touched.
LEMMA IdleSucceeds ==
  ASSUME LeaseTypeOK, Succession, UNCHANGED <<started, granted>>, clock' \in Nat, clock <= clock',
         \A o \in Owner : Claimed(o)' => Claimed(o) /\ (OwnRow(o) => lease' = lease)
  PROVE  Succession'
<1>1. \A o \in Owner : Lifetime(o)' = Lifetime(o) /\ Lifetime(o) \in Nat
  BY Spans DEF Lifetime
<1>2. clock \in Nat /\ \A o \in Owner : granted[o] \in Nat /\ started[o] \in Nat
  BY LeaseAssumption DEF LeaseTypeOK
<1>3. \A o \in Owner : started'[o] <= clock'
  BY <1>2 DEF Succession
<1>4. ASSUME NEW o \in Owner, Claimed(o)' PROVE Guarded(o)'
  <2>1. Claimed(o) /\ Guarded(o)
    BY <1>4 DEF Succession
  <2>2. OwnRow(o) => OwnRow(o)'
    BY <1>1, <1>4 DEF OwnRow
  <2>3. Outlived(o) => Outlived(o)'
    BY <1>1, <1>2 DEF Outlived
  <2> QED BY <1>1, <2>1, <2>2, <2>3 DEF Guarded
<1> QED BY <1>3, <1>4 DEF Succession

LEMMA SuccessionStep == LeaseTypeOK /\ Succession /\ [LeaseNext]_leaseVars => Succession'
<1> SUFFICES ASSUME LeaseTypeOK, Succession, [LeaseNext]_leaseVars PROVE Succession'
  OBVIOUS
<1>0. clock \in Nat
  BY LeaseAssumption DEF LeaseTypeOK
<1>1. ASSUME NEW p \in Owner, Start(p) PROVE Succession'
  <2>1. CASE Obtainable(p)
    BY <1>1, <2>1, TakeSucceeds DEF Start, LeaseTypeOK
  <2>2. CASE ~Obtainable(p)
    BY <1>0, <1>1, <2>2, IdleSucceeds DEF Start, LeaseTypeOK, Claimed
  <2> QED BY <2>1, <2>2
<1>2. ASSUME NEW p \in Owner, Heartbeat(p) PROVE Succession'
  <2>1. CASE Obtainable(p)
    BY <1>2, <2>1, TakeSucceeds DEF Heartbeat
  <2>2. CASE ~Obtainable(p)
    BY <1>0, <1>2, <2>2, IdleSucceeds DEF Heartbeat, LeaseTypeOK, Claimed
  <2> QED BY <2>1, <2>2
<1>3. ASSUME NEW p \in Owner, Delegate(p) \/ Write(p) \/ RunCrashes(p) PROVE Succession'
  BY <1>0, <1>3, IdleSucceeds DEF Delegate, Write, RunCrashes, Claimed, LeaseTypeOK
<1>4. ASSUME NEW p \in Owner, RunFinishes(p) \/ Cancel(p) PROVE Succession'
  <2>1. \A o \in Owner : Claimed(o)' => Claimed(o) /\ o # p
    BY <1>4 DEF RunFinishes, Cancel, Stopped, Claimed, LeaseTypeOK
  <2>2. \A o \in Owner : OwnRow(o) /\ o # p => lease' = lease
    BY <1>4 DEF RunFinishes, Cancel, Stopped, Drop, OwnRow
  <2> QED BY <1>0, <1>4, <2>1, <2>2, IdleSucceeds DEF RunFinishes, Cancel, Stopped
<1>5. CASE Tick
  BY <1>0, <1>5, IdleSucceeds DEF Tick, Claimed
<1>6. CASE UNCHANGED leaseVars
  BY <1>0, <1>6, IdleSucceeds DEF leaseVars, Claimed
<1> QED BY <1>1, <1>2, <1>3, <1>4, <1>5, <1>6 DEF LeaseNext

\* However late heartbeats are: a run that takes over from a crashed one starts
\* when the lifetime of the crashed run's last grant is over, or later.
THEOREM LeaseTakeoverWaits == LeaseSpec => []TakeoverWaits
<1>1. LeaseInit => Succession
  BY DEF LeaseInit, Succession, Claimed
<1>2. Succession => TakeoverWaits
  BY DEF Succession, TakeoverWaits, Guarded, Claimed
<1> QED BY <1>1, <1>2, LeaseTypes, SuccessionStep, PTL DEF LeaseSpec

-----------------------------------------------------------------------------
(* The lock file.                                                          *)

\* What the witness of Reclaimable is, as an operator of its own.
Keeps(l) == pid[l] = file.pid /\ at[l] \in Lock!Owning /\ inode[l] = file.inode


LEMMA LockTypesStart == Lock!Init => Lock!TypeOK
  BY DEF Lock!Init, Lock!TypeOK, Lock!Files, Lock!NoFile, Lock!None, Lock!Places

LEMMA LockTypesStep ==
  Lock!LockAssumption /\ Lock!TypeOK /\ [Lock!Next]_(Lock!vars) => Lock!TypeOK'
<1> SUFFICES ASSUME Lock!LockAssumption, Lock!TypeOK, [Lock!Next]_(Lock!vars) PROVE Lock!TypeOK'
  OBVIOUS
<1> USE DEF Lock!LockAssumption, Lock!TypeOK, Lock!Files, Lock!Places, Lock!Attempt,
            Lock!Owning, Lock!Goes, Lock!Calls
<1>1. ASSUME NEW l \in Locker, Lock!TryOpen(l) PROVE Lock!TypeOK'
  BY <1>1 DEF Lock!TryOpen, Lock!Creates, Lock!Fresh
<1>2. ASSUME NEW l \in Locker, Lock!Stat(l) PROVE Lock!TypeOK'
  BY <1>2 DEF Lock!Stat, Lock!NoFile
<1>3. ASSUME NEW l \in Locker, Lock!Read(l) PROVE Lock!TypeOK'
  BY <1>3 DEF Lock!Read, Lock!NextAfter
<1>4. ASSUME NEW l \in Locker, Lock!Probe(l) PROVE Lock!TypeOK'
  BY <1>4 DEF Lock!Probe, Lock!Ends
<1>5. ASSUME NEW l \in Locker, Lock!Restat(l) PROVE Lock!TypeOK'
  BY <1>5 DEF Lock!Restat
<1>6. ASSUME NEW l \in Locker, Lock!Unlink(l) PROVE Lock!TypeOK'
  BY <1>6 DEF Lock!Unlink
<1>7. ASSUME NEW l \in Locker, Lock!Create(l) PROVE Lock!TypeOK'
  BY <1>7 DEF Lock!Create, Lock!Creates, Lock!Fresh, Lock!Ends
<1>8. ASSUME NEW l \in Locker, Lock!Write(l) PROVE Lock!TypeOK'
  BY <1>8 DEF Lock!Write, Lock!SameFile
<1>9. ASSUME NEW l \in Locker, Lock!Close(l) PROVE Lock!TypeOK'
  BY <1>9 DEF Lock!Close
<1>10. ASSUME NEW l \in Locker, Lock!Recheck(l) PROVE Lock!TypeOK'
  BY <1>10 DEF Lock!Recheck, Lock!Ends
<1>11. ASSUME NEW l \in Locker, Lock!Remove(l) PROVE Lock!TypeOK'
  BY <1>11 DEF Lock!Remove, Lock!Ends
<1>12. ASSUME NEW p \in Process, Lock!Die(p) PROVE Lock!TypeOK'
  BY <1>12 DEF Lock!Die
<1>13. CASE UNCHANGED Lock!vars
  BY <1>13 DEF Lock!vars
<1> QED
  BY <1>1, <1>2, <1>3, <1>4, <1>5, <1>6, <1>7, <1>8, <1>9, <1>10, <1>11, <1>12,
     <1>13 DEF Lock!Next, Lock!Step

\* No step takes the last keeper from a file that a live process owns.
LEMMA ReclaimableStep ==
  Lock!LockAssumption /\ Lock!TypeOK /\ Lock!Reclaimable /\ [Lock!Next]_(Lock!vars)
    => Lock!Reclaimable'
<1> SUFFICES ASSUME Lock!LockAssumption, Lock!TypeOK, Lock!Reclaimable,
                    [Lock!Next]_(Lock!vars), file' # Lock!NoFile,
                    file'.pid # Lock!None, file'.pid \in alive'
             PROVE \E k \in Locker : Keeps(k)'
  BY DEF Lock!Reclaimable, Keeps
<1> USE DEF Lock!LockAssumption, Keeps, Lock!Owning, Lock!Goes, Lock!Calls
\* While the file stays as it is, it is enough that its keeper stays too.
<1>a. ASSUME UNCHANGED <<file>>, alive' \subseteq alive,
             \A k \in Locker : Keeps(k) => Keeps(k)'
      PROVE \E k \in Locker : Keeps(k)'
  <2>1. \E k \in Locker : Keeps(k)
    BY <1>a DEF Lock!Reclaimable
  <2> QED
    BY <2>1, <1>a
<1>1. ASSUME NEW l \in Locker, Lock!TryOpen(l) PROVE \E k \in Locker : Keeps(k)'
  <2>1. CASE file = Lock!NoFile
    BY <1>1, <2>1 DEF Lock!TryOpen, Lock!Creates
  <2>2. CASE file # Lock!NoFile
    BY <1>1, <2>2, <1>a DEF Lock!TryOpen, Lock!TypeOK
  <2> QED
    BY <2>1, <2>2
<1>2. ASSUME NEW l \in Locker, Lock!Stat(l) PROVE \E k \in Locker : Keeps(k)'
  BY <1>2, <1>a DEF Lock!Stat, Lock!TypeOK
<1>3. ASSUME NEW l \in Locker, Lock!Read(l) PROVE \E k \in Locker : Keeps(k)'
  BY <1>3, <1>a DEF Lock!Read, Lock!TypeOK
<1>4. ASSUME NEW l \in Locker, Lock!Probe(l) PROVE \E k \in Locker : Keeps(k)'
  BY <1>4, <1>a DEF Lock!Probe, Lock!Ends, Lock!TypeOK
<1>5. ASSUME NEW l \in Locker, Lock!Restat(l) PROVE \E k \in Locker : Keeps(k)'
  BY <1>5, <1>a DEF Lock!Restat, Lock!TypeOK
<1>6. ASSUME NEW l \in Locker, Lock!Unlink(l) PROVE \E k \in Locker : Keeps(k)'
  BY <1>6 DEF Lock!Unlink
<1>7. ASSUME NEW l \in Locker, Lock!Create(l) PROVE \E k \in Locker : Keeps(k)'
  <2>1. CASE file = Lock!NoFile
    BY <1>7, <2>1 DEF Lock!Create, Lock!Creates
  <2>2. CASE file # Lock!NoFile
    BY <1>7, <2>2, <1>a DEF Lock!Create, Lock!Ends, Lock!TypeOK
  <2> QED
    BY <2>1, <2>2
<1>8. ASSUME NEW l \in Locker, Lock!Write(l) PROVE \E k \in Locker : Keeps(k)'
  <2>1. CASE Lock!SameFile(l)
    <3>1. file' = [file EXCEPT !.pid = pid[l]] /\ file \in Lock!Files
      BY <1>8, <2>1 DEF Lock!Write, Lock!SameFile, Lock!TypeOK
    <3>2. file'.pid = pid[l] /\ file'.inode = inode[l]
      BY <3>1, <2>1 DEF Lock!Files, Lock!SameFile
    <3>3. at'[l] = "holding" /\ inode' = inode
      BY <1>8 DEF Lock!Write, Lock!TypeOK
    <3> QED
      BY <3>2, <3>3
  <2>2. CASE ~Lock!SameFile(l)
    BY <1>8, <2>2, <1>a DEF Lock!Write, Lock!TypeOK
  <2> QED
    BY <2>1, <2>2
<1>9. ASSUME NEW l \in Locker, Lock!Close(l) PROVE \E k \in Locker : Keeps(k)'
  BY <1>9, <1>a DEF Lock!Close, Lock!TypeOK
<1>10. ASSUME NEW l \in Locker, Lock!Recheck(l) PROVE \E k \in Locker : Keeps(k)'
  <2>1. CASE Lock!SameFile(l)
    BY <1>10, <2>1, <1>a DEF Lock!Recheck, Lock!TypeOK
  <2>2. CASE ~Lock!SameFile(l)
    <3>1. ~Keeps(l)
      BY <1>10, <2>2 DEF Lock!Recheck, Lock!SameFile
    <3> QED
      BY <1>10, <2>2, <3>1, <1>a DEF Lock!Recheck, Lock!Ends, Lock!TypeOK
  <2> QED
    BY <2>1, <2>2
<1>11. ASSUME NEW l \in Locker, Lock!Remove(l) PROVE \E k \in Locker : Keeps(k)'
  BY <1>11 DEF Lock!Remove
<1>12. ASSUME NEW p \in Process, Lock!Die(p) PROVE \E k \in Locker : Keeps(k)'
  BY <1>12, <1>a DEF Lock!Die
<1>13. CASE UNCHANGED Lock!vars
  BY <1>13, <1>a DEF Lock!vars
<1> QED
  BY <1>1, <1>2, <1>3, <1>4, <1>5, <1>6, <1>7, <1>8, <1>9, <1>10, <1>11, <1>12,
     <1>13 DEF Lock!Next, Lock!Step

-----------------------------------------------------------------------------
\* The files, inodes and pids of Storage.lock are what their names say, and a
\* locker probes a pid only after reading one.
THEOREM LockTypes == Lock!LockAssumption => (Lock!Spec => []Lock!TypeOK)
<1> SUFFICES ASSUME Lock!LockAssumption PROVE Lock!Spec => []Lock!TypeOK
  OBVIOUS
<1>1. Lock!TypeOK /\ [Lock!Next]_(Lock!vars) => Lock!TypeOK'
  BY LockTypesStep
<1> QED
  BY LockTypesStart, <1>1, PTL DEF Lock!Spec

\* A repository is never left locked by a process that lives on: whatever the
\* races of create, takeover and release, each file is free to be taken over or
\* its locker is about to remove it.
THEOREM LockReclaimable == Lock!LockAssumption => (Lock!Spec => []Lock!Reclaimable)
<1> SUFFICES ASSUME Lock!LockAssumption PROVE Lock!Spec => []Lock!Reclaimable
  OBVIOUS
<1>1. Lock!Init => Lock!Reclaimable
  BY DEF Lock!Init, Lock!Reclaimable
<1>2. Lock!TypeOK /\ Lock!Reclaimable /\ [Lock!Next]_(Lock!vars) => Lock!Reclaimable'
  BY ReclaimableStep
<1>3. Lock!Spec => []Lock!TypeOK
  BY LockTypes
<1> QED
  BY <1>1, <1>2, <1>3, PTL DEF Lock!Spec
=============================================================================
